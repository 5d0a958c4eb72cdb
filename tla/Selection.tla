------------------------------- MODULE Selection -------------------------------
(***************************************************************************)
(* What the page "VAELG LAMPER" promises: every behaviour has a set of     *)
(* lights; a tap on a light of the list adds it to the behaviour whose     *)
(* page was opened last, or takes it out again; a refresh empties all.     *)
(***************************************************************************)
CONSTANTS Behaviors, Lights

VARIABLES chosen, edited

vars == <<chosen, edited>>

Init == chosen = [b \in Behaviors |-> {}] /\ edited \in Behaviors

Open == edited' \in Behaviors /\ UNCHANGED chosen

Add ==
    /\ \E l \in Lights \ chosen[edited] :
          chosen' = [chosen EXCEPT ![edited] = @ \cup {l}]
    /\ UNCHANGED edited

Remove ==
    /\ \E l \in chosen[edited] : chosen' = [chosen EXCEPT ![edited] = @ \ {l}]
    /\ UNCHANGED edited

Clear == chosen' = [b \in Behaviors |-> {}] /\ edited' \in Behaviors

Next == Open \/ Add \/ Remove \/ Clear

Spec == Init /\ [][Next]_vars
=============================================================================
