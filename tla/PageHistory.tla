----------------------------- MODULE PageHistory -----------------------------
(***************************************************************************)
(* What the Back and Home buttons promise: the pages the user came through *)
(* form a trail that starts at home; opening a page extends it, Back       *)
(* returns to the page the current one was opened from, Home starts over.  *)
(* The trail may be lost when two tasks draw at once; Home finds it again. *)
(***************************************************************************)
EXTENDS Naturals, Sequences

CONSTANTS
    HomePage,    \* where every trail begins
    DialPage,    \* the page that a dial opens on top of any other
    Pages,       \* all pages
    Links        \* <<g, h>>: page g has a button that opens page h

VARIABLES trail, lost

vars == <<trail, lost>>

Init == trail = <<HomePage>> /\ lost = FALSE

Keep == ~lost /\ ~lost'

Open ==
    /\ Keep
    /\ \E g \in Pages :
          /\ g = DialPage \/ <<trail[Len(trail)], g>> \in Links
          /\ trail' = Append(trail, g)

Back ==
    /\ Keep
    /\ Len(trail) > 1
    /\ trail' = SubSeq(trail, 1, Len(trail) - 1)

Home == Keep /\ trail' = <<HomePage>>

Lose == ~lost /\ lost'

Wander == lost /\ lost'

Recover == lost /\ ~lost' /\ trail' = <<HomePage>>

Next == Open \/ Back \/ Home \/ Lose \/ Wander \/ Recover

Spec == Init /\ [][Next]_vars
=============================================================================
