------------------------------- MODULE Handover -------------------------------
(***************************************************************************)
(* What START and STOP promise the rest of the program: a behaviour and    *)
(* the data object of the log take turns.  START takes the object away     *)
(* before the behaviour is active, STOP and only STOP ends the one that    *)
(* is, and only then the object comes back.  Two tasks inside              *)
(* toggleBehavior may spoil the turns, until the chip has panicked.        *)
(***************************************************************************)
CONSTANT Behaviors

VARIABLES
    active,    \* the behaviours that are active
    log,       \* the log has its data object
    state      \* "fine", "spoilt" or "down"

vars == <<active, log, state>>

Init == active = {} /\ log = TRUE /\ state = "fine"

Keep == state = "fine" /\ state' = "fine"

TakeLog == Keep /\ active = {} /\ log /\ ~log' /\ UNCHANGED active

Start ==
    /\ Keep /\ active = {} /\ ~log
    /\ \E b \in Behaviors : active' = {b}
    /\ UNCHANGED log

Stop == Keep /\ active # {} /\ active' = {} /\ UNCHANGED log

GiveLog == Keep /\ active = {} /\ ~log /\ log' /\ UNCHANGED active

Spoil == state # "down" /\ state' = "spoilt"

Panic == state # "down" /\ state' = "down" /\ active' = {} /\ log'

Reboot == state = "down" /\ state' = "fine" /\ UNCHANGED <<active, log>>

Next == TakeLog \/ Start \/ Stop \/ GiveLog \/ Spoil \/ Panic \/ Reboot

Spec == Init /\ [][Next]_vars

\* What the turns are for: the heap never has to hold both, nor two behaviours.
OneAtATime ==
    state = "spoilt" \/ active = {} \/ (~log /\ \E b \in Behaviors : active = {b})
=============================================================================
