-------------------------- MODULE MCBehaviorSession --------------------------
(* Small instances of BehaviorSession for TLC.                             *)
EXTENDS BehaviorSession

\* createRepeatingBehavior, createTimebasedBehavior, createTransitionBehavior.
MCBehaviors == {0, 1, 2}
MCTwo == {0, 2}
MCLive == {1, 2}
MCKind == [b \in Behaviors |-> CASE b = 0 -> "training" [] b = 1 -> "alarm" [] OTHER -> "party"]
=============================================================================
