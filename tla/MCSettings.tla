------------------------------ MODULE MCSettings ------------------------------
(* A small instance of Settings for TLC: eight bits are three values, so the  *)
(* next tap makes the count of the training wrap.                             *)
EXTENDS Settings

MCStartCount == [b \in Kinds |-> 2]
MCMaxCount == [MCStartCount EXCEPT !["training"] = 4]
=============================================================================
