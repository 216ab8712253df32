------------------------------- MODULE MCRcOut -------------------------------
(* Instances of RcOut for TLC: two outputs on one generator. *)
EXTENDS RcOut

SharedGenerator == [o \in 1 .. 2 |-> 1]
=============================================================================
