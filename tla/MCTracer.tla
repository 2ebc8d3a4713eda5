------------------------------ MODULE MCTracer ------------------------------
(***************************************************************************)
(* Instances of Tracer for TLC.                                            *)
(***************************************************************************)
EXTENDS Tracer

CONSTANT f1

NoFiber == {}
OneFiber == {f1}
BothKinds == Kind
UserOnly == {"user"}
=============================================================================
