---------------------------- MODULE MCSpanBuffer ----------------------------
(***************************************************************************)
(* An instance of SpanBuffer alone, for TLC.                               *)
(***************************************************************************)
EXTENDS SpanBuffer

CONSTANTS p1, p2, c1

TwoProducers == {p1, p2}
OneConsumer == {c1}
OneAtATime == {1}
=============================================================================
