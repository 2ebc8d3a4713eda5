------------------------------ MODULE SpanQueue ------------------------------
(***************************************************************************)
(* What SpanBuffer promises its two sides, without slots, positions or     *)
(* locks: a bounded first-in first-out queue of spans that refuses an      *)
(* offer when it is full and never blocks the offering thread for it.      *)
(* SpanBuffer implements this module; LokiExporter is written against it.  *)
(***************************************************************************)
EXTENDS Naturals, Sequences

CONSTANTS
  Bound,   \* the number of spans the queue can hold (SpanBuffer::capacity())
  Span     \* the spans that can be offered

VARIABLES
  queue,      \* spans accepted and not handed over yet, oldest first
  delivered,  \* spans handed to the consumer, in the order they were handed
  refused     \* how many offers were turned down

vars == <<queue, delivered, refused>>

TypeOK ==
  /\ queue \in Seq(Span)
  /\ Len(queue) <= Bound
  /\ delivered \in Seq(Span)
  /\ refused \in Nat

Init ==
  /\ queue = <<>>
  /\ delivered = <<>>
  /\ refused = 0

AcceptWithoutLimit(s) ==
  /\ queue' = Append(queue, s)
  /\ UNCHANGED <<delivered, refused>>

Accept(s) ==
  /\ Len(queue) < Bound
  /\ queue' = Append(queue, s)
  /\ UNCHANGED <<delivered, refused>>

\* A full queue refuses the offered span and keeps what it holds.
Refuse ==
  /\ Len(queue) = Bound
  /\ refused' = refused + 1
  /\ UNCHANGED <<queue, delivered>>

Take ==
  /\ queue # <<>>
  /\ delivered' = Append(delivered, Head(queue))
  /\ queue' = Tail(queue)
  /\ UNCHANGED refused

Next ==
  \/ \E s \in Span : Accept(s)
  \/ Refuse
  \/ Take

Spec == Init /\ [][Next]_vars
==============================================================================
