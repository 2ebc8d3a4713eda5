---------------------------- MODULE MCSpanStatus ----------------------------
(***************************************************************************)
(* An instance of SpanStatus, and of SpanBuffer within it, for TLC.        *)
(***************************************************************************)
EXTENDS SpanStatus, TLC

CONSTANTS p1, p2, c1

TwoProducers == {p1, p2}
OneConsumer == {c1}
DrainSizes == {1, 2}

\* The two producers do the same.
ProducersAlike == Permutations(TwoProducers)

\* Readers change nothing, so two of them at once find what each would find alone.
OneReader ==
  \A p, q \in Producers : loads[p] # "none" /\ loads[q] # "none" => p = q

\* shutdown() is called when PHP code has ended, and no reader is under way.
ReadersAreGone == shutdown => \A p \in Producers : loads[p] = "none"

\* A reader that has loaded everything returns: it loads nothing more, whatever the others do.
ReaderReturns == (\E p \in Producers : loads[p] = "all") => loads' # loads
=============================================================================
