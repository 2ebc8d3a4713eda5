---------------------------- MODULE LokiExporter ----------------------------
(***************************************************************************)
(* The exporter thread, the thread that starts and stops it, and the       *)
(* backend it posts to (loki_exporter.h, loki_exporter.cpp).  The span     *)
(* buffer is what SpanQueue says of it, PHP threads offer it spans at any  *)
(* time.  Spans are numbered in the order they are offered.                *)
(*                                                                         *)
(* An HTTP attempt ends in one of four ways.  "unconfirmed" is the one     *)
(* that makes delivery inexact: the backend stored the request and the     *)
(* client did not learn of it (a timeout, a reset, a proxy's error).       *)
(***************************************************************************)
EXTENDS Integers, Sequences, FiniteSets

CONSTANTS
  Bound,       \* capacity of the span buffer
  BatchSize,   \* batch_size
  MaxRetries,  \* max_retries
  MaxSpans,    \* bound: spans offered in a behaviour
  MaxStarts    \* bound: calls of start() that get to make a thread

ASSUME ExporterAssumption ==
  /\ Bound \in Nat /\ BatchSize \in Nat /\ MaxRetries \in Nat
  /\ MaxSpans \in Nat /\ MaxStarts \in Nat

VARIABLES
  queue, delivered, refused,   \* the span buffer: what it holds, handed over, refused
  running, stop_requested,
  has_curl,                    \* curl_ is not null
  opc, starts,                 \* the owner's step in start() or stop(); threads asked for
  wpc, batch, final, retry,    \* the worker's step, `batch' or `remaining', after the loop, retry
  received,                    \* history: how often the backend stored each span
  abandoned,                   \* history: spans whose last attempt failed
  flush_to,                    \* history: spans handed over or held when stop() was called
  late_attempts,               \* history: HTTP attempts since stop() was called
  spans_exported, batches_sent, batches_failed, http_errors

buffer_vars == <<queue, delivered, refused>>
owner_vars == <<running, stop_requested, opc, starts, flush_to>>
worker_vars == <<wpc, batch, final, retry>>
backend_vars == <<received, abandoned, late_attempts, has_curl>>
counters == <<spans_exported, batches_sent, batches_failed, http_errors>>
vars == <<buffer_vars, owner_vars, worker_vars, backend_vars, counters>>

Buffer == INSTANCE SpanQueue WITH Span <- 1 .. MaxSpans

Offered == Len(delivered) + Len(queue) + refused
Contents(s) == {s[i] : i \in DOMAIN s}

Init ==
  /\ Buffer!Init
  /\ running = FALSE /\ stop_requested = FALSE /\ has_curl = FALSE
  /\ opc = "idle" /\ starts = 0
  /\ wpc = "none" /\ batch = <<>> /\ final = FALSE /\ retry = 0
  /\ received = [s \in 1 .. MaxSpans |-> 0]
  /\ abandoned = {} /\ flush_to = 0 /\ late_attempts = 0
  /\ spans_exported = 0 /\ batches_sent = 0 /\ batches_failed = 0 /\ http_errors = 0

\* A PHP thread pushes a span.
Push ==
  /\ Offered < MaxSpans
  /\ Buffer!Accept(Offered + 1) \/ Buffer!Refuse
  /\ UNCHANGED <<owner_vars, worker_vars, backend_vars, counters>>

(***************************************************************************)
(* start() and stop(), called by one thread at a time.                     *)
(***************************************************************************)
\* Set up curl and make the thread, which may fail.
Start ==
  /\ opc = "idle" /\ ~running
  /\ starts < MaxStarts
  /\ starts' = starts + 1
  /\ has_curl' \in BOOLEAN
  /\ stop_requested' = FALSE
  /\ late_attempts' = 0
  /\ \/ /\ opc' = "mark"
        /\ wpc' = "check" /\ batch' = <<>> /\ final' = FALSE /\ retry' = 0
     \/ UNCHANGED <<opc, worker_vars>>
  /\ UNCHANGED <<buffer_vars, running, flush_to, received, abandoned, counters>>

MarkRunning ==
  /\ opc = "mark"
  /\ opc' = "idle" /\ running' = TRUE
  /\ UNCHANGED <<buffer_vars, stop_requested, starts, flush_to, worker_vars, backend_vars, counters>>

\* stop_requested_, then shutdown() of the buffer, which ends the worker's wait.
Stop ==
  /\ opc = "idle" /\ running
  /\ opc' = "join" /\ stop_requested' = TRUE
  /\ flush_to' = Len(delivered) + Len(queue)
  /\ UNCHANGED <<buffer_vars, running, starts, worker_vars, backend_vars, counters>>

Join ==
  /\ opc = "join"
  /\ wpc = "done"
  /\ wpc' = "none"
  /\ opc' = "idle" /\ running' = FALSE
  /\ UNCHANGED <<buffer_vars, stop_requested, starts, flush_to, batch, final, retry, backend_vars,
                 counters>>

(***************************************************************************)
(* worker_loop().  The wait in drain() can end at any time, by data, by    *)
(* shutdown or by its timeout, so it is no step of its own.                *)
(***************************************************************************)
StopUnlessData == stop_requested /\ queue = <<>>
StopIgnored == FALSE
StopNow == stop_requested

CheckStop ==
  /\ wpc = "check"
  /\ wpc' = "take"
  /\ final' = StopNow
  /\ UNCHANGED <<buffer_vars, owner_vars, batch, retry, backend_vars, counters>>

\* drain() takes batch_size spans at most, drain_all() has no limit.
RoomAlways == TRUE
RoomInLastBatch == final
RoomInAnyBatch == Len(batch) < BatchSize
RoomInBatch == final \/ Len(batch) < BatchSize

TakeOne ==
  /\ wpc = "take"
  /\ RoomInBatch
  /\ Buffer!Take
  /\ batch' = Append(batch, Head(queue))
  /\ UNCHANGED <<owner_vars, wpc, final, retry, backend_vars, counters>>

\* The drain returns; with nothing taken the loop goes round, or the thread ends.
TakeDone ==
  /\ wpc = "take"
  /\ ~RoomInBatch \/ queue = <<>>
  /\ wpc' = IF batch # <<>> THEN "send" ELSE IF final THEN "done" ELSE "check"
  /\ retry' = 0
  /\ UNCHANGED <<buffer_vars, owner_vars, batch, final, backend_vars, counters>>

Count(stored) ==
  received' = [s \in DOMAIN received |->
                 received[s] + IF stored /\ s \in Contents(batch) THEN 1 ELSE 0]

\* send_to_loki(): a 2xx answer.
SendOk ==
  /\ wpc = "send"
  /\ Count(TRUE)
  /\ has_curl' = TRUE
  /\ late_attempts' = late_attempts + IF stop_requested THEN 1 ELSE 0
  /\ wpc' = "sent"
  /\ UNCHANGED <<buffer_vars, owner_vars, batch, final, retry, abandoned, counters>>

\* What follows a failed attempt: wait and try again, or give the batch up.
FailureTakenForSuccess == "sent"
AfterFailureTooLong == IF retry <= MaxRetries THEN "pause" ELSE "failed"
AfterFailure == IF retry < MaxRetries THEN "pause" ELSE "failed"

\* An error of curl or a status that is not 2xx; the backend may have stored the batch.
SendError(stored) ==
  /\ wpc = "send"
  /\ Count(stored)
  /\ has_curl' = TRUE
  /\ late_attempts' = late_attempts + IF stop_requested THEN 1 ELSE 0
  /\ http_errors' = http_errors + 1
  /\ wpc' = AfterFailure
  /\ UNCHANGED <<buffer_vars, owner_vars, batch, final, retry, abandoned, spans_exported,
                 batches_sent, batches_failed>>

\* There is no curl handle and none can be made: a failure that no counter shows.
SendWithoutCurl ==
  /\ wpc = "send"
  /\ ~has_curl
  /\ late_attempts' = late_attempts + IF stop_requested THEN 1 ELSE 0
  /\ wpc' = AfterFailure
  /\ UNCHANGED <<buffer_vars, owner_vars, batch, final, retry, received, abandoned, has_curl,
                 counters>>

\* The sleep of retry_delay_ms ends; a stop request does not cut it short.
Retry ==
  /\ wpc = "pause"
  /\ wpc' = "send"
  /\ retry' = retry + 1
  /\ UNCHANGED <<buffer_vars, owner_vars, batch, final, backend_vars, counters>>

\* Inside the loop the outcome is counted.
BatchSettled ==
  /\ wpc \in {"sent", "failed"} /\ ~final
  /\ IF wpc = "sent"
       THEN /\ spans_exported' = spans_exported + Len(batch)
            /\ batches_sent' = batches_sent + 1
            /\ UNCHANGED <<batches_failed, abandoned>>
       ELSE /\ batches_failed' = batches_failed + 1
            /\ abandoned' = abandoned \cup Contents(batch)
            /\ UNCHANGED <<spans_exported, batches_sent>>
  /\ batch' = <<>>
  /\ wpc' = "check"
  /\ UNCHANGED <<buffer_vars, owner_vars, final, retry, received, late_attempts, has_curl,
                 http_errors>>

\* After the loop the spans count as exported whatever became of them.
FinalSettled ==
  /\ wpc \in {"sent", "failed"} /\ final
  /\ spans_exported' = spans_exported + Len(batch)
  /\ abandoned' = IF wpc = "failed" THEN abandoned \cup Contents(batch) ELSE abandoned
  /\ batch' = <<>>
  /\ wpc' = "done"
  /\ UNCHANGED <<buffer_vars, owner_vars, final, retry, received, late_attempts, has_curl,
                 batches_sent, batches_failed, http_errors>>

-----------------------------------------------------------------------------
Send == SendOk \/ SendWithoutCurl \/ \E stored \in BOOLEAN : SendError(stored)
Work == CheckStop \/ TakeOne \/ TakeDone \/ Send \/ Retry \/ BatchSettled \/ FinalSettled

Next == Push \/ Start \/ MarkRunning \/ Stop \/ Join \/ Work

Spec == Init /\ [][Next]_vars

\* The worker runs, its HTTP attempts end (request_timeout_s) and its sleeps too.
FairSpec == Spec /\ WF_vars(Work) /\ WF_vars(MarkRunning) /\ WF_vars(Join)

(***************************************************************************)
(* Properties.                                                             *)
(***************************************************************************)
TypeOK ==
  /\ Buffer!TypeOK
  /\ running \in BOOLEAN /\ stop_requested \in BOOLEAN /\ has_curl \in BOOLEAN
  /\ opc \in {"idle", "mark", "join"} /\ starts \in Nat
  /\ wpc \in {"none", "check", "take", "send", "pause", "sent", "failed", "done"}
  /\ batch \in Seq(1 .. MaxSpans) /\ final \in BOOLEAN /\ retry \in Nat
  /\ received \in [1 .. MaxSpans -> Nat] /\ abandoned \subseteq 1 .. MaxSpans
  /\ flush_to \in Nat /\ late_attempts \in Nat
  /\ spans_exported \in Nat /\ batches_sent \in Nat
  /\ batches_failed \in Nat /\ http_errors \in Nat

\* A span taken from the buffer reaches the backend, unless every attempt with it failed:
\* stopping, restarting and retrying lose none.
NothingVanishes ==
  \A s \in Contents(delivered) : received[s] > 0 \/ s \in abandoned \cup Contents(batch)

\* A retry can store a span again (there is no idempotency key), but only after an error
\* was counted and only as often as there are attempts.
DuplicatesAreBounded ==
  \A s \in 1 .. MaxSpans : received[s] <= MaxRetries + 1 /\ received[s] <= http_errors + 1

\* The counters cover every span taken: what is not exported and not under way is in one of
\* the failed batches.
CountersCoverSpans ==
  LET uncounted == Len(delivered) - Len(batch) - spans_exported
  IN  0 <= uncounted /\ uncounted <= batches_failed * BatchSize

\* Inside the loop spans_exported counts only what the backend stored (the final drain
\* counts what it gives up as well, loki_exporter.cpp:209).
ExportedIsStored ==
  wpc # "none" /\ ~final /\ starts = 1 =>
    spans_exported <= Cardinality({s \in 1 .. MaxSpans : received[s] > 0})

\* When stop() has returned, every span that was in the buffer when it was called has been
\* taken and its request is over.
StopFlushes == opc = "idle" /\ ~running => Len(delivered) >= flush_to /\ batch = <<>>

\* stop() waits for two rounds of attempts at most, the batch under way and the final one,
\* however many spans keep coming.
StopIsBounded == late_attempts <= 2 * (MaxRetries + 1)

\* While the exporter runs, the buffer is emptied in the end, so that each span in it is
\* taken, also when stop() and a restart come in between.
EverySpanIsTaken == running /\ ~stop_requested /\ queue # <<>> ~> queue = <<>>

\* stop() returns: the worker leaves its loop, and its final drain ends.
StopReturns == opc = "join" ~> opc = "idle"
=============================================================================
