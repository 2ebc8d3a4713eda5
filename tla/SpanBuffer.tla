----------------------------- MODULE SpanBuffer -----------------------------
(***************************************************************************)
(* The ring buffer between the PHP threads and the exporter thread         *)
(* (span_buffer.h, span_buffer.cpp), one action per access to shared       *)
(* memory.  Producers serialise on producer_mutex_, consumers on           *)
(* consumer_mutex_; the two sides meet only in write_pos_, has_data and    *)
(* the plain, unsynchronised read_pos_.                                    *)
(*                                                                         *)
(* read_pos_ is a data race: a consumer writes it under consumer_mutex_    *)
(* and producers read it under producer_mutex_.  The compiled load is one  *)
(* machine word, so what it can return is the position memory shows, and   *)
(* `lag' says by how many stores that trails the consumer's own position.  *)
(* It is -1 when a store became visible early: a plain store may overtake  *)
(* the release store to has_data and the accesses to the slot before it.   *)
(*                                                                         *)
(* A span is the number of the push call that brought it; NoSpan is a      *)
(* Span that was default-constructed or moved from.                        *)
(***************************************************************************)
EXTENDS Integers, Sequences, FiniteSets

CONSTANTS
  Capacity,   \* capacity_: slots of the ring, one of which stays free
  Producers,  \* threads that push
  Consumers,  \* threads that drain
  MaxCounts,  \* the max_count values drain() is called with
  MaxSpans,   \* bound: push calls in a behaviour
  Nobody      \* the owner of a mutex nobody holds

ASSUME CapacityAssumption == Capacity \in Nat \ {0}
ASSUME BoundsAssumption == MaxSpans \in Nat /\ MaxCounts \subseteq Nat
ASSUME NobodyAssumption == Nobody \notin Producers \cup Consumers

VARIABLES
  write_pos, read_pos,
  lag,                                 \* stores to read_pos_ the producers cannot see yet
  has_data, span,                      \* the two fields of each Slot
  producer_mutex, consumer_mutex,      \* the thread that holds it, or Nobody
  total_pushed, total_dropped, total_drained,
  shutdown, notifying,                 \* shutdown_; a shutdown() call has notify_all to do
  made, ppc, arg, may_wait,            \* push calls; step, span, deadline not passed
  cpc, limit, drained,                 \* consumer: step, max_count, local drained
  accepted, taken                      \* history: spans published, spans moved into `out'

call_vars == <<made, arg, may_wait>>
push_stats == <<total_pushed, total_dropped>>
published == <<write_pos, accepted>>
slots == <<has_data, span>>
\* What only producers write, and what only consumers write.
producer_vars == <<call_vars, push_stats, published, ppc, producer_mutex>>
consumer_vars == <<read_pos, lag, total_drained, limit, drained, taken>>
shutdown_vars == <<shutdown, notifying>>
vars == <<producer_vars, consumer_vars, cpc, consumer_mutex, slots, shutdown_vars>>

Slots == 0 .. Capacity - 1
NoSpan == 0
NoLimit == -1       \* drain_all() has no max_count

\* The slot after i.
NextSlotWithoutWrap(i) == i + 1
NextSlot(i) == (i + 1) % Capacity

\* Slots from position a up to, and without, position b: what size() computes.
Distance(a, b) == IF b >= a THEN b - a ELSE Capacity - a + b

\* What a producer's load of read_pos_ returns.
ReadPosSeen == (read_pos + Capacity - lag) % Capacity

\* No room for another span, as a producer sees it.
NeverFull == FALSE
FullOneEarly == NextSlot(NextSlot(write_pos)) = ReadPosSeen \/ NextSlot(write_pos) = ReadPosSeen
Full == NextSlot(write_pos) = ReadPosSeen

CanLockAlways(mutex) == TRUE
CanLock(mutex) == mutex = Nobody

Init ==
  /\ write_pos = 0 /\ read_pos = 0 /\ lag = 0
  /\ has_data = [i \in Slots |-> FALSE]
  /\ span = [i \in Slots |-> NoSpan]
  /\ producer_mutex = Nobody /\ consumer_mutex = Nobody
  /\ total_pushed = 0 /\ total_dropped = 0 /\ total_drained = 0
  /\ shutdown = FALSE /\ notifying = FALSE
  /\ made = 0
  /\ ppc = [p \in Producers |-> "idle"]
  /\ arg = [p \in Producers |-> NoSpan]
  /\ may_wait = [p \in Producers |-> FALSE]
  /\ cpc = [c \in Consumers |-> "idle"]
  /\ limit = [c \in Consumers |-> 0]
  /\ drained = [c \in Consumers |-> 0]
  /\ accepted = <<>> /\ taken = <<>>

(***************************************************************************)
(* Producers: try_push() and push().  They differ only in what a full ring *)
(* does to them, so try_push() is a push whose deadline has passed.  The   *)
(* local w is write_pos, which changes only under the mutex p holds.       *)
(***************************************************************************)
\* p goes on to its next step; nothing a consumer or shutdown() owns changes.
ProducerGoes(p, from, to) ==
  /\ ppc[p] = from
  /\ ppc' = [ppc EXCEPT ![p] = to]
  /\ UNCHANGED <<consumer_vars, consumer_mutex, shutdown_vars>>

PushCall(p, waits) ==
  /\ ProducerGoes(p, "idle", "check")
  /\ made < MaxSpans
  /\ CanLock(producer_mutex)
  /\ producer_mutex' = p
  /\ made' = made + 1
  /\ arg' = [arg EXCEPT ![p] = made + 1]
  /\ may_wait' = [may_wait EXCEPT ![p] = waits]
  /\ UNCHANGED <<push_stats, published, cpc, slots>>

\* There is room in the slot at write_pos.
FindRoom(p) ==
  /\ ProducerGoes(p, "check", "fill")
  /\ ~Full
  /\ UNCHANGED <<call_vars, push_stats, published, producer_mutex, cpc, slots>>

\* The ring is full and the span is dropped.
DropHoldingMutex(p) ==
  /\ ProducerGoes(p, "check", "idle")
  /\ Full /\ ~may_wait[p]
  /\ total_dropped' = total_dropped + 1
  /\ UNCHANGED <<call_vars, total_pushed, published, producer_mutex, cpc, slots>>

DropUncounted(p) ==
  /\ ProducerGoes(p, "check", "idle")
  /\ Full /\ ~may_wait[p]
  /\ producer_mutex' = Nobody
  /\ UNCHANGED <<call_vars, push_stats, published, cpc, slots>>

Drop(p) ==
  /\ ProducerGoes(p, "check", "idle")
  /\ Full
  /\ ~may_wait[p]
  /\ total_dropped' = total_dropped + 1
  /\ producer_mutex' = Nobody
  /\ UNCHANGED <<call_vars, total_pushed, published, cpc, slots>>

\* The ring is full and push() sleeps without the mutex.
BackOff(p) ==
  /\ ProducerGoes(p, "check", "retry")
  /\ Full
  /\ may_wait[p]
  /\ producer_mutex' = Nobody
  /\ UNCHANGED <<call_vars, push_stats, published, cpc, slots>>

Retry(p) ==
  /\ ProducerGoes(p, "retry", "check")
  /\ CanLock(producer_mutex)
  /\ producer_mutex' = p
  /\ UNCHANGED <<call_vars, push_stats, published, cpc, slots>>

\* The clock passes push()'s deadline.
PushDeadline(p) ==
  /\ ppc[p] \in {"check", "retry"}
  /\ may_wait[p]
  /\ may_wait' = [may_wait EXCEPT ![p] = FALSE]
  /\ UNCHANGED <<made, arg, push_stats, published, ppc, producer_mutex, consumer_vars, cpc,
                 consumer_mutex, slots, shutdown_vars>>

FillSlot(p) ==
  /\ ProducerGoes(p, "fill", "flag")
  /\ span' = [span EXCEPT ![write_pos] = arg[p]]
  /\ UNCHANGED <<call_vars, push_stats, published, producer_mutex, cpc, has_data>>

SetHasDataForgotten(p) ==
  /\ ProducerGoes(p, "flag", "publish")
  /\ UNCHANGED <<call_vars, push_stats, published, producer_mutex, cpc, slots>>

SetHasData(p) ==
  /\ ProducerGoes(p, "flag", "publish")
  /\ has_data' = [has_data EXCEPT ![write_pos] = TRUE]
  /\ UNCHANGED <<call_vars, push_stats, published, producer_mutex, cpc, span>>

Publish(p) ==
  /\ ProducerGoes(p, "publish", "count")
  /\ write_pos' = NextSlot(write_pos)
  /\ accepted' = Append(accepted, arg[p])
  /\ UNCHANGED <<call_vars, push_stats, producer_mutex, cpc, slots>>

CountPushedForgotten(p) ==
  /\ ProducerGoes(p, "count", "notify")
  /\ UNCHANGED <<call_vars, push_stats, published, producer_mutex, cpc, slots>>

CountPushed(p) ==
  /\ ProducerGoes(p, "count", "notify")
  /\ total_pushed' = total_pushed + 1
  /\ UNCHANGED <<call_vars, total_dropped, published, producer_mutex, cpc, slots>>

Sleeping == {c \in Consumers : cpc[c] = "sleep"}

\* notify_one() without consumer_mutex_: a consumer that is about to sleep misses it.
NotifyOne(p) ==
  /\ ProducerGoes(p, "notify", "idle")
  /\ IF Sleeping = {}
       THEN UNCHANGED cpc
       ELSE \E c \in Sleeping : cpc' = [cpc EXCEPT ![c] = "awake"]
  /\ producer_mutex' = Nobody
  /\ UNCHANGED <<call_vars, push_stats, published, slots>>

(***************************************************************************)
(* Consumers: drain() and drain_all().                                     *)
(***************************************************************************)
\* c goes on to its next step; nothing a producer or shutdown() owns changes.
ConsumerGoes(c, from, to) ==
  /\ cpc[c] = from
  /\ cpc' = [cpc EXCEPT ![c] = to]
  /\ UNCHANGED <<producer_vars, shutdown_vars>>

\* Lock consumer_mutex_; drain() waits before its loop, drain_all() does not.
DrainBegin(c, first, max) ==
  /\ ConsumerGoes(c, "idle", first)
  /\ CanLock(consumer_mutex)
  /\ consumer_mutex' = c
  /\ limit' = [limit EXCEPT ![c] = max]
  /\ UNCHANGED <<read_pos, lag, total_drained, drained, taken, slots>>

DrainCall(c) == \E max \in MaxCounts : DrainBegin(c, "wait", max)
DrainAllCall(c) == DrainBegin(c, "loop", NoLimit)

\* One evaluation of wait_for's predicate.
TestPredicate(c) ==
  /\ ConsumerGoes(c, "wait", IF read_pos # write_pos \/ shutdown THEN "loop" ELSE "doze")
  /\ UNCHANGED <<consumer_vars, consumer_mutex, slots>>

FallAsleep(c) ==
  /\ ConsumerGoes(c, "doze", "sleep")
  /\ consumer_mutex' = Nobody
  /\ UNCHANGED <<consumer_vars, slots>>

\* A condition variable may wake its waiter for no reason.
SpuriousWake(c) ==
  /\ ConsumerGoes(c, "sleep", "awake")
  /\ UNCHANGED <<consumer_vars, consumer_mutex, slots>>

WaitTimeout(c) ==
  /\ ConsumerGoes(c, "sleep", "expired")
  /\ UNCHANGED <<consumer_vars, consumer_mutex, slots>>

\* Woken, it tests the predicate again; timed out, it goes on whatever the predicate says.
Relock(c) ==
  /\ \/ ConsumerGoes(c, "awake", "wait")
     \/ ConsumerGoes(c, "expired", "loop")
  /\ CanLock(consumer_mutex)
  /\ consumer_mutex' = c
  /\ UNCHANGED <<consumer_vars, slots>>

MoreThanOneToTake(c) ==
  /\ limit[c] = NoLimit \/ drained[c] < limit[c]
  /\ Distance(read_pos, write_pos) > 1

MoreToTake(c) ==
  /\ limit[c] = NoLimit \/ drained[c] < limit[c]
  /\ read_pos # write_pos

LoopTest(c) ==
  /\ ConsumerGoes(c, "loop", IF MoreToTake(c) THEN "spin" ELSE "finish")
  /\ UNCHANGED <<consumer_vars, consumer_mutex, slots>>

\* while (!slot.has_data) yield();
AwaitHasData(c) ==
  /\ ConsumerGoes(c, "spin", "move")
  /\ has_data[read_pos]
  /\ UNCHANGED <<consumer_vars, consumer_mutex, slots>>

MoveOut(c) ==
  /\ ConsumerGoes(c, "move", "clear")
  /\ taken' = Append(taken, span[read_pos])
  /\ span' = [span EXCEPT ![read_pos] = NoSpan]
  /\ UNCHANGED <<read_pos, lag, total_drained, limit, drained, consumer_mutex, has_data>>

ClearHasData(c) ==
  /\ ConsumerGoes(c, "clear", "advance")
  /\ has_data' = [has_data EXCEPT ![read_pos] = FALSE]
  /\ UNCHANGED <<consumer_vars, consumer_mutex, span>>

\* The plain store to read_pos_: the consumer sees it at once, the producers later.
Advance(c) ==
  /\ ConsumerGoes(c, "advance", "loop")
  /\ read_pos' = NextSlot(read_pos)
  /\ lag' = lag + 1
  /\ drained' = [drained EXCEPT ![c] = @ + 1]
  /\ UNCHANGED <<total_drained, limit, taken, consumer_mutex, slots>>

\* The oldest pending store to read_pos_ reaches the memory producers read.
ReadPosVisible ==
  /\ lag > 0
  /\ lag' = lag - 1
  /\ UNCHANGED <<producer_vars, read_pos, total_drained, limit, drained, taken, cpc, consumer_mutex,
                 slots, shutdown_vars>>

\* The store of Advance reaches memory before c has finished with the slot.
ReadPosEarly(c) ==
  /\ cpc[c] \in {"move", "clear", "advance"}
  /\ lag = 0
  /\ lag' = -1
  /\ UNCHANGED <<producer_vars, read_pos, total_drained, limit, drained, taken, cpc, consumer_mutex,
                 slots, shutdown_vars>>

\* Count, and unlock: the atomic add waits for the pending stores.
Finish(c) ==
  /\ ConsumerGoes(c, "finish", "idle")
  /\ lag = 0
  /\ total_drained' = total_drained + drained[c]
  /\ drained' = [drained EXCEPT ![c] = 0]
  /\ consumer_mutex' = Nobody
  /\ UNCHANGED <<read_pos, lag, limit, taken, slots>>

(***************************************************************************)
(* shutdown(): the store, then notify_all(), neither under a mutex.        *)
(***************************************************************************)
ShutdownStore ==
  /\ ~notifying
  /\ shutdown' = TRUE
  /\ notifying' = TRUE
  /\ UNCHANGED <<producer_vars, consumer_vars, cpc, consumer_mutex, slots>>

ShutdownNotify ==
  /\ notifying
  /\ notifying' = FALSE
  /\ cpc' = [c \in Consumers |-> IF cpc[c] = "sleep" THEN "awake" ELSE cpc[c]]
  /\ UNCHANGED <<producer_vars, consumer_vars, consumer_mutex, slots, shutdown>>

-----------------------------------------------------------------------------
\* A push that has begun, and a drain that has begun, step by step.
PushStep(p) ==
  \/ FindRoom(p) \/ Drop(p) \/ BackOff(p) \/ Retry(p)
  \/ FillSlot(p) \/ SetHasData(p) \/ Publish(p) \/ CountPushed(p) \/ NotifyOne(p)

DrainStep(c) ==
  \/ TestPredicate(c) \/ FallAsleep(c) \/ Relock(c) \/ LoopTest(c)
  \/ AwaitHasData(c) \/ MoveOut(c) \/ ClearHasData(c) \/ Advance(c) \/ Finish(c)

Next ==
  \/ \E p \in Producers, waits \in BOOLEAN : PushCall(p, waits)
  \/ \E p \in Producers : PushStep(p) \/ PushDeadline(p)
  \/ \E c \in Consumers : DrainCall(c) \/ DrainAllCall(c)
  \/ \E c \in Consumers : DrainStep(c) \/ SpuriousWake(c) \/ WaitTimeout(c) \/ ReadPosEarly(c)
  \/ ReadPosVisible
  \/ ShutdownStore \/ ShutdownNotify

Spec == Init /\ [][Next]_vars

\* A thread that can run runs, deadlines pass, stores become visible, and a consumer is
\* an exporter that drains again and again.
FairSpec ==
  /\ Spec
  /\ \A p \in Producers : WF_vars(PushStep(p)) /\ WF_vars(PushDeadline(p))
  /\ \A c \in Consumers : WF_vars(DrainStep(c)) /\ SF_vars(WaitTimeout(c)) /\ WF_vars(DrainCall(c))
  /\ WF_vars(ReadPosVisible) /\ WF_vars(ShutdownNotify)

-----------------------------------------------------------------------------
(***************************************************************************)
(* Properties.                                                             *)
(***************************************************************************)
ProducerSteps == {"idle", "check", "retry", "fill", "flag", "publish", "count", "notify"}
ConsumerSteps == {"idle", "wait", "doze", "sleep", "awake", "expired", "loop", "spin", "move",
                  "clear", "advance", "finish"}

\* Every variable has its type: positions stay inside the ring, spans are push calls.
TypeOK ==
  /\ write_pos \in Slots /\ read_pos \in Slots /\ lag \in Int
  /\ has_data \in [Slots -> BOOLEAN] /\ span \in [Slots -> Nat]
  /\ producer_mutex \in Producers \cup {Nobody}
  /\ consumer_mutex \in Consumers \cup {Nobody}
  /\ total_pushed \in Nat /\ total_dropped \in Nat /\ total_drained \in Nat
  /\ shutdown \in BOOLEAN /\ notifying \in BOOLEAN
  /\ made \in Nat
  /\ ppc \in [Producers -> ProducerSteps]
  /\ arg \in [Producers -> Nat]
  /\ may_wait \in [Producers -> BOOLEAN]
  /\ cpc \in [Consumers -> ConsumerSteps]
  /\ limit \in [Consumers -> Nat \cup {NoLimit}]
  /\ drained \in [Consumers -> Nat]
  /\ accepted \in Seq(Nat) /\ taken \in Seq(Nat)

\* The Span object of a slot is never written by a producer while a consumer moves it out,
\* although no lock covers both and the producer's view of read_pos_ is stale or early: the
\* slot that stays free absorbs the difference.
SlotExclusive ==
  \A p \in Producers, c \in Consumers :
    ppc[p] \in {"fill", "flag"} /\ cpc[c] \in {"move", "clear"} => write_pos # read_pos

\* Spans leave in the order they were published and none is lost, repeated or read after
\* its slot was overwritten or moved from.
Fifo ==
  /\ Len(taken) <= Len(accepted)
  /\ \A k \in 1 .. Len(taken) : taken[k] = accepted[k]

\* The consumer's wait for has_data (span_buffer.cpp:101-105) never waits: the release store
\* to write_pos_ already follows the one to has_data.
NeverSpins ==
  \A c \in Consumers : cpc[c] = "spin" => has_data[read_pos]

\* Every push call is still running, or its span was published once, or it was counted as
\* dropped: no span vanishes uncounted.
Unfinished == {p \in Producers : ppc[p] \in {"check", "retry", "fill", "flag", "publish"}}
EveryPushAccountedFor == made = Len(accepted) + total_dropped + Cardinality(Unfinished)

\* A slot is given back when producers see read_pos_ pass it, even if its span is still there.
InHand == IF \E c \in Consumers : cpc[c] \in {"clear", "advance"} THEN 1 ELSE 0
Released == Len(taken) - InHand - lag

\* The ring buffer is a bounded queue: it refuses a span only when Capacity - 1 others are
\* in it, and hands the oldest over first.
Queue == INSTANCE SpanQueue WITH
  Bound <- Capacity - 1,
  Span <- 1 .. MaxSpans,
  queue <- SubSeq(accepted, Released + 1, Len(accepted)),
  delivered <- SubSeq(Append(taken, span[read_pos]), 1, Released),
  refused <- total_dropped

ImplementsQueue == Queue!Spec

\* A published span is taken in the end, even when the notify_one() it came with found no
\* sleeper because the consumer was between its test and its sleep.
EverySpanIsTaken == \A k \in 1 .. MaxSpans : Len(accepted) >= k ~> Len(taken) >= k

\* No drain() or drain_all() waits for ever on an empty ring, a lock or a slot.
DrainReturns == \A c \in Consumers : cpc[c] # "idle" ~> cpc[c] = "idle"

\* No push keeps its PHP thread for ever, however full the ring is.
PushReturns == \A p \in Producers : ppc[p] # "idle" ~> ppc[p] = "idle"

=============================================================================
