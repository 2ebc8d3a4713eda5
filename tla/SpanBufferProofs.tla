-------------------------- MODULE SpanBufferProofs --------------------------
(***************************************************************************)
(* Proofs about SpanBuffer, for every capacity, every set of threads and   *)
(* every number of pushes.  The inductive invariant IInv says which slots  *)
(* hold which spans; the safety properties follow from it, and so does     *)
(* what SpanStatus says of those who read the counters.                    *)
(***************************************************************************)
EXTENDS SpanStatus, FiniteSetTheorems, TLAPS

ProducerHolds == {"check", "fill", "flag", "publish", "count", "notify"}
ConsumerHolds == {"wait", "doze", "loop", "spin", "move", "clear", "advance", "finish"}
Writing == {"fill", "flag", "publish"}
AtSlot == {"spin", "move", "clear", "advance"}

\* Who is where: at most one thread of each side is between lock and unlock.
MutexInv ==
  /\ \A p \in Producers : ppc[p] \in ProducerHolds <=> producer_mutex = p
  /\ \A c \in Consumers : cpc[c] \in ConsumerHolds <=> consumer_mutex = c

\* Slots in use from read_pos on, the one whose span is in the consumer's hand included.
Stored == Len(accepted) - Len(taken) + InHand

\* The j-th slot from read_pos on.
Slot(j) == IF read_pos + j < Capacity THEN read_pos + j ELSE read_pos + j - Capacity

\* How far the two positions are apart, as the producers see it and as it is.
RingInv ==
  /\ lag >= -1
  /\ lag = -1 => \E c \in Consumers : cpc[c] \in {"move", "clear", "advance"}
  /\ Stored >= 0
  /\ lag + Stored <= Capacity - 1
  /\ write_pos = Slot(Stored)
  /\ \A c \in Consumers : cpc[c] \in AtSlot => Stored >= 1
  /\ \A p \in Producers : ppc[p] \in Writing => lag + Stored <= Capacity - 2

\* The slots in use hold the published spans in order, except the one moved from.
SpansInOrder ==
  \A j \in 0 .. Stored - 1 :
    j >= InHand => span[Slot(j)] = accepted[Len(taken) - InHand + j + 1]

\* They are flagged, except the one the consumer has cleared.
FlagsSet ==
  \A j \in 0 .. Stored - 1 :
    (j > 0 \/ \A c \in Consumers : cpc[c] # "advance") => has_data[Slot(j)]

\* The next slot holds what the producer under the mutex has written so far.
NextFilled ==
  \A p \in Producers :
    /\ ppc[p] \in {"flag", "publish"} => span[write_pos] = arg[p]
    /\ ppc[p] = "publish" => has_data[write_pos]

SlotInv == SpansInOrder /\ FlagsSet /\ NextFilled

\* The counters against the histories.
CountInv ==
  /\ total_pushed + (IF \E p \in Producers : ppc[p] = "count" THEN 1 ELSE 0) = Len(accepted)
  /\ consumer_mutex = Nobody => total_drained = Len(taken)
  /\ \A c \in Consumers : consumer_mutex = c => total_drained + drained[c] + InHand = Len(taken)
  /\ \A c \in Consumers : consumer_mutex # c \/ cpc[c] \in {"wait", "doze"} => drained[c] = 0

IInv == TypeOK /\ MutexInv /\ RingInv /\ SlotInv /\ CountInv /\ Fifo

-----------------------------------------------------------------------------
(***************************************************************************)
(* Arithmetic of positions.                                                *)
(***************************************************************************)
\* A position inside the ring is its own remainder.
LEMMA ModSmall == ASSUME NEW n \in Nat \ {0}, NEW x \in 0 .. n - 1 PROVE x % n = x
  OBVIOUS

\* One lap ahead, the remainder is one ring less.
LEMMA ModOnce == ASSUME NEW n \in Nat \ {0}, NEW x \in n .. 2 * n - 1 PROVE x % n = x - n
  OBVIOUS

\* Two laps ahead, it is two rings less.
LEMMA ModTwice == ASSUME NEW n \in Nat \ {0}, NEW x \in 2 * n .. 3 * n - 1
                  PROVE  x % n = x - 2 * n
  OBVIOUS

\* NextSlot steps to the neighbour and wraps at the end of the ring.
LEMMA NextSlotWraps ==
  ASSUME NEW i \in Slots
  PROVE  /\ NextSlot(i) = IF i + 1 = Capacity THEN 0 ELSE i + 1
         /\ NextSlot(i) \in Slots
<1> USE CapacityAssumption DEF NextSlot, Slots
<1>1. CASE i + 1 = Capacity
  <2>1. (i + 1) % Capacity = 0
    BY <1>1, ModOnce
  <2> QED
    BY <1>1, <2>1
<1>2. CASE i + 1 # Capacity
  <2>1. (i + 1) % Capacity = i + 1
    BY <1>2, ModSmall
  <2> QED
    BY <1>2, <2>1
<1> QED
  BY <1>1, <1>2

-----------------------------------------------------------------------------
(***************************************************************************)
(* Type correctness.                                                       *)
(***************************************************************************)
\* The buffer is constructed well typed.
LEMMA TypeInit == Init => TypeOK
<1> SUFFICES ASSUME Init PROVE TypeOK
  OBVIOUS
<1>1. /\ write_pos \in Slots /\ read_pos \in Slots /\ lag \in Int
      /\ has_data \in [Slots -> BOOLEAN] /\ span \in [Slots -> Nat]
  BY CapacityAssumption DEF Init, Slots, NoSpan
<1>2. /\ ppc \in [Producers -> ProducerSteps] /\ arg \in [Producers -> Nat]
      /\ may_wait \in [Producers -> BOOLEAN] /\ made \in Nat
  BY DEF Init, ProducerSteps, NoSpan
<1>3. /\ cpc \in [Consumers -> ConsumerSteps] /\ limit \in [Consumers -> Nat \cup {NoLimit}]
      /\ drained \in [Consumers -> Nat]
  BY DEF Init, ConsumerSteps
<1> QED
  BY <1>1, <1>2, <1>3 DEF Init, TypeOK

\* Every step of a producer, a consumer or shutdown() keeps the types.
LEMMA TypeStep == TypeOK /\ [Next]_vars => TypeOK'
<1> SUFFICES ASSUME TypeOK, [Next]_vars PROVE TypeOK'
  OBVIOUS
<1> USE CapacityAssumption, BoundsAssumption
    DEF TypeOK, producer_vars, consumer_vars, shutdown_vars,
        call_vars, push_stats, published, slots
<1>1. ASSUME NEW p \in Producers, NEW waits \in BOOLEAN, PushCall(p, waits) PROVE TypeOK'
  BY <1>1 DEF PushCall, ProducerGoes, ProducerSteps
<1>2. ASSUME NEW p \in Producers, PushStep(p) PROVE TypeOK'
  <2> USE DEF ProducerGoes, ProducerSteps
  <2>1. CASE FindRoom(p)
    BY <2>1 DEF FindRoom
  <2>2. CASE Drop(p)
    BY <2>2 DEF Drop
  <2>3. CASE BackOff(p)
    BY <2>3 DEF BackOff
  <2>4. CASE Retry(p)
    BY <2>4 DEF Retry
  <2>5. CASE FillSlot(p)
    BY <2>5 DEF FillSlot
  <2>6. CASE SetHasData(p)
    BY <2>6 DEF SetHasData
  <2>7. CASE Publish(p)
    BY <2>7, NextSlotWraps DEF Publish
  <2>8. CASE CountPushed(p)
    BY <2>8 DEF CountPushed
  <2>9. CASE NotifyOne(p)
    BY <2>9 DEF NotifyOne, Sleeping, ConsumerSteps
  <2> QED
    BY <1>2, <2>1, <2>2, <2>3, <2>4, <2>5, <2>6, <2>7, <2>8, <2>9 DEF PushStep
<1>3. ASSUME NEW p \in Producers, PushDeadline(p) PROVE TypeOK'
  BY <1>3 DEF PushDeadline
<1>4. ASSUME NEW c \in Consumers, DrainCall(c) \/ DrainAllCall(c) PROVE TypeOK'
  BY <1>4 DEF DrainCall, DrainAllCall, DrainBegin, ConsumerGoes, ConsumerSteps, NoLimit
<1>5. ASSUME NEW c \in Consumers, DrainStep(c) PROVE TypeOK'
  <2> USE DEF ConsumerGoes, ConsumerSteps
  <2>1. CASE TestPredicate(c)
    BY <2>1 DEF TestPredicate
  <2>2. CASE FallAsleep(c)
    BY <2>2 DEF FallAsleep
  <2>3. CASE Relock(c)
    BY <2>3 DEF Relock
  <2>4. CASE LoopTest(c)
    BY <2>4 DEF LoopTest
  <2>5. CASE AwaitHasData(c)
    BY <2>5 DEF AwaitHasData
  <2>6. CASE MoveOut(c)
    BY <2>6 DEF MoveOut, NoSpan
  <2>7. CASE ClearHasData(c)
    BY <2>7 DEF ClearHasData
  <2>8. CASE Advance(c)
    BY <2>8, NextSlotWraps DEF Advance
  <2>9. CASE Finish(c)
    BY <2>9 DEF Finish
  <2> QED
    BY <1>5, <2>1, <2>2, <2>3, <2>4, <2>5, <2>6, <2>7, <2>8, <2>9 DEF DrainStep
<1>6. ASSUME NEW c \in Consumers, SpuriousWake(c) \/ WaitTimeout(c) PROVE TypeOK'
  BY <1>6 DEF SpuriousWake, WaitTimeout, ConsumerGoes, ConsumerSteps
<1>7. ASSUME NEW c \in Consumers, ReadPosEarly(c) PROVE TypeOK'
  BY <1>7 DEF ReadPosEarly
<1>8. CASE ReadPosVisible
  BY <1>8 DEF ReadPosVisible
<1>9. CASE ShutdownStore
  BY <1>9 DEF ShutdownStore
<1>10. CASE ShutdownNotify
  BY <1>10 DEF ShutdownNotify, ConsumerSteps
<1>11. CASE UNCHANGED vars
  BY <1>11 DEF vars
<1> QED
  BY <1>1, <1>2, <1>3, <1>4, <1>5, <1>6, <1>7, <1>8, <1>9, <1>10, <1>11 DEF Next

-----------------------------------------------------------------------------
(***************************************************************************)
(* Mutual exclusion on each side.                                          *)
(***************************************************************************)
\* Locks are taken and given back by the thread that passes the guarded steps.
LEMMA MutexStep == TypeOK /\ MutexInv /\ [Next]_vars => MutexInv'
<1> SUFFICES ASSUME TypeOK, MutexInv, [Next]_vars PROVE MutexInv'
  OBVIOUS
<1> USE NobodyAssumption
    DEF TypeOK, MutexInv, ProducerHolds, ConsumerHolds, CanLock, producer_vars, consumer_vars
<1>1. ASSUME NEW p \in Producers, NEW waits \in BOOLEAN, PushCall(p, waits) PROVE MutexInv'
  BY <1>1 DEF PushCall, ProducerGoes
<1>2. ASSUME NEW p \in Producers, PushStep(p) PROVE MutexInv'
  <2> USE DEF ProducerGoes
  <2>1. CASE FindRoom(p) \/ FillSlot(p) \/ SetHasData(p)
    BY <2>1 DEF FindRoom, FillSlot, SetHasData
  <2>2. CASE Publish(p) \/ CountPushed(p)
    BY <2>2 DEF Publish, CountPushed
  <2>3. CASE Drop(p) \/ BackOff(p)
    BY <2>3 DEF Drop, BackOff
  <2>4. CASE Retry(p)
    BY <2>4 DEF Retry
  <2>5. CASE NotifyOne(p)
    BY <2>5 DEF NotifyOne, Sleeping
  <2> QED
    BY <1>2, <2>1, <2>2, <2>3, <2>4, <2>5 DEF PushStep
<1>3. ASSUME NEW p \in Producers, PushDeadline(p) PROVE MutexInv'
  BY <1>3 DEF PushDeadline
<1>4. ASSUME NEW c \in Consumers, DrainCall(c) \/ DrainAllCall(c) PROVE MutexInv'
  BY <1>4 DEF DrainCall, DrainAllCall, DrainBegin, ConsumerGoes
<1>5. ASSUME NEW c \in Consumers, DrainStep(c) PROVE MutexInv'
  <2> USE DEF ConsumerGoes
  <2>1. CASE TestPredicate(c) \/ LoopTest(c)
    BY <2>1 DEF TestPredicate, LoopTest
  <2>2. CASE AwaitHasData(c) \/ MoveOut(c) \/ ClearHasData(c) \/ Advance(c)
    BY <2>2 DEF AwaitHasData, MoveOut, ClearHasData, Advance
  <2>3. CASE FallAsleep(c)
    BY <2>3 DEF FallAsleep
  <2>4. CASE Finish(c)
    BY <2>4 DEF Finish
  <2>5. CASE Relock(c)
    BY <2>5 DEF Relock
  <2> QED
    BY <1>5, <2>1, <2>2, <2>3, <2>4, <2>5 DEF DrainStep
<1>6. ASSUME NEW c \in Consumers, SpuriousWake(c) \/ WaitTimeout(c) PROVE MutexInv'
  BY <1>6 DEF SpuriousWake, WaitTimeout, ConsumerGoes
<1>7. ASSUME NEW c \in Consumers, ReadPosEarly(c) PROVE MutexInv'
  BY <1>7 DEF ReadPosEarly
<1>8. CASE ReadPosVisible \/ ShutdownStore
  BY <1>8 DEF ReadPosVisible, ShutdownStore
<1>9. CASE ShutdownNotify
  BY <1>9 DEF ShutdownNotify
<1>10. CASE UNCHANGED vars
  BY <1>10 DEF vars
<1> QED
  BY <1>1, <1>2, <1>3, <1>4, <1>5, <1>6, <1>7, <1>8, <1>9, <1>10 DEF Next

-----------------------------------------------------------------------------
(***************************************************************************)
(* Positions and contents of the ring.                                     *)
(***************************************************************************)
\* A consumer at a slot holds consumer_mutex_, so there is one at most.
LEMMA InHandHeld ==
  ASSUME MutexInv, NEW c \in Consumers, consumer_mutex = c
  PROVE  InHand = IF cpc[c] \in {"clear", "advance"} THEN 1 ELSE 0
  BY DEF MutexInv, InHand, ConsumerHolds

\* The quantities the invariant speaks of are integers in their ranges.
LEMMA RingBounds ==
  ASSUME TypeOK, RingInv
  PROVE  /\ Stored \in Nat /\ InHand \in {0, 1} /\ lag \in Int
         /\ 0 <= lag + Stored
         /\ Stored <= Capacity
  BY CapacityAssumption DEF TypeOK, RingInv, Stored, InHand, AtSlot

\* A producer finds the ring full exactly when every slot but one is, in its view, in use.
LEMMA FullIff ==
  ASSUME TypeOK, RingInv
  PROVE  Full <=> lag + Stored = Capacity - 1
<1> USE CapacityAssumption
<1>1. /\ Stored \in Nat /\ lag \in Int /\ lag >= -1 /\ 0 <= lag + Stored
      /\ lag + Stored <= Capacity - 1 /\ Capacity \in Nat \ {0}
      /\ read_pos \in 0 .. Capacity - 1 /\ write_pos \in 0 .. Capacity - 1
  BY RingBounds DEF RingInv, TypeOK, Slots
<1>2. NextSlot(write_pos) = IF write_pos + 1 = Capacity THEN 0 ELSE write_pos + 1
  BY <1>1, NextSlotWraps DEF Slots
<1>3. write_pos = IF read_pos + Stored < Capacity THEN read_pos + Stored
                                                  ELSE read_pos + Stored - Capacity
  BY DEF RingInv, Slot
<1>4. ReadPosSeen = IF read_pos - lag < 0 THEN read_pos - lag + Capacity
                    ELSE IF read_pos - lag < Capacity THEN read_pos - lag
                    ELSE read_pos - lag - Capacity
  <2>1. CASE read_pos - lag < 0
    <3>1. read_pos + Capacity - lag \in 0 .. Capacity - 1
      BY <1>1, <2>1
    <3> QED
      BY <3>1, <2>1, <1>1, ModSmall DEF ReadPosSeen
  <2>2. CASE read_pos - lag \in 0 .. Capacity - 1
    <3>1. read_pos + Capacity - lag \in Capacity .. 2 * Capacity - 1
      BY <1>1, <2>2
    <3> QED
      BY <3>1, <2>2, <1>1, ModOnce DEF ReadPosSeen
  <2>3. CASE read_pos - lag >= Capacity
    <3>1. read_pos + Capacity - lag \in 2 * Capacity .. 3 * Capacity - 1
      BY <1>1, <2>3
    <3> QED
      BY <3>1, <2>3, <1>1, ModTwice DEF ReadPosSeen
  <2> QED
    BY <1>1, <2>1, <2>2, <2>3
<1> QED
  BY <1>1, <1>2, <1>3, <1>4 DEF Full

\* Steps that touch neither the ring nor a thread that is at work on one of its slots.
Quiet ==
  /\ UNCHANGED <<write_pos, read_pos, lag, has_data, span, accepted, taken>>
  /\ \A c \in Consumers : cpc[c] \in AtSlot \/ cpc'[c] \in AtSlot => cpc'[c] = cpc[c]
  /\ \A p \in Producers : ppc'[p] \in Writing => ppc'[p] = ppc[p] /\ arg'[p] = arg[p]

\* A quiet step moves no position and touches no slot, and keeps the ring invariant.
LEMMA QuietStep ==
  ASSUME TypeOK, RingInv, SlotInv, Fifo, Quiet
  PROVE  RingInv' /\ SlotInv' /\ Fifo'
<1>1. InHand' = InHand /\ Stored' = Stored
  BY DEF Quiet, InHand, Stored, AtSlot
<1>2. \A j : Slot(j)' = Slot(j)
  BY DEF Quiet, Slot
<1>3. RingInv'
  BY <1>1, <1>2 DEF RingInv, Quiet, AtSlot, Slot
<1>4. SlotInv'
  BY <1>1, <1>2 DEF SlotInv, SpansInOrder, FlagsSet, NextFilled, Quiet, AtSlot, Writing
<1>5. Fifo'
  BY DEF Fifo, Quiet
<1> QED
  BY <1>3, <1>4, <1>5

\* The first Capacity slots from read_pos on are all different.
LEMMA SlotDistinct ==
  ASSUME TypeOK, NEW j \in 0 .. Capacity - 1
  PROVE  /\ Slot(j) \in Slots
         /\ \A k \in 0 .. Capacity - 1 : j # k => Slot(j) # Slot(k)
  BY CapacityAssumption DEF TypeOK, Slots, Slot

\* A slot that is being written is none of those in use.
LEMMA WriterApart ==
  ASSUME TypeOK, RingInv, NEW p \in Producers, ppc[p] \in Writing
  PROVE  /\ \A j \in 0 .. Stored - 1 : Slot(j) # write_pos
         /\ Stored >= 1 => read_pos # write_pos
<1>1. Stored \in 0 .. Capacity - 1
  BY RingBounds, CapacityAssumption DEF RingInv
<1>2. \A j \in 0 .. Stored - 1 : Slot(j) # Slot(Stored)
  BY <1>1, SlotDistinct, CapacityAssumption
<1>3. Slot(0) = read_pos
  BY CapacityAssumption DEF TypeOK, Slot, Slots
<1> QED
  BY <1>1, <1>2, <1>3 DEF RingInv

\* write_pos steps from slot to slot of the same numbering.
LEMMA NextOfSlot ==
  ASSUME TypeOK, NEW j \in 0 .. Capacity - 1
  PROVE  NextSlot(Slot(j)) = Slot(j + 1)
<1>1. Slot(j) \in Slots
  BY SlotDistinct
<1>2. NextSlot(Slot(j)) = IF Slot(j) + 1 = Capacity THEN 0 ELSE Slot(j) + 1
  BY <1>1, NextSlotWraps
<1> QED
  BY <1>2, CapacityAssumption DEF TypeOK, Slots, Slot

\* Moving a span into the free slot, and setting its flag, disturbs no span in use.
LEMMA FillStep ==
  ASSUME TypeOK, MutexInv, RingInv, SlotInv, Fifo, NEW p \in Producers,
         FindRoom(p) \/ FillSlot(p) \/ SetHasData(p)
  PROVE  RingInv' /\ SlotInv' /\ Fifo'
<1> USE DEF ProducerGoes, consumer_vars, published, call_vars, slots
<1>1. /\ UNCHANGED <<write_pos, read_pos, lag, accepted, taken, cpc, arg>>
      /\ \A q \in Producers \ {p} : ppc'[q] = ppc[q] /\ ppc[q] \notin Writing
      /\ ppc[p] \in {"check", "fill", "flag"}
      /\ ppc'[p] = IF ppc[p] = "check" THEN "fill" ELSE IF ppc[p] = "fill" THEN "flag" ELSE "publish"
  BY DEF FindRoom, FillSlot, SetHasData, TypeOK, MutexInv, ProducerHolds, Writing
<1>2. InHand' = InHand /\ Stored' = Stored /\ \A j : Slot(j)' = Slot(j)
  BY <1>1 DEF InHand, Stored, Slot
<1>3. lag + Stored <= Capacity - 2
  <2>1. CASE FindRoom(p)
    BY <2>1, FullIff, RingBounds, CapacityAssumption DEF FindRoom, RingInv
  <2>2. CASE FillSlot(p) \/ SetHasData(p)
    BY <2>2 DEF FillSlot, SetHasData, RingInv, Writing
  <2> QED
    BY <2>1, <2>2
<1>4. RingInv'
  BY <1>1, <1>2, <1>3 DEF RingInv, Slot
<1>5. SlotInv'
  <2>1. CASE FindRoom(p)
    BY <2>1, <1>1, <1>2 DEF SlotInv, SpansInOrder, FlagsSet, NextFilled, FindRoom, Writing
  <2>2. CASE FillSlot(p)
    <3>1. \A j \in 0 .. Stored - 1 : Slot(j) # write_pos
      BY <2>2, WriterApart DEF FillSlot, Writing
    <3>2. span' = [span EXCEPT ![write_pos] = arg[p]] /\ has_data' = has_data
      BY <2>2 DEF FillSlot
    <3>3. span'[write_pos] = arg[p] /\ \A j \in 0 .. Stored - 1 : span'[Slot(j)] = span[Slot(j)]
      BY <3>1, <3>2 DEF TypeOK
    <3> QED
      BY <3>2, <3>3, <1>1, <1>2, <2>2 DEF SlotInv, SpansInOrder, FlagsSet, NextFilled, Writing, FillSlot
  <2>3. CASE SetHasData(p)
    <3>1. span' = span /\ has_data' = [has_data EXCEPT ![write_pos] = TRUE]
      BY <2>3 DEF SetHasData
    <3>2. has_data'[write_pos] = TRUE /\ \A i \in Slots : has_data[i] => has_data'[i]
      BY <3>1 DEF TypeOK
    <3>3. \A j \in 0 .. Stored - 1 : Slot(j) \in Slots
      BY RingBounds, SlotDistinct, CapacityAssumption
    <3> QED
      BY <3>1, <3>2, <3>3, <1>1, <1>2, <2>3 DEF SlotInv, SpansInOrder, FlagsSet, NextFilled, Writing, SetHasData
  <2> QED
    BY <2>1, <2>2, <2>3
<1>6. Fifo'
  BY <1>1 DEF Fifo
<1> QED
  BY <1>4, <1>5, <1>6

\* The store to write_pos_ turns the filled slot into the newest one in use.
LEMMA PublishStep ==
  ASSUME TypeOK, MutexInv, RingInv, SlotInv, Fifo, NEW p \in Producers, Publish(p)
  PROVE  RingInv' /\ SlotInv' /\ Fifo'
<1> USE DEF ProducerGoes, consumer_vars, call_vars, slots, Publish
<1>1. /\ UNCHANGED <<read_pos, lag, taken, cpc, arg, span, has_data>>
      /\ \A q \in Producers : ppc'[q] \notin Writing
      /\ ppc[p] = "publish"
      /\ write_pos' = NextSlot(write_pos)
      /\ accepted' = Append(accepted, arg[p])
      /\ Len(accepted') = Len(accepted) + 1 /\ Len(accepted) \in Nat /\ Len(taken) \in Nat
      /\ accepted'[Len(accepted) + 1] = arg[p]
      /\ \A k \in 1 .. Len(accepted) : accepted'[k] = accepted[k]
  BY DEF TypeOK, MutexInv, ProducerHolds, Writing
<1>2. InHand' = InHand /\ Stored' = Stored + 1 /\ (\A j : Slot(j)' = Slot(j))
      /\ InHand \in {0, 1} /\ Stored \in Nat
  BY <1>1, RingBounds DEF InHand, Stored, Slot
<1>3. lag + Stored <= Capacity - 2 /\ Stored <= Capacity - 1
  BY <1>1, RingBounds, CapacityAssumption DEF RingInv, Writing
<1>4. write_pos' = Slot(Stored + 1)
  <2>1. write_pos = Slot(Stored) /\ Stored \in 0 .. Capacity - 1
    BY <1>2, <1>3, CapacityAssumption DEF RingInv
  <2> QED
    BY <2>1, <1>1, NextOfSlot
<1>5. RingInv'
  BY <1>1, <1>2, <1>3, <1>4, CapacityAssumption DEF RingInv, TypeOK
<1>6. SlotInv'
  <2>1. Slot(Stored) = write_pos /\ span[write_pos] = arg[p] /\ has_data[write_pos]
    BY <1>1 DEF RingInv, SlotInv, NextFilled
  <2>2. Len(taken) - InHand + Stored = Len(accepted)
    BY <1>1, <1>2 DEF Stored
  <2>3. ASSUME NEW j \in 0 .. Stored, j >= InHand
        PROVE  span[Slot(j)] = accepted'[Len(taken) - InHand + j + 1]
    <3>1. CASE j = Stored
      BY <3>1, <2>1, <2>2, <1>1
    <3>2. CASE j \in 0 .. Stored - 1
      <4>1. Len(taken) - InHand + j + 1 \in 1 .. Len(accepted)
        BY <3>2, <2>2, <2>3, <1>1, <1>2
      <4> QED
        BY <4>1, <3>2, <2>3, <1>1 DEF SlotInv, SpansInOrder, FlagsSet, NextFilled
    <3>3. j = Stored \/ j \in 0 .. Stored - 1
      BY <1>2
    <3> QED
      BY <3>1, <3>2, <3>3
  <2>4. \A j \in 0 .. Stored : (j > 0 \/ \A c \in Consumers : cpc[c] # "advance") => has_data[Slot(j)]
    BY <2>1, <1>2 DEF SlotInv, SpansInOrder, FlagsSet, NextFilled
  <2>5. SpansInOrder'
    <3>1. SUFFICES ASSUME NEW j \in 0 .. Stored' - 1, j >= InHand'
                   PROVE  span'[Slot(j)'] = accepted'[Len(taken') - InHand' + j + 1]
      BY DEF SpansInOrder
    <3>2. j \in 0 .. Stored /\ j >= InHand /\ Slot(j)' = Slot(j) /\ span' = span
          /\ Len(taken') - InHand' + j + 1 = Len(taken) - InHand + j + 1
      BY <3>1, <1>1, <1>2
    <3> QED
      BY <3>2, <2>3
  <2>6. FlagsSet'
    BY <2>4, <1>1, <1>2 DEF FlagsSet
  <2>7. NextFilled'
    BY <1>1 DEF NextFilled, Writing
  <2> QED
    BY <2>5, <2>6, <2>7 DEF SlotInv
<1>7. Fifo'
  BY <1>1 DEF Fifo
<1> QED
  BY <1>5, <1>6, <1>7

\* LoopTest and AwaitHasData bring the consumer to a slot in use; a store to read_pos_ that
\* becomes visible changes only what producers see.
LEMMA LookStep ==
  ASSUME TypeOK, MutexInv, RingInv, SlotInv, Fifo, NEW c \in Consumers,
         LoopTest(c) \/ AwaitHasData(c)
  PROVE  RingInv' /\ SlotInv' /\ Fifo'
<1> USE DEF ConsumerGoes, producer_vars, consumer_vars, published, call_vars, slots
<1>1. /\ UNCHANGED <<write_pos, read_pos, lag, accepted, taken, ppc, arg, span, has_data>>
      /\ \A d \in Consumers \ {c} : cpc'[d] = cpc[d]
      /\ cpc[c] \in {"loop", "spin"} /\ cpc'[c] \in {"spin", "finish", "move"}
      /\ cpc[c] = "loop" /\ cpc'[c] = "spin" => read_pos # write_pos
      /\ cpc'[c] = "move" => cpc[c] = "spin"
  BY DEF LoopTest, AwaitHasData, TypeOK, MoreToTake
<1>2. InHand' = InHand /\ Stored' = Stored /\ \A j : Slot(j)' = Slot(j)
  BY <1>1 DEF InHand, Stored, Slot
<1>3. read_pos # write_pos => Stored >= 1
  <2>1. Stored = 0 => Slot(Stored) = read_pos
    BY CapacityAssumption DEF Slot, TypeOK, Slots
  <2> QED
    BY <2>1, RingBounds DEF RingInv
<1>4. RingInv'
  BY <1>1, <1>2, <1>3 DEF RingInv, Slot, AtSlot
<1>5. SlotInv'
  BY <1>1, <1>2 DEF SlotInv, SpansInOrder, FlagsSet, NextFilled
<1>6. Fifo'
  BY <1>1 DEF Fifo
<1> QED
  BY <1>4, <1>5, <1>6

\* A store to read_pos_ that becomes visible, early or late, keeps the ring invariant.
LEMMA VisibleStep ==
  ASSUME TypeOK, RingInv, SlotInv, Fifo,
         ReadPosVisible \/ \E c \in Consumers : ReadPosEarly(c)
  PROVE  RingInv' /\ SlotInv' /\ Fifo'
<1> USE DEF producer_vars, published, call_vars, slots
<1>1. /\ UNCHANGED <<write_pos, read_pos, accepted, taken, ppc, arg, cpc, span, has_data>>
      /\ lag' = lag - 1 /\ lag >= 0
      /\ lag' = -1 => \E c \in Consumers : cpc[c] \in {"move", "clear", "advance"}
  BY DEF ReadPosVisible, ReadPosEarly, TypeOK
<1>2. InHand' = InHand /\ Stored' = Stored /\ \A j : Slot(j)' = Slot(j)
  BY <1>1 DEF InHand, Stored, Slot
<1>3. RingInv'
  BY <1>1, <1>2, RingBounds, CapacityAssumption DEF RingInv, Slot
<1>4. SlotInv'
  BY <1>1, <1>2 DEF SlotInv, SpansInOrder, FlagsSet, NextFilled
<1>5. Fifo'
  BY <1>1 DEF Fifo
<1> QED
  BY <1>3, <1>4, <1>5

\* The span moved out is the oldest one accepted and not taken.
LEMMA MoveOutStep ==
  ASSUME TypeOK, MutexInv, RingInv, SlotInv, Fifo, NEW c \in Consumers, MoveOut(c)
  PROVE  RingInv' /\ SlotInv' /\ Fifo'
<1> USE DEF ConsumerGoes, producer_vars, published, call_vars, MoveOut
<1>1. /\ UNCHANGED <<write_pos, read_pos, lag, accepted, ppc, arg, has_data>>
      /\ \A d \in Consumers \ {c} : cpc'[d] = cpc[d] /\ cpc[d] \notin AtSlot
      /\ cpc[c] = "move" /\ cpc'[c] = "clear" /\ consumer_mutex = c
      /\ taken' = Append(taken, span[read_pos])
      /\ span' = [span EXCEPT ![read_pos] = NoSpan]
      /\ read_pos \in Slots /\ span[read_pos] \in Nat
  BY DEF TypeOK, MutexInv, ConsumerHolds, AtSlot
<1>2. /\ Len(taken') = Len(taken) + 1 /\ Len(accepted) \in Nat /\ Len(taken) \in Nat
      /\ taken'[Len(taken) + 1] = span[read_pos]
      /\ \A k \in 1 .. Len(taken) : taken'[k] = taken[k]
  BY <1>1 DEF TypeOK
<1>3. InHand = 0 /\ InHand' = 1
  BY <1>1 DEF InHand, AtSlot
<1>4. Stored' = Stored /\ Stored \in 1 .. Capacity /\ \A j : Slot(j)' = Slot(j)
  BY <1>1, <1>2, <1>3, RingBounds, CapacityAssumption DEF Stored, Slot, RingInv, AtSlot
<1>5. \A j \in 1 .. Stored - 1 : Slot(j) # read_pos /\ Slot(j) \in Slots
  <2>1. Slot(0) = read_pos
    BY <1>1, CapacityAssumption DEF Slot, Slots
  <2> QED
    BY <2>1, <1>4, SlotDistinct, CapacityAssumption
<1>6. RingInv'
  BY <1>1, <1>4 DEF RingInv, Slot, AtSlot
<1>7. SpansInOrder'
  <2>1. SUFFICES ASSUME NEW j \in 0 .. Stored' - 1, j >= InHand'
                 PROVE  span'[Slot(j)'] = accepted'[Len(taken') - InHand' + j + 1]
    BY DEF SpansInOrder
  <2>2. j \in 1 .. Stored - 1 /\ Slot(j)' = Slot(j) /\ j >= InHand
        /\ Len(taken') - InHand' + j + 1 = Len(taken) - InHand + j + 1
    BY <2>1, <1>2, <1>3, <1>4
  <2>3. span'[Slot(j)] = span[Slot(j)]
    BY <2>2, <1>1, <1>5 DEF TypeOK
  <2> QED
    BY <2>2, <2>3, <1>1 DEF SlotInv, SpansInOrder
<1>8. FlagsSet'
  BY <1>1, <1>4 DEF SlotInv, FlagsSet, AtSlot
<1>9. NextFilled'
  <2>1. \A p \in Producers : ppc[p] \in Writing => read_pos # write_pos
    BY <1>4, WriterApart
  <2> QED
    BY <2>1, <1>1 DEF SlotInv, NextFilled, Writing, TypeOK
<1>10. Fifo'
  <2>1. Slot(0) = read_pos
    BY <1>1, CapacityAssumption DEF Slot, Slots
  <2>2. span[read_pos] = accepted[Len(taken) + 1]
    BY <2>1, <1>2, <1>3, <1>4 DEF SlotInv, SpansInOrder
  <2>3. Len(taken) + 1 <= Len(accepted)
    BY <1>2, <1>3, <1>4 DEF Stored
  <2> QED
    BY <2>2, <2>3, <1>1, <1>2 DEF Fifo
<1> QED
  BY <1>6, <1>7, <1>8, <1>9, <1>10 DEF SlotInv

\* Clearing has_data concerns only the slot in the hands of the consumer.
LEMMA ClearStep ==
  ASSUME TypeOK, MutexInv, RingInv, SlotInv, Fifo, NEW c \in Consumers, ClearHasData(c)
  PROVE  RingInv' /\ SlotInv' /\ Fifo'
<1> USE DEF ConsumerGoes, producer_vars, consumer_vars, published, call_vars, ClearHasData
<1>1. /\ UNCHANGED <<write_pos, read_pos, lag, accepted, taken, ppc, arg, span>>
      /\ \A d \in Consumers \ {c} : cpc'[d] = cpc[d]
      /\ cpc[c] = "clear" /\ cpc'[c] = "advance"
      /\ has_data' = [has_data EXCEPT ![read_pos] = FALSE]
      /\ read_pos \in Slots
  BY DEF TypeOK
<1>2. InHand' = InHand /\ Stored' = Stored /\ \A j : Slot(j)' = Slot(j)
  BY <1>1 DEF InHand, Stored, Slot
<1>3. Stored \in 1 .. Capacity
  BY <1>1, RingBounds, CapacityAssumption DEF RingInv, AtSlot
<1>4. RingInv'
  BY <1>1, <1>2 DEF RingInv, Slot, AtSlot
<1>5. SpansInOrder'
  BY <1>1, <1>2 DEF SlotInv, SpansInOrder
<1>6. FlagsSet'
  <2>1. \A j \in 1 .. Stored - 1 : Slot(j) # read_pos /\ Slot(j) \in Slots
    <3>1. Slot(0) = read_pos
      BY <1>1, CapacityAssumption DEF Slot, Slots
    <3> QED
      BY <3>1, <1>3, SlotDistinct, CapacityAssumption
  <2>2. \A j \in 1 .. Stored - 1 : has_data'[Slot(j)]
    BY <2>1, <1>1 DEF SlotInv, FlagsSet, TypeOK
  <2> QED
    BY <2>2, <1>1, <1>2 DEF FlagsSet
<1>7. NextFilled'
  <2>1. \A p \in Producers : ppc[p] \in Writing => read_pos # write_pos
    BY <1>3, WriterApart
  <2> QED
    BY <2>1, <1>1 DEF SlotInv, NextFilled, Writing, TypeOK
<1>8. Fifo'
  BY <1>1 DEF Fifo
<1> QED
  BY <1>4, <1>5, <1>6, <1>7, <1>8 DEF SlotInv

\* The store to read_pos_ gives back the slot whose span has been moved out.
LEMMA AdvanceStep ==
  ASSUME TypeOK, MutexInv, RingInv, SlotInv, Fifo, NEW c \in Consumers, Advance(c)
  PROVE  RingInv' /\ SlotInv' /\ Fifo'
<1> USE DEF ConsumerGoes, producer_vars, published, call_vars, slots, Advance
<1>1. /\ UNCHANGED <<write_pos, accepted, taken, ppc, arg, span, has_data>>
      /\ \A d \in Consumers \ {c} : cpc'[d] = cpc[d] /\ cpc[d] \notin AtSlot
      /\ cpc[c] = "advance" /\ cpc'[c] = "loop"
      /\ read_pos' = NextSlot(read_pos) /\ lag' = lag + 1
  BY DEF TypeOK, MutexInv, ConsumerHolds, AtSlot
<1>2. InHand = 1 /\ InHand' = 0 /\ Stored' = Stored - 1 /\ Stored \in 1 .. Capacity
      /\ Len(taken) \in Nat
  <2>1. InHand = 1 /\ InHand' = 0
    BY <1>1 DEF InHand, AtSlot
  <2>2. Len(taken) \in Nat /\ Len(accepted) \in Nat
    BY DEF TypeOK
  <2>3. Stored' = Stored - 1
    BY <2>1, <2>2, <1>1 DEF Stored
  <2>4. Stored >= 1
    BY <1>1 DEF RingInv, AtSlot
  <2> QED
    BY <2>1, <2>2, <2>3, <2>4, RingBounds, CapacityAssumption
<1>3. \A j \in 0 .. Stored' : Slot(j)' = Slot(j + 1)
  <2>1. read_pos' = IF read_pos + 1 = Capacity THEN 0 ELSE read_pos + 1
    BY <1>1, NextSlotWraps DEF TypeOK
  <2> QED
    BY <2>1, <1>2, CapacityAssumption DEF Slot, TypeOK, Slots
<1>4. RingInv'
  <2>1. write_pos' = Slot(Stored)'
    <3>1. read_pos' = IF read_pos + 1 = Capacity THEN 0 ELSE read_pos + 1
      BY <1>1, NextSlotWraps DEF TypeOK
    <3>2. write_pos = IF read_pos + Stored < Capacity THEN read_pos + Stored
                                                      ELSE read_pos + Stored - Capacity
      BY DEF RingInv, Slot
    <3>3. write_pos' = IF read_pos' + Stored' < Capacity THEN read_pos' + Stored'
                                                         ELSE read_pos' + Stored' - Capacity
      BY <3>1, <3>2, <1>1, <1>2, CapacityAssumption DEF TypeOK, Slots
    <3> QED
      BY <3>3 DEF Slot
  <2>2. lag' >= -1 /\ lag' # -1 /\ Stored' >= 0 /\ lag' + Stored' = lag + Stored
    BY <1>1, <1>2 DEF RingInv, TypeOK
  <2>3. \A d \in Consumers : cpc'[d] \notin AtSlot
    BY <1>1 DEF AtSlot
  <2> QED
    BY <2>1, <2>2, <2>3, <1>1 DEF RingInv
<1>5. SpansInOrder'
  <2>1. SUFFICES ASSUME NEW j \in 0 .. Stored' - 1, j >= InHand'
                 PROVE  span'[Slot(j)'] = accepted'[Len(taken') - InHand' + j + 1]
    BY DEF SpansInOrder
  <2>2. j + 1 \in 0 .. Stored - 1 /\ j + 1 >= InHand /\ Slot(j)' = Slot(j + 1)
        /\ Len(taken') - InHand' + j + 1 = Len(taken) - InHand + (j + 1) + 1
    BY <2>1, <1>1, <1>2, <1>3
  <2> QED
    BY <2>2, <1>1 DEF SlotInv, SpansInOrder
<1>6. FlagsSet'
  <2>1. SUFFICES ASSUME NEW j \in 0 .. Stored' - 1 PROVE has_data'[Slot(j)']
    BY DEF FlagsSet
  <2>2. j + 1 \in 0 .. Stored - 1 /\ j + 1 > 0 /\ Slot(j)' = Slot(j + 1)
    BY <2>1, <1>2, <1>3
  <2> QED
    BY <2>2, <1>1 DEF SlotInv, FlagsSet
<1>7. NextFilled'
  BY <1>1 DEF SlotInv, NextFilled
<1>8. Fifo'
  BY <1>1 DEF Fifo
<1> QED
  BY <1>4, <1>5, <1>6, <1>7, <1>8 DEF SlotInv

\* Calls, returns, waits and wake-ups are quiet.
LEMMA ProducerQuiet ==
  ASSUME TypeOK, NEW p \in Producers,
         \/ \E waits \in BOOLEAN : PushCall(p, waits)
         \/ Drop(p) \/ BackOff(p) \/ Retry(p) \/ CountPushed(p) \/ NotifyOne(p)
         \/ PushDeadline(p)
  PROVE  Quiet
<1> USE DEF Quiet, TypeOK, ProducerGoes, Writing, AtSlot, call_vars, consumer_vars, published, slots
<1>1. ASSUME NEW waits \in BOOLEAN, PushCall(p, waits) PROVE Quiet
  BY <1>1 DEF PushCall
<1>2. CASE Drop(p) \/ BackOff(p)
  BY <1>2 DEF Drop, BackOff
<1>3. CASE Retry(p) \/ CountPushed(p)
  BY <1>3 DEF Retry, CountPushed
<1>4. CASE NotifyOne(p)
  BY <1>4 DEF NotifyOne, Sleeping
<1>5. CASE PushDeadline(p)
  BY <1>5 DEF PushDeadline
<1> QED
  BY <1>1, <1>2, <1>3, <1>4, <1>5

\* The same for consumers.
LEMMA ConsumerQuiet ==
  ASSUME TypeOK, NEW c \in Consumers,
         \/ DrainCall(c) \/ DrainAllCall(c) \/ TestPredicate(c) \/ FallAsleep(c) \/ Relock(c)
         \/ Finish(c) \/ SpuriousWake(c) \/ WaitTimeout(c)
  PROVE  Quiet
<1> USE DEF Quiet, TypeOK, ConsumerGoes, Writing, AtSlot, call_vars, producer_vars, consumer_vars,
            published, slots
<1>1. CASE DrainCall(c) \/ DrainAllCall(c)
  BY <1>1 DEF DrainCall, DrainAllCall, DrainBegin
<1>2. CASE TestPredicate(c) \/ FallAsleep(c)
  BY <1>2 DEF TestPredicate, FallAsleep
<1>3. CASE Relock(c)
  BY <1>3 DEF Relock
<1>4. CASE Finish(c)
  BY <1>4 DEF Finish
<1>5. CASE SpuriousWake(c) \/ WaitTimeout(c)
  BY <1>5 DEF SpuriousWake, WaitTimeout
<1> QED
  BY <1>1, <1>2, <1>3, <1>4, <1>5

\* Every step keeps the ring invariant: each is quiet or one of the lemmas above.
LEMMA RingStep ==
  TypeOK /\ MutexInv /\ RingInv /\ SlotInv /\ Fifo /\ [Next]_vars => RingInv' /\ SlotInv' /\ Fifo'
<1> SUFFICES ASSUME TypeOK, MutexInv, RingInv, SlotInv, Fifo, [Next]_vars
             PROVE  RingInv' /\ SlotInv' /\ Fifo'
  OBVIOUS
<1>1. ASSUME NEW p \in Producers, NEW waits \in BOOLEAN, PushCall(p, waits)
      PROVE  RingInv' /\ SlotInv' /\ Fifo'
  BY <1>1, ProducerQuiet, QuietStep
<1>2. ASSUME NEW p \in Producers, PushStep(p) \/ PushDeadline(p)
      PROVE  RingInv' /\ SlotInv' /\ Fifo'
  BY <1>2, ProducerQuiet, QuietStep, FillStep, PublishStep DEF PushStep
<1>3. ASSUME NEW c \in Consumers, DrainCall(c) \/ DrainAllCall(c) \/ SpuriousWake(c) \/ WaitTimeout(c)
      PROVE  RingInv' /\ SlotInv' /\ Fifo'
  BY <1>3, ConsumerQuiet, QuietStep
<1>4. ASSUME NEW c \in Consumers, DrainStep(c) PROVE RingInv' /\ SlotInv' /\ Fifo'
  BY <1>4, ConsumerQuiet, QuietStep, LookStep, MoveOutStep, ClearStep, AdvanceStep DEF DrainStep
<1>5. ASSUME ReadPosVisible \/ \E c \in Consumers : ReadPosEarly(c)
      PROVE  RingInv' /\ SlotInv' /\ Fifo'
  BY <1>5, VisibleStep
<1>6. CASE ShutdownStore \/ ShutdownNotify \/ UNCHANGED vars
  <2>1. Quiet
    BY <1>6 DEF ShutdownStore, ShutdownNotify, Quiet, vars, producer_vars, consumer_vars,
                call_vars, published, slots, AtSlot
  <2> QED
    BY <2>1, QuietStep
<1> QED
  BY <1>1, <1>2, <1>3, <1>4, <1>5, <1>6 DEF Next

-----------------------------------------------------------------------------
(***************************************************************************)
(* Counters.                                                               *)
(***************************************************************************)
\* Every step keeps the counters in step with the histories, but for the push under the mutex.
LEMMA CountStep ==
  TypeOK /\ MutexInv /\ CountInv /\ TypeOK' /\ MutexInv' /\ [Next]_vars => CountInv'
<1> SUFFICES ASSUME TypeOK, MutexInv, CountInv, TypeOK', MutexInv', [Next]_vars PROVE CountInv'
  OBVIOUS
<1> USE NobodyAssumption DEF producer_vars, consumer_vars, call_vars, push_stats, published, slots
<1>1. ASSUME NEW p \in Producers, PushStep(p) \/ PushDeadline(p) \/ \E waits \in BOOLEAN : PushCall(p, waits)
      PROVE  CountInv'
  <2>1. InHand' = InHand /\ UNCHANGED <<total_drained, drained, consumer_mutex, taken>>
        /\ \A c \in Consumers : cpc[c] \in {"wait", "doze"} <=> cpc'[c] \in {"wait", "doze"}
    <3>1. CASE NotifyOne(p)
      BY <3>1 DEF NotifyOne, ProducerGoes, Sleeping, InHand, TypeOK
    <3>2. CASE ~NotifyOne(p)
      <4>1. UNCHANGED <<cpc, total_drained, drained, consumer_mutex, taken>>
        BY <1>1, <3>2 DEF PushStep, FindRoom, Drop, BackOff, Retry, FillSlot, SetHasData, Publish,
                          CountPushed, PushDeadline, PushCall, ProducerGoes
      <4> QED
        BY <4>1 DEF InHand
    <3> QED
      BY <3>1, <3>2
  <2>2. total_pushed' + (IF \E q \in Producers : ppc'[q] = "count" THEN 1 ELSE 0) = Len(accepted')
    <3> USE DEF TypeOK, MutexInv, ProducerHolds, CountInv, ProducerGoes
    <3>1. CASE Publish(p)
      BY <3>1 DEF Publish
    <3>2. CASE CountPushed(p)
      BY <3>2 DEF CountPushed
    <3>3. CASE ~Publish(p) /\ ~CountPushed(p)
      <4>1. UNCHANGED <<total_pushed, accepted>>
        <5>1. CASE PushStep(p)
          BY <5>1, <3>3 DEF PushStep, FindRoom, Drop, BackOff, Retry, FillSlot, SetHasData, NotifyOne
        <5>2. CASE PushDeadline(p) \/ \E waits \in BOOLEAN : PushCall(p, waits)
          BY <5>2 DEF PushDeadline, PushCall
        <5> QED
          BY <1>1, <5>1, <5>2
      <4>2. \A q \in Producers : ppc'[q] = "count" <=> ppc[q] = "count"
        <5>1. CASE FindRoom(p) \/ Drop(p) \/ BackOff(p)
          BY <5>1 DEF FindRoom, Drop, BackOff
        <5>2. CASE Retry(p) \/ FillSlot(p)
          BY <5>2 DEF Retry, FillSlot
        <5>3. CASE SetHasData(p) \/ NotifyOne(p)
          BY <5>3 DEF SetHasData, NotifyOne
        <5>4. CASE PushDeadline(p) \/ \E waits \in BOOLEAN : PushCall(p, waits)
          BY <5>4 DEF PushDeadline, PushCall
        <5> QED
          BY <1>1, <3>3, <5>1, <5>2, <5>3, <5>4 DEF PushStep
      <4> QED
        BY <4>1, <4>2
    <3> QED
      BY <3>1, <3>2, <3>3
  <2> QED
    BY <2>1, <2>2 DEF CountInv
<1>2. ASSUME NEW c \in Consumers,
             \/ DrainCall(c) \/ DrainAllCall(c) \/ DrainStep(c) \/ SpuriousWake(c)
             \/ WaitTimeout(c) \/ ReadPosEarly(c)
      PROVE  CountInv'
  <2>1. UNCHANGED <<ppc, total_pushed, accepted>>
    BY <1>2 DEF DrainCall, DrainAllCall, DrainBegin, DrainStep, SpuriousWake, WaitTimeout,
                ReadPosEarly, TestPredicate, FallAsleep, Relock, LoopTest, AwaitHasData, MoveOut,
                ClearHasData, Advance, Finish, ConsumerGoes
  <2>2. InHand' = IF \E d \in Consumers : cpc'[d] \in {"clear", "advance"} THEN 1 ELSE 0
    BY DEF InHand
  <2> DEFINE Rest == /\ consumer_mutex' = Nobody => total_drained' = Len(taken')
                     /\ \A d \in Consumers :
                          /\ consumer_mutex' = d => total_drained' + drained'[d] + InHand' = Len(taken')
                          /\ consumer_mutex' # d \/ cpc'[d] \in {"wait", "doze"} => drained'[d] = 0
  <2>3. Rest
    <3> USE <2>2 DEF TypeOK, MutexInv, ConsumerHolds, CountInv, ConsumerGoes, InHand, CanLock
    <3>1. CASE DrainCall(c) \/ DrainAllCall(c)
      BY <3>1, SMTT(30) DEF DrainCall, DrainAllCall, DrainBegin
    <3>2. CASE TestPredicate(c)
      BY <3>2 DEF TestPredicate
    <3>3. CASE LoopTest(c)
      BY <3>3 DEF LoopTest
    <3>4. CASE AwaitHasData(c)
      BY <3>4 DEF AwaitHasData
    <3>5. CASE FallAsleep(c)
      BY <3>5 DEF FallAsleep
    <3>6. CASE Relock(c)
      BY <3>6 DEF Relock
    <3>7. CASE MoveOut(c)
      BY <3>7 DEF MoveOut
    <3>8. CASE ClearHasData(c)
      BY <3>8 DEF ClearHasData
    <3>9. CASE Advance(c)
      BY <3>9, SMTT(30) DEF Advance
    <3>10. CASE Finish(c)
      BY <3>10, SMTT(30) DEF Finish
    <3>11. CASE SpuriousWake(c)
      BY <3>11 DEF SpuriousWake
    <3>12. CASE WaitTimeout(c)
      BY <3>12 DEF WaitTimeout
    <3>13. CASE ReadPosEarly(c)
      BY <3>13 DEF ReadPosEarly
    <3> QED
      BY <1>2, <3>1, <3>2, <3>3, <3>4, <3>5, <3>6, <3>7, <3>8, <3>9, <3>10, <3>11, <3>12, <3>13
      DEF DrainStep
  <2> QED
    BY <2>1, <2>3 DEF CountInv
<1>3. CASE ReadPosVisible \/ ShutdownStore \/ UNCHANGED vars
  BY <1>3 DEF ReadPosVisible, ShutdownStore, vars, CountInv, InHand
<1>4. CASE ShutdownNotify
  BY <1>4 DEF ShutdownNotify, CountInv, InHand
<1> QED
  BY <1>1, <1>2, <1>3, <1>4 DEF Next

-----------------------------------------------------------------------------
(***************************************************************************)
(* The inductive invariant, and what follows from it.                      *)
(***************************************************************************)
\* The inductive invariant holds in an empty ring.
LEMMA IInvInit == Init => IInv
<1> SUFFICES ASSUME Init PROVE IInv
  OBVIOUS
<1>1. TypeOK
  BY TypeInit
<1>2. MutexInv
  BY NobodyAssumption DEF Init, MutexInv, ProducerHolds, ConsumerHolds
<1>3. InHand = 0 /\ Stored = 0 /\ Slot(0) = 0
  BY CapacityAssumption DEF Init, InHand, Stored, Slot
<1>4. RingInv
  BY <1>3, CapacityAssumption DEF Init, RingInv, AtSlot, Writing
<1>5. SlotInv
  BY <1>3 DEF Init, SlotInv, SpansInOrder, FlagsSet, NextFilled
<1>6. CountInv
  BY <1>3, NobodyAssumption DEF Init, CountInv
<1>7. Fifo
  BY DEF Init, Fifo
<1> QED
  BY <1>1, <1>2, <1>4, <1>5, <1>6, <1>7 DEF IInv

\* Every step keeps it.
LEMMA IInvStep == IInv /\ [Next]_vars => IInv'
  BY TypeStep, MutexStep, RingStep, CountStep DEF IInv

\* IInv holds in every reachable state of try_push(), push(), drain(), drain_all() and
\* shutdown(), however they interleave.
THEOREM Invariance == Spec => []IInv
  BY IInvInit, IInvStep, PTL DEF Spec

\* Every variable keeps its type, whatever the capacity, the threads and the pushes.
THEOREM TypeCorrectness == Spec => []TypeOK
  BY Invariance, PTL DEF IInv

\* No producer writes a Span that a consumer is moving out, although the producers read
\* read_pos_ without a lock (span_buffer.cpp:32, :60, :107).
THEOREM SlotsAreExclusive == Spec => []SlotExclusive
<1>1. IInv => SlotExclusive
  <2> SUFFICES ASSUME IInv, NEW p \in Producers, NEW c \in Consumers,
                      ppc[p] \in {"fill", "flag"}, cpc[c] \in {"move", "clear"}
               PROVE  write_pos # read_pos
    BY DEF SlotExclusive
  <2>1. Stored >= 1
    BY DEF IInv, RingInv, AtSlot
  <2> QED
    BY <2>1, WriterApart DEF IInv, Writing
<1> QED
  BY <1>1, Invariance, PTL

\* What consumers took is, span by span, what producers published: no loss, no duplicate,
\* no reordering (span_buffer.cpp:38-40, :107-110).
THEOREM FirstInFirstOut == Spec => []Fifo
  BY Invariance, PTL DEF IInv

\* The spin on has_data (span_buffer.cpp:103-105) never has to wait.
THEOREM NoSpinning == Spec => []NeverSpins
<1>1. IInv => NeverSpins
  <2> SUFFICES ASSUME IInv, NEW c \in Consumers, cpc[c] = "spin" PROVE has_data[read_pos]
    BY DEF NeverSpins
  <2>1. Stored \in Nat /\ Stored >= 1
    BY RingBounds DEF IInv, RingInv, AtSlot
  <2>2. \A d \in Consumers : cpc[d] # "advance"
    BY DEF IInv, MutexInv, ConsumerHolds
  <2>3. Slot(0) = read_pos
    BY CapacityAssumption DEF IInv, TypeOK, Slot, Slots
  <2> QED
    BY <2>1, <2>2, <2>3 DEF IInv, SlotInv, FlagsSet
<1> QED
  BY <1>1, Invariance, PTL

-----------------------------------------------------------------------------
(***************************************************************************)
(* Where push calls end.  Finitely many are under way at a time, although  *)
(* there may be any number of producers.                                   *)
(***************************************************************************)
AccountInv == IsFiniteSet(Unfinished) /\ EveryPushAccountedFor

\* A push call enters Unfinished when it begins and leaves it in the step that drops or
\* publishes its span.
LEMMA AccountStep == TypeOK /\ AccountInv /\ [Next]_vars => AccountInv'
<1> SUFFICES ASSUME TypeOK, AccountInv, [Next]_vars PROVE AccountInv'
  OBVIOUS
<1>0. /\ ppc \in [Producers -> ProducerSteps] /\ made \in Nat /\ total_dropped \in Nat
      /\ Len(accepted) \in Nat /\ accepted \in Seq(Nat) /\ arg \in [Producers -> Nat]
      /\ Cardinality(Unfinished) \in Nat /\ IsFiniteSet(Unfinished)
      /\ made = Len(accepted) + total_dropped + Cardinality(Unfinished)
  BY FS_CardinalityType DEF TypeOK, AccountInv, EveryPushAccountedFor
<1>1. ASSUME ppc' = ppc, UNCHANGED <<made, total_dropped, accepted>> PROVE AccountInv'
  BY <1>0, <1>1 DEF AccountInv, EveryPushAccountedFor, Unfinished
<1>2. ASSUME NEW p \in Producers, NEW waits \in BOOLEAN, PushCall(p, waits) PROVE AccountInv'
  <2>1. p \notin Unfinished /\ Unfinished' = Unfinished \cup {p}
    BY <1>0, <1>2 DEF PushCall, ProducerGoes, Unfinished
  <2>2. /\ IsFiniteSet(Unfinished \cup {p})
        /\ Cardinality(Unfinished \cup {p}) = Cardinality(Unfinished) + 1
    BY <1>0, <2>1, FS_AddElement
  <2>3. made' = made + 1 /\ UNCHANGED <<total_dropped, accepted>>
    BY <1>2 DEF PushCall, push_stats, published
  <2> QED
    BY <1>0, <2>1, <2>2, <2>3 DEF AccountInv, EveryPushAccountedFor
<1>3. ASSUME NEW p \in Producers, Drop(p) \/ Publish(p) PROVE AccountInv'
  <2>1. p \in Unfinished /\ Unfinished' = Unfinished \ {p}
    BY <1>0, <1>3 DEF Drop, Publish, ProducerGoes, Unfinished
  <2>2. /\ IsFiniteSet(Unfinished \ {p})
        /\ Cardinality(Unfinished \ {p}) = Cardinality(Unfinished) - 1
    BY <1>0, <2>1, FS_RemoveElement
  <2>3. made' = made /\ Len(accepted') + total_dropped' = Len(accepted) + total_dropped + 1
        /\ total_dropped' \in Nat /\ Len(accepted') \in Nat
    <3>1. CASE Drop(p)
      BY <1>0, <3>1 DEF Drop, published, call_vars
    <3>2. CASE Publish(p)
      <4>1. accepted' = Append(accepted, arg[p]) /\ arg[p] \in Nat
        BY <1>0, <3>2 DEF Publish
      <4>2. Len(accepted') = Len(accepted) + 1
        BY <1>0, <4>1
      <4> QED
        BY <1>0, <3>2, <4>2 DEF Publish, push_stats, call_vars
    <3> QED
      BY <1>3, <3>1, <3>2
  <2> QED
    BY <1>0, <2>1, <2>2, <2>3 DEF AccountInv, EveryPushAccountedFor
<1>4. ASSUME NEW p \in Producers,
             \/ FindRoom(p) \/ BackOff(p) \/ Retry(p) \/ FillSlot(p) \/ SetHasData(p)
             \/ CountPushed(p) \/ NotifyOne(p)
      PROVE  AccountInv'
  <2>1. Unfinished' = Unfinished
    BY <1>0, <1>4 DEF FindRoom, BackOff, Retry, FillSlot, SetHasData, CountPushed, NotifyOne,
                      ProducerGoes, Unfinished
  <2>2. UNCHANGED <<made, total_dropped, accepted>>
    BY <1>4 DEF FindRoom, BackOff, Retry, FillSlot, SetHasData, CountPushed, NotifyOne,
                push_stats, published, call_vars
  <2> QED
    BY <1>0, <2>1, <2>2 DEF AccountInv, EveryPushAccountedFor
<1>5. ASSUME NEW p \in Producers, PushDeadline(p) PROVE AccountInv'
  BY <1>1, <1>5 DEF PushDeadline, push_stats, published
<1>6. ASSUME NEW c \in Consumers,
             DrainCall(c) \/ DrainAllCall(c) \/ SpuriousWake(c) \/ WaitTimeout(c) \/ ReadPosEarly(c)
      PROVE  AccountInv'
  BY <1>1, <1>6 DEF DrainCall, DrainAllCall, DrainBegin, SpuriousWake, WaitTimeout, ReadPosEarly,
                    ConsumerGoes, producer_vars, push_stats, published, call_vars
<1>7. ASSUME NEW c \in Consumers, DrainStep(c) PROVE AccountInv'
  <2>1. UNCHANGED producer_vars
    BY <1>7 DEF DrainStep, TestPredicate, FallAsleep, Relock, LoopTest, AwaitHasData, MoveOut,
                ClearHasData, Advance, Finish, ConsumerGoes
  <2> QED
    BY <1>1, <2>1 DEF producer_vars, push_stats, published, call_vars
<1>8. CASE ReadPosVisible \/ ShutdownStore \/ ShutdownNotify \/ UNCHANGED vars
  BY <1>1, <1>8 DEF ReadPosVisible, ShutdownStore, ShutdownNotify, vars, producer_vars,
                    push_stats, published, call_vars
<1> QED
  BY <1>2, <1>3, <1>4, <1>5, <1>6, <1>7, <1>8 DEF Next, PushStep

LEMMA AccountInvariance == Spec => []AccountInv
<1>1. Init => AccountInv
  <2> SUFFICES ASSUME Init PROVE AccountInv
    OBVIOUS
  <2>1. Unfinished = {}
    BY DEF Init, Unfinished
  <2> QED
    BY <2>1, FS_EmptySet DEF Init, AccountInv, EveryPushAccountedFor
<1> QED
  BY <1>1, AccountStep, TypeCorrectness, PTL DEF Spec

\* However many threads push, no span vanishes uncounted: each call is under way, has been
\* counted as dropped, or has published its span (span_buffer.cpp:24-80).
THEOREM PushesAreAccountedFor == Spec => []EveryPushAccountedFor
  BY AccountInvariance, PTL DEF AccountInv

-----------------------------------------------------------------------------
(***************************************************************************)
(* The counters as php_trace_status() reads them.                          *)
(***************************************************************************)
\* How the counters are related at any one time.
LEMMA CountersNow ==
  ASSUME IInv, AccountInv
  PROVE  /\ made - Cardinality(Running) <= total_pushed + total_dropped
         /\ made - Cardinality(Running) \in Int
         /\ total_pushed + total_dropped <= made
         /\ total_drained + total_dropped <= made
<1> DEFINE counting == {p \in Producers : ppc[p] \in {"count", "notify"}}
           one == IF \E p \in Producers : ppc[p] = "count" THEN 1 ELSE 0
<1>1. /\ total_pushed \in Nat /\ total_dropped \in Nat /\ total_drained \in Nat /\ made \in Nat
      /\ Len(accepted) \in Nat /\ Len(taken) \in Nat /\ Len(taken) <= Len(accepted)
      /\ total_pushed + one = Len(accepted) /\ total_drained <= Len(taken)
  BY DEF IInv, TypeOK, CountInv, InHand, Fifo
<1>2. /\ IsFiniteSet(Unfinished) /\ Cardinality(Unfinished) \in Nat
      /\ made = Len(accepted) + total_dropped + Cardinality(Unfinished)
  BY FS_CardinalityType DEF AccountInv, EveryPushAccountedFor
<1>3. Running = Unfinished \cup counting
  <2>1. \A p \in Producers : ppc[p] \in ProducerSteps
    BY DEF IInv, TypeOK
  <2> QED
    BY <2>1 DEF Running, Unfinished, ProducerSteps
<1>4. Cardinality(Running) \in Nat /\ Cardinality(Unfinished) + one <= Cardinality(Running)
  <2>1. CASE counting = {}
    <3>1. Running = Unfinished /\ one = 0
      BY <1>3, <2>1
    <3> QED
      BY <1>2, <3>1
  <2>2. ASSUME NEW p \in counting PROVE Running = Unfinished \cup {p} /\ p \notin Unfinished
    <3>1. \A q \in counting : q = p
      BY DEF IInv, MutexInv, ProducerHolds
    <3> QED
      BY <1>3, <3>1 DEF Unfinished
  <2>3. CASE counting # {}
    <3>1. PICK p \in counting : TRUE
      BY <2>3
    <3>2. Running = Unfinished \cup {p} /\ p \notin Unfinished
      BY <2>2
    <3>3. Cardinality(Running) = Cardinality(Unfinished) + 1
      BY <1>2, <3>2, FS_AddElement
    <3> QED
      BY <1>2, <3>3
  <2> QED
    BY <2>1, <2>3
<1> HIDE DEF counting, one
<1>5. one \in Nat
  BY DEF one
<1>6. ASSUME NEW a \in Nat, NEW t \in Nat, NEW u \in Nat, NEW r \in Nat, NEW o \in Nat,
             NEW pushed \in Nat, NEW dropped \in Nat, NEW out \in Nat, NEW m \in Nat,
             pushed + o = a, out <= t, t <= a, m = a + dropped + u, u + o <= r
      PROVE  /\ m - r <= pushed + dropped /\ m - r \in Int
             /\ pushed + dropped <= m /\ out + dropped <= m
  BY <1>6
<1> QED
  BY <1>1, <1>2, <1>4, <1>5, <1>6

\* The counters only grow, and a push call begins only in a thread that does nothing else.
LEMMA CountersGrow ==
  ASSUME TypeOK, [Next]_vars
  PROVE  /\ made <= made' /\ total_pushed <= total_pushed' /\ total_dropped <= total_dropped'
         /\ made' # made => \E p \in Producers : ppc[p] = "idle" /\ ppc'[p] = "check"
<1>0. /\ made \in Nat /\ total_pushed \in Nat /\ total_dropped \in Nat
      /\ ppc \in [Producers -> ProducerSteps]
  BY DEF TypeOK
<1>1. ASSUME UNCHANGED <<made, total_pushed, total_dropped>>
      PROVE  /\ made <= made' /\ total_pushed <= total_pushed' /\ total_dropped <= total_dropped'
             /\ made' = made
  BY <1>0, <1>1
<1>2. ASSUME NEW p \in Producers, NEW waits \in BOOLEAN, PushCall(p, waits)
      PROVE  /\ made' = made + 1 /\ UNCHANGED <<total_pushed, total_dropped>>
             /\ ppc[p] = "idle" /\ ppc'[p] = "check"
  BY <1>0, <1>2 DEF PushCall, ProducerGoes, push_stats
<1>3. ASSUME NEW p \in Producers, Drop(p) \/ CountPushed(p)
      PROVE  /\ made' = made
             /\ \/ total_dropped' = total_dropped + 1 /\ total_pushed' = total_pushed
                \/ total_pushed' = total_pushed + 1 /\ total_dropped' = total_dropped
  BY <1>3 DEF Drop, CountPushed, call_vars
<1>4. ASSUME NEW p \in Producers,
             \/ FindRoom(p) \/ BackOff(p) \/ Retry(p) \/ FillSlot(p) \/ SetHasData(p)
             \/ Publish(p) \/ NotifyOne(p) \/ PushDeadline(p)
      PROVE  UNCHANGED <<made, total_pushed, total_dropped>>
  BY <1>4 DEF FindRoom, BackOff, Retry, FillSlot, SetHasData, Publish, NotifyOne, PushDeadline,
              push_stats, call_vars
<1>5. ASSUME NEW c \in Consumers,
             \/ DrainCall(c) \/ DrainAllCall(c) \/ SpuriousWake(c) \/ WaitTimeout(c)
             \/ ReadPosEarly(c) \/ DrainStep(c)
      PROVE  UNCHANGED <<made, total_pushed, total_dropped>>
  BY <1>5 DEF DrainCall, DrainAllCall, DrainBegin, SpuriousWake, WaitTimeout, ReadPosEarly,
              DrainStep, TestPredicate, FallAsleep, Relock, LoopTest, AwaitHasData, MoveOut,
              ClearHasData, Advance, Finish, ConsumerGoes, producer_vars, push_stats, call_vars
<1>6. CASE ReadPosVisible \/ ShutdownStore \/ ShutdownNotify \/ UNCHANGED vars
  BY <1>1, <1>6 DEF ReadPosVisible, ShutdownStore, ShutdownNotify, vars, producer_vars,
                    push_stats, call_vars
<1>7. CASE \E p \in Producers, waits \in BOOLEAN : PushCall(p, waits)
  BY <1>0, <1>2, <1>7
<1>8. CASE \E p \in Producers : PushStep(p) \/ PushDeadline(p)
  BY <1>0, <1>1, <1>3, <1>4, <1>8 DEF PushStep
<1>9. CASE \E c \in Consumers : \/ DrainCall(c) \/ DrainAllCall(c) \/ DrainStep(c)
                              \/ SpuriousWake(c) \/ WaitTimeout(c) \/ ReadPosEarly(c)
  BY <1>1, <1>5, <1>9
<1> QED
  BY <1>6, <1>7, <1>8, <1>9 DEF Next

Status ==
  [pushed : Nat, dropped : Nat, drained : Nat, ended : Int, begun : Nat]

\* What a reader has found, against the counters as they have become.
StatusSoFar(p) ==
  LET s == status[p] IN
  /\ loads[p] = "pushed" => /\ s.pushed <= total_pushed
                            /\ s.ended <= s.pushed + total_dropped
  /\ loads[p] = "dropped" => /\ s.ended <= s.pushed + s.dropped
                             /\ s.pushed + s.dropped <= made /\ s.dropped <= total_dropped
  /\ loads[p] = "all" => /\ s.ended <= s.pushed + s.dropped /\ s.pushed + s.dropped <= s.begun
                         /\ s.drained <= s.pushed + (s.begun - s.ended)

StatusInv ==
  /\ loads \in [Producers -> {"none", "pushed", "dropped", "all"}]
  /\ status \in [Producers -> Status]
  /\ \A p \in Producers : StatusSoFar(p)

\* One load of one reader.
LEMMA LoadStep ==
  ASSUME IInv, AccountInv, StatusInv, NEW p \in Producers,
         LoadPushed(p) \/ LoadDropped(p) \/ LoadDrained(p) \/ StatusReturn(p)
  PROVE  StatusInv'
<1>1. /\ total_pushed \in Nat /\ total_dropped \in Nat /\ total_drained \in Nat /\ made \in Nat
      /\ UNCHANGED <<total_pushed, total_dropped, made>>
  BY DEF IInv, TypeOK, LoadPushed, LoadDropped, LoadDrained, StatusReturn, StatusGoes, vars,
         producer_vars, call_vars, push_stats
<1>2. status[p] \in Status /\ NothingLoaded \in Status
  BY DEF StatusInv, Status, NothingLoaded
<1>3. ASSUME NEW from, NEW to \in {"none", "pushed", "dropped", "all"}, NEW s \in Status,
             StatusGoes(p, from, to, s),
             to = "pushed" => s.pushed <= total_pushed /\ s.ended <= s.pushed + total_dropped,
             to = "dropped" => /\ s.ended <= s.pushed + s.dropped
                               /\ s.pushed + s.dropped <= made /\ s.dropped <= total_dropped,
             to = "all" => /\ s.ended <= s.pushed + s.dropped /\ s.pushed + s.dropped <= s.begun
                           /\ s.drained <= s.pushed + (s.begun - s.ended)
      PROVE  StatusInv'
  <2>1. loads' = [loads EXCEPT ![p] = to] /\ status' = [status EXCEPT ![p] = s]
    BY <1>3 DEF StatusGoes
  <2>2. ASSUME NEW q \in Producers PROVE StatusSoFar(q)'
    <3>1. CASE q = p
      <4>1. loads'[q] = to /\ status'[q] = s
        BY <2>1, <3>1 DEF StatusInv
      <4> QED
        BY <1>1, <1>3, <4>1 DEF StatusSoFar
    <3>2. CASE q # p
      <4>1. loads'[q] = loads[q] /\ status'[q] = status[q]
        BY <2>1, <3>2 DEF StatusInv
      <4> QED
        BY <1>1, <4>1 DEF StatusInv, StatusSoFar
    <3> QED
      BY <3>1, <3>2
  <2>3. /\ loads' \in [Producers -> {"none", "pushed", "dropped", "all"}]
        /\ status' \in [Producers -> Status]
    BY <1>3, <2>1 DEF StatusInv
  <2> QED
    BY <2>2, <2>3 DEF StatusInv
<1>4. CASE LoadPushed(p)
  <2> DEFINE s == [NothingLoaded EXCEPT !.pushed = total_pushed, !.ended = made - Cardinality(Running)]
  <2>1. /\ s \in Status /\ s.pushed = total_pushed /\ s.ended = made - Cardinality(Running)
    BY <1>1, CountersNow DEF NothingLoaded, Status
  <2>2. StatusGoes(p, "none", "pushed", s)
    BY <1>4 DEF LoadPushed
  <2>3. s.pushed <= total_pushed /\ s.ended <= s.pushed + total_dropped
    BY <1>1, <2>1, CountersNow
  <2> HIDE DEF s
  <2> QED
    BY <1>3, <2>1, <2>2, <2>3
<1>5. CASE LoadDropped(p)
  <2> DEFINE s == [status[p] EXCEPT !.dropped = total_dropped]
  <2>1. /\ s \in Status /\ s.dropped = total_dropped
        /\ s.pushed = status[p].pushed /\ s.ended = status[p].ended
    BY <1>1, <1>2 DEF Status
  <2>2. StatusGoes(p, "pushed", "dropped", s)
    BY <1>5 DEF LoadDropped
  <2>3. s.pushed <= total_pushed /\ s.ended <= s.pushed + total_dropped
    BY <2>1, <2>2 DEF StatusGoes, StatusInv, StatusSoFar
  <2> HIDE DEF s
  <2>4. /\ s.ended <= s.pushed + s.dropped /\ s.pushed + s.dropped <= made
        /\ s.dropped <= total_dropped
    BY <1>1, <2>1, <2>3, CountersNow DEF Status
  <2> QED
    BY <1>3, <2>1, <2>2, <2>4
<1>6. CASE LoadDrained(p)
  <2> DEFINE s == [status[p] EXCEPT !.drained = total_drained, !.begun = made]
  <2>1. /\ s \in Status /\ s.drained = total_drained /\ s.begun = made
        /\ s.pushed = status[p].pushed /\ s.ended = status[p].ended
        /\ s.dropped = status[p].dropped
    BY <1>1, <1>2 DEF Status
  <2>2. StatusGoes(p, "dropped", "all", s)
    BY <1>6 DEF LoadDrained
  <2>3. /\ s.ended <= s.pushed + s.dropped /\ s.pushed + s.dropped <= made
        /\ s.dropped <= total_dropped
    BY <2>1, <2>2 DEF StatusGoes, StatusInv, StatusSoFar
  <2> HIDE DEF s
  <2>4. s.drained <= s.pushed + (s.begun - s.ended)
    BY <1>1, <2>1, <2>3, CountersNow DEF Status
  <2> QED
    BY <1>3, <2>1, <2>2, <2>3, <2>4
<1>7. CASE StatusReturn(p)
  BY <1>2, <1>3, <1>7 DEF StatusReturn
<1> QED
  BY <1>4, <1>5, <1>6, <1>7

\* Whatever the other threads do, the invariant of the readers holds.
LEMMA StatusStep ==
  ASSUME IInv, AccountInv, StatusInv, [StatusNext]_<<vars, status_vars>>
  PROVE  StatusInv'
<1>1. CASE OthersGo \/ UNCHANGED <<vars, status_vars>>
  <2>1. [Next]_vars /\ UNCHANGED <<loads, status>>
    BY <1>1 DEF OthersGo, status_vars
  <2>2. /\ made <= made' /\ total_pushed <= total_pushed' /\ total_dropped <= total_dropped'
        /\ made \in Nat /\ total_pushed \in Nat /\ total_dropped \in Nat
        /\ made' \in Nat /\ total_pushed' \in Nat /\ total_dropped' \in Nat
    BY <2>1, CountersGrow, IInvStep DEF IInv, TypeOK
  <2>3. ASSUME NEW p \in Producers PROVE StatusSoFar(p)'
    <3>1. status[p] \in Status /\ StatusSoFar(p)
      BY DEF StatusInv
    <3> QED
      BY <2>1, <2>2, <3>1 DEF StatusSoFar, Status
  <2> QED
    BY <2>1, <2>3 DEF StatusInv
<1> QED
  BY <1>1, LoadStep DEF StatusNext

\* The buffer behaves beside its readers as it does without them.
LEMMA ReadersOnlyRead == StatusSpec => Spec
<1>1. StatusInit => Init
  BY DEF StatusInit
<1>2. [StatusNext]_<<vars, status_vars>> => [Next]_vars
  <2>1. ASSUME NEW p \in Producers,
               LoadPushed(p) \/ LoadDropped(p) \/ LoadDrained(p) \/ StatusReturn(p)
        PROVE  UNCHANGED vars
    <3>1. \A from, to, found : StatusGoes(p, from, to, found) => UNCHANGED vars
      BY DEF StatusGoes
    <3> QED
      BY <2>1, <3>1, Zenon DEF LoadPushed, LoadDropped, LoadDrained, StatusReturn
  <2> QED
    BY <2>1 DEF StatusNext, OthersGo
<1> QED
  BY <1>1, <1>2, PTL DEF StatusSpec, Spec

\* Three counters loaded one after another (php_trace.cpp:826-828) count every push that had
\* returned, and more of them are drained than pushed only by pushes that overlap the reading.
THEOREM StatusIsSensible == StatusSpec => []StatusMakesSense
<1>1. StatusInit => StatusInv
  BY DEF StatusInit, StatusInv, StatusSoFar, Status, NothingLoaded
<1>2. StatusInv => StatusMakesSense
  BY DEF StatusInv, StatusSoFar, StatusMakesSense
<1> QED
  BY <1>1, <1>2, StatusStep, ReadersOnlyRead, Invariance, AccountInvariance, PTL DEF StatusSpec

\* A process that has one PHP thread, as in an NTS build, never finds more spans drained than
\* pushed, and every push in one of pushed and dropped.
THEOREM OneThreadReads ==
  ASSUME NEW t, Producers = {t}
  PROVE  StatusSpec => [](loads[t] = "all" =>
                            /\ status[t].drained <= status[t].pushed
                            /\ status[t].pushed + status[t].dropped = status[t].ended)
<1> DEFINE Reads == /\ loads[t] # "none" => ppc[t] = "idle" /\ made = status[t].ended
                    /\ loads[t] = "all" => status[t].begun = status[t].ended
           Goal == loads[t] = "all" => /\ status[t].drained <= status[t].pushed
                                       /\ status[t].pushed + status[t].dropped = status[t].ended
<1>1. StatusInit => StatusInv /\ Reads
  BY DEF StatusInit, StatusInv, StatusSoFar, Status, NothingLoaded
<1>2. ASSUME IInv, AccountInv, StatusInv, Reads, [StatusNext]_<<vars, status_vars>>
      PROVE  Reads'
  <2>0. /\ made \in Nat /\ status \in [Producers -> Status] /\ status[t] \in Status
        /\ loads \in [Producers -> {"none", "pushed", "dropped", "all"}]
    BY <1>2 DEF IInv, TypeOK, StatusInv
  <2>1. CASE OthersGo \/ UNCHANGED <<vars, status_vars>>
    <3>1. [Next]_vars /\ UNCHANGED <<loads, status>> /\ (loads[t] # "none" => ppc'[t] = ppc[t])
      BY <2>1 DEF OthersGo, status_vars, vars, producer_vars
    <3>2. loads[t] # "none" => made' = made
      BY <1>2, <3>1, CountersGrow DEF IInv
    <3> QED
      BY <1>2, <3>1, <3>2
  <2>2. CASE LoadPushed(t)
    <3>1. Running = {} /\ Cardinality(Running) = 0
      BY <2>2, FS_EmptySet DEF LoadPushed, Running
    <3>2. /\ UNCHANGED <<made, ppc>> /\ loads'[t] = "pushed"
          /\ status'[t] = [NothingLoaded EXCEPT !.pushed = total_pushed,
                                          !.ended = made - Cardinality(Running)]
      BY <2>0, <2>2 DEF LoadPushed, StatusGoes, vars, producer_vars, call_vars
    <3> QED
      BY <2>0, <2>2, <3>1, <3>2 DEF LoadPushed, NothingLoaded
  <2>3. CASE LoadDropped(t)
    <3>1. /\ UNCHANGED <<made, ppc>> /\ loads[t] = "pushed" /\ loads'[t] = "dropped"
          /\ status'[t].ended = status[t].ended
      BY <2>0, <2>3 DEF LoadDropped, StatusGoes, vars, producer_vars, call_vars, Status
    <3> QED
      BY <1>2, <3>1
  <2>4. CASE LoadDrained(t)
    <3>1. /\ UNCHANGED <<made, ppc>> /\ loads[t] = "dropped" /\ loads'[t] = "all"
          /\ status'[t].ended = status[t].ended /\ status'[t].begun = made
      BY <2>0, <2>4 DEF LoadDrained, StatusGoes, vars, producer_vars, call_vars, Status
    <3> QED
      BY <1>2, <3>1
  <2>5. CASE StatusReturn(t)
    BY <2>0, <2>5 DEF StatusReturn, StatusGoes
  <2> QED
    BY <1>2, <2>1, <2>2, <2>3, <2>4, <2>5 DEF StatusNext
<1>3. StatusInv /\ Reads => Goal
  <2> SUFFICES ASSUME StatusInv, Reads, loads[t] = "all"
               PROVE  /\ status[t].drained <= status[t].pushed
                      /\ status[t].pushed + status[t].dropped = status[t].ended
    OBVIOUS
  <2>1. status[t] \in Status /\ StatusSoFar(t) /\ status[t].begun = status[t].ended
    BY DEF StatusInv
  <2> QED
    BY <2>1 DEF StatusSoFar, Status
<1> HIDE DEF Reads, Goal
<1>4. StatusSpec => []Goal
  BY <1>1, <1>2, <1>3, StatusStep, ReadersOnlyRead, Invariance, AccountInvariance, PTL
     DEF StatusSpec
<1> QED
  BY <1>4 DEF Goal
=============================================================================
