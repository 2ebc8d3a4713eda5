------------------------ MODULE SpanBufferRefinement ------------------------
(***************************************************************************)
(* SpanBuffer implements SpanQueue: with the ring's slots, positions and   *)
(* locks forgotten, what is left is a bounded queue.  Publishing a span    *)
(* is the queue's Accept, dropping one its Refuse, and the moment when the *)
(* producers can see read_pos pass a slot is its Take.                     *)
(***************************************************************************)
EXTENDS SpanBufferProofs, SequenceTheorems

\* The argument of a call under way is the number of a push, and no store to read_pos is
\* outstanding that did not follow the taking of a span.
RefInv ==
  /\ Released >= 0
  /\ made <= MaxSpans
  /\ \A p \in Producers : ppc[p] # "idle" => arg[p] \in 1 .. MaxSpans
  /\ accepted \in Seq(1 .. MaxSpans)

\* What SpanQueue's variables stand for.
QueueMap == SubSeq(accepted, Released + 1, Len(accepted))
DeliveredAs == SubSeq(Append(taken, span[read_pos]), 1, Released)

-----------------------------------------------------------------------------
(***************************************************************************)
(* Parts of a sequence.                                                    *)
(***************************************************************************)
\* An element appended to a sequence is appended to what follows its n-th element.
LEMMA AppendParts ==
  ASSUME NEW S, NEW s \in Seq(S), NEW e \in S, NEW n \in 0 .. Len(s)
  PROVE  /\ SubSeq(Append(s, e), n + 1, Len(s) + 1) = Append(SubSeq(s, n + 1, Len(s)), e)
         /\ SubSeq(Append(s, e), 1, n) = SubSeq(s, 1, n)
<1> DEFINE t == Append(s, e)
<1>1. /\ Len(s) \in Nat /\ t \in Seq(S) /\ Len(t) = Len(s) + 1 /\ t[Len(s) + 1] = e
      /\ \A i \in 1 .. Len(s) : t[i] = s[i]
  BY AppendProperties, LenProperties
<1>2. /\ \A i \in 1 .. Len(s) : s[i] \in S
      /\ \A i \in 1 .. Len(s) + 1 : t[i] \in S
  BY <1>1, ElementOfSeq
<1> HIDE DEF t
<1> DEFINE a == SubSeq(t, n + 1, Len(s) + 1)
           b == SubSeq(s, n + 1, Len(s))
<1>3. /\ a \in Seq(S) /\ Len(a) = Len(s) - n + 1
      /\ \A i \in 1 .. Len(s) - n + 1 : a[i] = t[n + i]
  <2>1. /\ a \in Seq(S)
        /\ Len(a) = IF n + 1 <= Len(s) + 1 THEN Len(s) + 1 - (n + 1) + 1 ELSE 0
        /\ \A i \in 1 .. Len(s) + 1 - (n + 1) + 1 : a[i] = t[n + 1 + i - 1]
    BY <1>1, <1>2, SubSeqProperties
  <2> HIDE DEF a
  <2> QED
    BY <1>1, <2>1
<1>4. /\ b \in Seq(S) /\ Len(b) = Len(s) - n
      /\ \A i \in 1 .. Len(s) - n : b[i] = s[n + i]
  <2>1. /\ b \in Seq(S)
        /\ Len(b) = IF n + 1 <= Len(s) THEN Len(s) - (n + 1) + 1 ELSE 0
        /\ \A i \in 1 .. Len(s) - (n + 1) + 1 : b[i] = s[n + 1 + i - 1]
    BY <1>1, <1>2, SubSeqProperties
  <2> HIDE DEF b
  <2> QED
    BY <1>1, <2>1
<1>5. a = Append(b, e)
  <2> HIDE DEF a, b
  <2>1. /\ Append(b, e) \in Seq(S) /\ Len(Append(b, e)) = Len(b) + 1
        /\ \A i \in 1 .. Len(b) : Append(b, e)[i] = b[i]
        /\ Append(b, e)[Len(b) + 1] = e
    BY <1>4, AppendProperties
  <2>2. ASSUME NEW i \in 1 .. Len(a) PROVE a[i] = Append(b, e)[i]
    <3>1. CASE i \in 1 .. Len(s) - n
      BY <1>1, <1>3, <1>4, <2>1, <3>1
    <3>2. CASE i = Len(s) - n + 1
      <4>1. i \in 1 .. Len(s) - n + 1 /\ n + i = Len(s) + 1 /\ i = Len(b) + 1
        BY <1>1, <1>4, <3>2
      <4>2. a[i] = t[n + i] /\ Append(b, e)[i] = e
        BY <1>3, <2>1, <4>1
      <4> QED
        BY <1>1, <4>1, <4>2
    <3>3. i \in 1 .. Len(s) - n + 1
      BY <1>3
    <3>4. i \in 1 .. Len(s) - n \/ i = Len(s) - n + 1
      BY <1>1, <3>3
    <3> QED
      BY <3>1, <3>2, <3>4
  <2> QED
    BY <1>1, <1>3, <1>4, <2>1, <2>2, SeqEqual
<1>6. SubSeq(t, 1, n) = SubSeq(s, 1, n)
  <2> DEFINE c == SubSeq(t, 1, n)
             d == SubSeq(s, 1, n)
  <2>1. /\ c \in Seq(S) /\ Len(c) = n /\ \A i \in 1 .. n : c[i] = t[i]
    <3>1. /\ c \in Seq(S) /\ Len(c) = IF 1 <= n THEN n - 1 + 1 ELSE 0
          /\ \A i \in 1 .. n - 1 + 1 : c[i] = t[1 + i - 1]
      BY <1>1, <1>2, SubSeqProperties
    <3> HIDE DEF c
    <3> QED
      BY <3>1, <1>1
  <2>2. /\ d \in Seq(S) /\ Len(d) = n /\ \A i \in 1 .. n : d[i] = s[i]
    <3>1. /\ d \in Seq(S) /\ Len(d) = IF 1 <= n THEN n - 1 + 1 ELSE 0
          /\ \A i \in 1 .. n - 1 + 1 : d[i] = s[1 + i - 1]
      BY <1>1, <1>2, SubSeqProperties
    <3> HIDE DEF d
    <3> QED
      BY <3>1, <1>1
  <2> HIDE DEF c, d
  <2>3. Len(c) = Len(d) /\ \A i \in 1 .. Len(c) : c[i] = d[i]
    BY <1>1, <2>1, <2>2
  <2>4. c = d
    BY <2>1, <2>2, <2>3, SeqEqual
  <2> QED
    BY <2>4 DEF c, d
<1> QED
  BY <1>5, <1>6 DEF t, a, b

\* The first element after n others is the head of the rest.
LEMMA TakeParts ==
  ASSUME NEW S, NEW s \in Seq(S), NEW n \in Nat, n < Len(s)
  PROVE  /\ SubSeq(s, n + 1, Len(s)) # <<>>
         /\ Head(SubSeq(s, n + 1, Len(s))) = s[n + 1]
         /\ Tail(SubSeq(s, n + 1, Len(s))) = SubSeq(s, n + 2, Len(s))
         /\ SubSeq(s, 1, n + 1) = Append(SubSeq(s, 1, n), s[n + 1])
<1>1. /\ Len(s) \in Nat /\ n + 1 \in 1 .. Len(s) /\ Len(s) \in n + 1 .. Len(s)
      /\ n \in 0 .. Len(s) /\ (n + 1) + 1 = n + 2 /\ (n + 1) - 1 = n
      /\ 1 \in 1 .. Len(s) /\ n + 1 \in 1 .. Len(s)
  BY LenProperties
<1>2. \A i \in 1 .. Len(s) : s[i] \in S
  BY ElementOfSeq
<1>3. SubSeq(s, n + 1, Len(s)) # <<>>
  <2>1. Len(SubSeq(s, n + 1, Len(s))) = Len(s) - (n + 1) + 1
    BY <1>1, <1>2, SubSeqProperties
  <2>2. Len(<<>>) = 0
    BY EmptySeq
  <2>3. Len(s) - (n + 1) + 1 # 0
    BY <1>1
  <2>4. Len(SubSeq(s, n + 1, Len(s))) # 0
    BY <2>1, <2>3, Zenon
  <2> QED
    BY <2>2, <2>4, Zenon
<1>4. /\ Head(SubSeq(s, n + 1, Len(s))) = s[n + 1]
      /\ Tail(SubSeq(s, n + 1, Len(s))) = SubSeq(s, (n + 1) + 1, Len(s))
  BY <1>1, HeadTailOfSubSeq
<1>5. SubSeq(s, 1, n + 1) = SubSeq(s, 1, (n + 1) - 1) \o <<s[n + 1]>>
  BY <1>1, SubSeqRecursiveSecond
<1>6. SubSeq(s, 1, n) \in Seq(S)
  BY <1>1, <1>2, SubSeqProperties
<1>7. Append(SubSeq(s, 1, n), s[n + 1]) = SubSeq(s, 1, n) \o <<s[n + 1]>>
  BY <1>1, <1>2, <1>6, AppendIsConcat
<1> QED
  BY <1>1, <1>3, <1>4, <1>5, <1>7

-----------------------------------------------------------------------------
(***************************************************************************)
(* The state the queue sees.                                               *)
(***************************************************************************)
\* The queue's contents are a part of `accepted', as long as the producers see of the ring.
LEMMA ReleasedBounds ==
  ASSUME IInv, RefInv
  PROVE  /\ Released \in 0 .. Len(accepted) /\ Len(accepted) \in Nat
         /\ Len(accepted) - Released = lag + Stored
         /\ Released = Len(taken) - InHand - lag
<1>1. /\ Stored \in Nat /\ InHand \in {0, 1} /\ lag \in Int /\ 0 <= lag + Stored
      /\ Len(accepted) \in Nat /\ Len(taken) \in Nat
      /\ Stored = Len(accepted) - Len(taken) + InHand
      /\ Released = Len(taken) - InHand - lag /\ Released >= 0
  BY RingBounds, LenProperties DEF IInv, RefInv, TypeOK, Released, Stored
<1> QED
  BY <1>1

\* What has been handed over is the beginning of what was published.  A slot given back
\* early still holds its span, which comes next.
LEMMA DeliveredMap ==
  IInv /\ RefInv => DeliveredAs = SubSeq(accepted, 1, Released)
<1> SUFFICES ASSUME IInv, RefInv
             PROVE  SubSeq(Append(taken, span[read_pos]), 1, Released) = SubSeq(accepted, 1, Released)
  BY DEF DeliveredAs
<1> DEFINE n == Released
           t == Append(taken, span[read_pos])
<1>0. /\ n \in 0 .. Len(accepted) /\ Len(accepted) \in Nat /\ n = Len(taken) - InHand - lag
      /\ InHand \in {0, 1} /\ lag \in Int /\ lag >= -1 /\ Stored \in Nat
  BY ReleasedBounds, RingBounds DEF IInv, RingInv
<1>1. /\ Len(taken) \in Nat /\ taken \in Seq(Nat) /\ accepted \in Seq(Nat)
      /\ span[read_pos] \in Nat
  BY LenProperties DEF IInv, TypeOK
<1>2. /\ t \in Seq(Nat) /\ Len(t) = Len(taken) + 1 /\ t[Len(taken) + 1] = span[read_pos]
      /\ \A i \in 1 .. Len(taken) : t[i] = taken[i]
  BY <1>1, AppendProperties
<1> HIDE DEF n, t
<1>3. \A i \in 1 .. Len(taken) : taken[i] = accepted[i]
  BY DEF IInv, Fifo
<1>4. n <= Len(taken) \/ (n = Len(taken) + 1 /\ lag = -1 /\ InHand = 0)
  BY <1>0, <1>1
<1>5. lag = -1 /\ InHand = 0 => span[read_pos] = accepted[Len(taken) + 1]
  <2> SUFFICES ASSUME lag = -1, InHand = 0 PROVE span[read_pos] = accepted[Len(taken) + 1]
    OBVIOUS
  <2>1. Stored >= 1
    BY <1>0 DEF IInv, RingInv, AtSlot
  <2>2. Slot(0) = read_pos
    BY CapacityAssumption DEF IInv, TypeOK, Slot, Slots
  <2>3. 0 \in 0 .. Stored - 1 /\ 0 >= InHand /\ Len(taken) - InHand + 0 + 1 = Len(taken) + 1
    BY <1>0, <1>1, <2>1
  <2> QED
    BY <2>2, <2>3 DEF IInv, SlotInv, SpansInOrder
<1>6. \A i \in 1 .. n : t[i] = accepted[i]
  <2> TAKE i \in 1 .. n
  <2>1. CASE i \in 1 .. Len(taken)
    BY <1>2, <1>3, <2>1
  <2>2. CASE i = Len(taken) + 1
    <3>1. lag = -1 /\ InHand = 0
      BY <1>0, <1>1, <1>4, <2>2
    <3> QED
      BY <1>2, <1>5, <2>2, <3>1
  <2> QED
    BY <1>0, <1>1, <1>4, <2>1, <2>2
<1>7. n <= Len(t) /\ \A i \in 1 .. n : t[i] \in Nat /\ accepted[i] \in Nat
  <2>1. \A i \in 1 .. Len(t) : t[i] \in Nat
    BY <1>2, ElementOfSeq
  <2>2. \A i \in 1 .. Len(accepted) : accepted[i] \in Nat
    BY <1>1, ElementOfSeq
  <2>3. n <= Len(t) /\ Len(t) \in Nat
    BY <1>0, <1>1, <1>2, <1>4
  <2> QED
    BY <1>0, <2>1, <2>2, <2>3
<1> DEFINE a == SubSeq(t, 1, n)
           b == SubSeq(accepted, 1, n)
<1>8. /\ a \in Seq(Nat) /\ Len(a) = (IF 1 <= n THEN n - 1 + 1 ELSE 0)
      /\ \A i \in 1 .. n - 1 + 1 : a[i] = t[1 + i - 1]
  BY <1>0, <1>7, SubSeqProperties
<1>9. /\ b \in Seq(Nat) /\ Len(b) = (IF 1 <= n THEN n - 1 + 1 ELSE 0)
      /\ \A i \in 1 .. n - 1 + 1 : b[i] = accepted[1 + i - 1]
  BY <1>0, <1>7, SubSeqProperties
<1> HIDE DEF a, b
<1>10. Len(a) = n /\ Len(b) = n /\ \A i \in 1 .. n : a[i] = t[i] /\ b[i] = accepted[i]
  <2>1. n \in Nat
    BY <1>0
  <2>2. n - 1 + 1 = n /\ \A i \in 1 .. n : 1 + i - 1 = i
    BY <2>1
  <2>3. Len(a) = n /\ Len(b) = n
    BY <1>8, <1>9, <2>1, <2>2
  <2> QED
    BY <1>8, <1>9, <2>2, <2>3
<1>11. a = b
  BY <1>6, <1>8, <1>9, <1>10, SeqEqual
<1> QED
  BY <1>11 DEF a, b, n, t

-----------------------------------------------------------------------------
(***************************************************************************)
(* What each step is to the queue.                                         *)
(***************************************************************************)
\* A consumer that holds a span holds consumer_mutex_, so that one does at most.
LEMMA OneHand ==
  ASSUME IInv, NEW c \in Consumers, cpc[c] \in AtSlot
  PROVE  /\ consumer_mutex = c
         /\ \A d \in Consumers \ {c} : cpc[d] \notin AtSlot
         /\ InHand = IF cpc[c] \in {"clear", "advance"} THEN 1 ELSE 0
<1>1. consumer_mutex = c /\ \A d \in Consumers \ {c} : cpc[d] \notin AtSlot
  BY DEF IInv, MutexInv, ConsumerHolds, AtSlot
<1> QED
  BY <1>1, InHandHeld DEF IInv

\* Moving a span out, clearing its flag and storing read_pos give no slot back yet.
LEMMA ConsumerKeeps ==
  ASSUME IInv, NEW c \in Consumers,
         \/ LoopTest(c) \/ AwaitHasData(c) \/ MoveOut(c) \/ ClearHasData(c) \/ Advance(c)
  PROVE  Released' = Released /\ UNCHANGED <<accepted, total_dropped, ppc, arg, made>>
<1> USE DEF ConsumerGoes, producer_vars, consumer_vars, call_vars, push_stats, published
<1>0. /\ Len(taken) \in Nat /\ taken \in Seq(Nat) /\ lag \in Int /\ InHand \in {0, 1}
      /\ cpc \in [Consumers -> ConsumerSteps]
  BY LenProperties DEF IInv, TypeOK, InHand
<1>1. UNCHANGED <<accepted, total_dropped, ppc, arg, made>>
  BY DEF LoopTest, AwaitHasData, MoveOut, ClearHasData, Advance
<1>2. InHand' = IF \E d \in Consumers : cpc'[d] \in {"clear", "advance"} THEN 1 ELSE 0
  BY DEF InHand
<1>3. CASE LoopTest(c)
  <2>1. UNCHANGED <<taken, lag>> /\ \A d \in Consumers : cpc'[d] \in {"clear", "advance"}
                                                          <=> cpc[d] \in {"clear", "advance"}
    BY <1>0, <1>3 DEF LoopTest
  <2> QED
    BY <1>1, <1>2, <2>1 DEF Released, InHand
<1>4. CASE AwaitHasData(c) \/ ClearHasData(c)
  <2>1. UNCHANGED <<taken, lag>> /\ \A d \in Consumers : cpc'[d] \in {"clear", "advance"}
                                                          <=> cpc[d] \in {"clear", "advance"}
    BY <1>0, <1>4 DEF AwaitHasData, ClearHasData
  <2> QED
    BY <1>1, <1>2, <2>1 DEF Released, InHand
<1>5. CASE MoveOut(c)
  <2>1. /\ cpc[c] = "move" /\ cpc'[c] = "clear" /\ lag' = lag
        /\ taken' = Append(taken, span[read_pos]) /\ span[read_pos] \in Nat
    BY <1>0, <1>5 DEF MoveOut, IInv, TypeOK
  <2>2. Len(taken') = Len(taken) + 1
    BY <1>0, <2>1, AppendProperties
  <2>3. InHand = 0
    BY <2>1, OneHand DEF AtSlot
  <2>4. InHand' = 1
    BY <1>2, <2>1
  <2> QED
    BY <1>0, <1>1, <2>1, <2>2, <2>3, <2>4 DEF Released
<1>6. CASE Advance(c)
  <2>1. /\ cpc[c] = "advance" /\ lag' = lag + 1 /\ taken' = taken
        /\ cpc'[c] = "loop" /\ \A d \in Consumers \ {c} : cpc'[d] = cpc[d]
    BY <1>0, <1>6 DEF Advance
  <2>2. InHand = 1 /\ \A d \in Consumers \ {c} : cpc[d] \notin AtSlot
    BY <2>1, OneHand DEF AtSlot
  <2>3. InHand' = 0
    BY <1>2, <2>1, <2>2 DEF AtSlot
  <2> QED
    BY <1>0, <1>1, <2>1, <2>2, <2>3 DEF Released
<1> QED
  BY <1>3, <1>4, <1>5, <1>6

\* A step that touches neither ring nor counters.
LEMMA QuietKeeps ==
  ASSUME Quiet
  PROVE  Released' = Released /\ accepted' = accepted
<1>1. InHand' = InHand
  BY DEF Quiet, InHand, AtSlot
<1> QED
  BY <1>1 DEF Quiet, Released

\* The four things a step can be: nothing, an Accept, a Refuse or a Take.
Nothing == UNCHANGED <<accepted, total_dropped>> /\ Released' = Released
Accepts(p) ==
  /\ ppc[p] = "publish" /\ accepted' = Append(accepted, arg[p])
  /\ total_dropped' = total_dropped /\ Released' = Released
Refuses ==
  /\ Full /\ total_dropped' = total_dropped + 1
  /\ accepted' = accepted /\ Released' = Released
Takes ==
  /\ Released < Len(accepted)
  /\ Released' = Released + 1 /\ UNCHANGED <<accepted, total_dropped>>

\* Every step of the buffer is one of them.
LEMMA StepKinds ==
  ASSUME IInv, RefInv, [Next]_vars
  PROVE  Nothing \/ Refuses \/ Takes \/ \E p \in Producers : Accepts(p)
<1> USE DEF producer_vars, consumer_vars, call_vars, push_stats, published, slots
<1>0. TypeOK
  BY DEF IInv
<1>1. ASSUME NEW p \in Producers, NEW waits \in BOOLEAN, PushCall(p, waits) PROVE Nothing
  BY <1>0, <1>1, ProducerQuiet, QuietKeeps DEF PushCall, Nothing
<1>2. ASSUME NEW p \in Producers, PushDeadline(p) PROVE Nothing
  BY <1>0, <1>2, ProducerQuiet, QuietKeeps DEF PushDeadline, Nothing
<1>3. ASSUME NEW p \in Producers, Drop(p) PROVE Refuses
  BY <1>0, <1>3, ProducerQuiet, QuietKeeps DEF Drop, Refuses
<1>4. ASSUME NEW p \in Producers, BackOff(p) \/ Retry(p) \/ CountPushed(p) \/ NotifyOne(p)
      PROVE  Nothing
  <2>1. total_dropped' = total_dropped
    BY <1>4 DEF BackOff, Retry, CountPushed, NotifyOne
  <2> QED
    BY <1>0, <1>4, <2>1, ProducerQuiet, QuietKeeps DEF Nothing
<1>5. ASSUME NEW p \in Producers, FindRoom(p) \/ FillSlot(p) \/ SetHasData(p) PROVE Nothing
  <2>1. UNCHANGED <<accepted, total_dropped, taken, lag, cpc>>
    BY <1>5 DEF FindRoom, FillSlot, SetHasData, ProducerGoes
  <2> QED
    BY <2>1 DEF Nothing, Released, InHand
<1>6. ASSUME NEW p \in Producers, Publish(p) PROVE Accepts(p)
  <2>1. UNCHANGED <<total_dropped, taken, lag, cpc>>
    BY <1>6 DEF Publish, ProducerGoes
  <2>2. Released' = Released
    BY <2>1 DEF Released, InHand
  <2> QED
    BY <1>6, <2>1, <2>2 DEF Publish, ProducerGoes, Accepts
<1>7. ASSUME NEW c \in Consumers,
             \/ DrainCall(c) \/ DrainAllCall(c) \/ TestPredicate(c) \/ FallAsleep(c) \/ Relock(c)
             \/ Finish(c) \/ SpuriousWake(c) \/ WaitTimeout(c)
      PROVE  Nothing
  <2>1. UNCHANGED producer_vars
    BY <1>7 DEF DrainCall, DrainAllCall, DrainBegin, TestPredicate, FallAsleep, Relock, Finish,
                SpuriousWake, WaitTimeout, ConsumerGoes
  <2> QED
    BY <1>0, <1>7, <2>1, ConsumerQuiet, QuietKeeps DEF Nothing
<1>8. ASSUME NEW c \in Consumers,
             \/ LoopTest(c) \/ AwaitHasData(c) \/ MoveOut(c) \/ ClearHasData(c) \/ Advance(c)
      PROVE  Nothing
  BY <1>8, ConsumerKeeps DEF Nothing
<1>9. CASE ReadPosVisible \/ \E c \in Consumers : ReadPosEarly(c)
  <2>1. /\ UNCHANGED <<accepted, total_dropped, taken, cpc>> /\ lag' = lag - 1 /\ lag \in Int
        /\ lag > 0 \/ (lag = 0 /\ \E c \in Consumers : cpc[c] \in AtSlot)
    <3>1. CASE ReadPosVisible
      BY <1>0, <3>1 DEF ReadPosVisible, TypeOK
    <3>2. ASSUME NEW c \in Consumers, ReadPosEarly(c)
          PROVE  /\ UNCHANGED <<accepted, total_dropped, taken, cpc>> /\ lag' = lag - 1 /\ lag \in Int
                 /\ lag = 0 /\ cpc[c] \in AtSlot
      BY <3>2 DEF ReadPosEarly, AtSlot
    <3> QED
      BY <1>9, <3>1, <3>2
  <2>2. InHand' = InHand /\ InHand \in {0, 1} /\ Len(taken) \in Nat
    BY <1>0, <2>1, LenProperties DEF InHand, TypeOK
  <2>3. Released' = Released + 1
    BY <2>1, <2>2 DEF Released
  <2>4. lag + Stored > 0
    <3>1. Stored \in Nat
      BY RingBounds DEF IInv
    <3>2. lag = 0 => Stored >= 1
      BY <2>1 DEF IInv, RingInv
    <3> QED
      BY <2>1, <3>1, <3>2
  <2>5. Released < Len(accepted)
    BY <2>4, ReleasedBounds
  <2> QED
    BY <2>1, <2>3, <2>5 DEF Takes
<1>10. CASE ShutdownStore \/ UNCHANGED vars
  BY <1>10 DEF ShutdownStore, vars, Nothing, Released, InHand
<1>11. CASE ShutdownNotify
  <2>1. UNCHANGED <<accepted, total_dropped, taken, lag>>
    BY <1>11 DEF ShutdownNotify
  <2>2. InHand' = InHand
    BY <1>11 DEF ShutdownNotify, InHand
  <2> QED
    BY <2>1, <2>2 DEF Nothing, Released
<1> QED
  BY <1>1, <1>2, <1>3, <1>4, <1>5, <1>6, <1>7, <1>8, <1>9, <1>10, <1>11 DEF Next, PushStep, DrainStep

\* Stores to read_pos follow the taking of spans, and spans keep their numbers.
LEMMA RefStep == IInv /\ RefInv /\ [Next]_vars => RefInv'
<1> SUFFICES ASSUME IInv, RefInv, [Next]_vars PROVE RefInv'
  OBVIOUS
<1> USE DEF producer_vars, consumer_vars, call_vars, push_stats, published, slots
<1>0. /\ TypeOK /\ Released \in Nat /\ made \in Nat /\ MaxSpans \in Nat
      /\ arg \in [Producers -> Nat] /\ ppc \in [Producers -> ProducerSteps]
  BY ReleasedBounds, BoundsAssumption DEF IInv, TypeOK
<1>1. Released' >= 0
  BY <1>0, StepKinds DEF Nothing, Refuses, Takes, Accepts
<1>2. accepted' \in Seq(1 .. MaxSpans)
  <2>1. ASSUME NEW p \in Producers, Accepts(p) PROVE accepted' \in Seq(1 .. MaxSpans)
    <3>1. arg[p] \in 1 .. MaxSpans
      BY <2>1 DEF RefInv, Accepts
    <3> QED
      BY <2>1, <3>1, AppendProperties DEF RefInv, Accepts
  <2> QED
    BY <2>1, StepKinds DEF RefInv, Nothing, Refuses, Takes
<1>3. /\ made' <= MaxSpans
      /\ \A p \in Producers : ppc'[p] # "idle" => arg'[p] \in 1 .. MaxSpans
  <2> DEFINE Numbered == /\ made' <= MaxSpans
                         /\ \A p \in Producers : ppc'[p] # "idle" => arg'[p] \in 1 .. MaxSpans
  <2>1. ASSUME NEW p \in Producers, NEW waits \in BOOLEAN, PushCall(p, waits) PROVE Numbered
    <3>1. /\ made' = made + 1 /\ made + 1 \in 1 .. MaxSpans
          /\ arg' = [arg EXCEPT ![p] = made + 1] /\ ppc' = [ppc EXCEPT ![p] = "check"]
      BY <1>0, <2>1 DEF PushCall, ProducerGoes
    <3> QED
      BY <1>0, <3>1 DEF RefInv
  <2>2. ASSUME UNCHANGED <<made, arg>>, \A p \in Producers : ppc'[p] # "idle" => ppc[p] # "idle"
        PROVE  Numbered
    BY <2>2 DEF RefInv
  <2>3. ASSUME NEW p \in Producers, PushStep(p) PROVE Numbered
    <3>1. UNCHANGED <<made, arg>>
      BY <2>3 DEF PushStep, FindRoom, Drop, BackOff, Retry, FillSlot, SetHasData, Publish,
                  CountPushed, NotifyOne
    <3>2. ppc[p] # "idle" /\ \A q \in Producers \ {p} : ppc'[q] = ppc[q]
      BY <1>0, <2>3 DEF PushStep, FindRoom, Drop, BackOff, Retry, FillSlot, SetHasData, Publish,
                        CountPushed, NotifyOne, ProducerGoes
    <3> QED
      BY <2>2, <3>1, <3>2
  <2>4. ASSUME NEW p \in Producers, PushDeadline(p) PROVE Numbered
    BY <2>2, <2>4 DEF PushDeadline
  <2>5. ASSUME NEW c \in Consumers,
               \/ DrainCall(c) \/ DrainAllCall(c) \/ DrainStep(c) \/ SpuriousWake(c)
               \/ WaitTimeout(c) \/ ReadPosEarly(c)
        PROVE  Numbered
    <3>1. UNCHANGED producer_vars
      BY <2>5 DEF DrainCall, DrainAllCall, DrainBegin, DrainStep, TestPredicate, FallAsleep, Relock,
                  LoopTest, AwaitHasData, MoveOut, ClearHasData, Advance, Finish, SpuriousWake,
                  WaitTimeout, ReadPosEarly, ConsumerGoes
    <3> QED
      BY <2>2, <3>1
  <2>6. CASE ReadPosVisible \/ ShutdownStore \/ ShutdownNotify \/ UNCHANGED vars
    BY <2>2, <2>6 DEF ReadPosVisible, ShutdownStore, ShutdownNotify, vars
  <2> QED
    BY <2>1, <2>3, <2>4, <2>5, <2>6 DEF Next
<1> QED
  BY <1>1, <1>2, <1>3 DEF RefInv

-----------------------------------------------------------------------------
(***************************************************************************)
(* The refinement.                                                         *)
(***************************************************************************)
\* A step of the buffer is a step of the queue, or leaves it as it is.
LEMMA QueueStep ==
  ASSUME IInv, RefInv, IInv', RefInv', [Next]_vars
  PROVE  [Queue!Next]_(Queue!vars)
<1> DEFINE n == Released
           D == SubSeq(accepted, 1, n)
<1>0. /\ accepted \in Seq(1 .. MaxSpans) /\ n \in 0 .. Len(accepted) /\ Len(accepted) \in Nat
      /\ Len(accepted) - n = lag + Stored /\ Capacity \in Nat \ {0}
  BY ReleasedBounds, CapacityAssumption DEF RefInv
<1> HIDE DEF n
<1>1. DeliveredAs = D /\ DeliveredAs' = SubSeq(accepted', 1, Released')
  <2>1. DeliveredAs = SubSeq(accepted, 1, Released)
    BY DeliveredMap
  <2>2. (IInv /\ RefInv => DeliveredAs = SubSeq(accepted, 1, Released))'
    BY DeliveredMap, PTL
  <2>3. DeliveredAs' = SubSeq(accepted', 1, Released')
    BY <2>2
  <2> QED
    BY <2>1, <2>3 DEF n
<1>2. Len(QueueMap) = lag + Stored
  <2>1. ASSUME NEW i \in n + 1 .. Len(accepted) PROVE accepted[i] \in 1 .. MaxSpans
    <3>1. i \in 1 .. Len(accepted)
      BY <1>0
    <3> QED
      BY <1>0, <3>1, ElementOfSeq
  <2>2. Len(QueueMap) = IF n + 1 <= Len(accepted) THEN Len(accepted) - (n + 1) + 1 ELSE 0
    BY <1>0, <2>1, SubSeqProperties DEF QueueMap, n
  <2> QED
    BY <1>0, <2>2
<1>3. CASE Nothing
  <2>1. QueueMap' = QueueMap /\ DeliveredAs' = DeliveredAs /\ total_dropped' = total_dropped
    BY <1>1, <1>3 DEF Nothing, QueueMap, n
  <2> QED
    BY <2>1 DEF Queue!vars, QueueMap, DeliveredAs
<1>4. ASSUME NEW p \in Producers, Accepts(p)
      PROVE  \E s \in 1 .. MaxSpans : Queue!Accept(s)
  <2>1. /\ ppc[p] = "publish" /\ accepted' = Append(accepted, arg[p]) /\ arg[p] \in 1 .. MaxSpans
        /\ total_dropped' = total_dropped /\ Released' = n
    BY <1>4 DEF Accepts, RefInv, n
  <2>2. Len(accepted') = Len(accepted) + 1
    BY <1>0, <2>1, AppendProperties
  <2>3. QueueMap' = Append(QueueMap, arg[p]) /\ DeliveredAs' = DeliveredAs
    <3>1. /\ SubSeq(Append(accepted, arg[p]), n + 1, Len(accepted) + 1)
               = Append(SubSeq(accepted, n + 1, Len(accepted)), arg[p])
          /\ SubSeq(Append(accepted, arg[p]), 1, n) = SubSeq(accepted, 1, n)
      BY <1>0, <2>1, AppendParts
    <3>2. QueueMap' = Append(QueueMap, arg[p])
      BY <2>1, <2>2, <3>1 DEF QueueMap, n
    <3>3. DeliveredAs' = DeliveredAs
      BY <1>1, <2>1, <3>1
    <3> QED
      BY <3>2, <3>3
  <2>4. Len(QueueMap) < Capacity - 1
    <3>1. lag + Stored <= Capacity - 2
      BY <2>1 DEF IInv, RingInv, Writing
    <3>2. lag \in Int /\ Stored \in Nat
      BY RingBounds DEF IInv
    <3> QED
      BY <1>0, <1>2, <3>1, <3>2
  <2>5. Queue!Accept(arg[p])
    BY <2>1, <2>3, <2>4 DEF Queue!Accept, QueueMap, DeliveredAs
  <2> QED
    BY <2>1, <2>5
<1>5. ASSUME Refuses PROVE Queue!Refuse
  <2>1. QueueMap' = QueueMap /\ DeliveredAs' = DeliveredAs /\ total_dropped' = total_dropped + 1
    BY <1>1, <1>5 DEF Refuses, QueueMap, n
  <2>2. Len(QueueMap) = Capacity - 1
    BY <1>2, <1>5, FullIff DEF Refuses, IInv
  <2> QED
    BY <2>1, <2>2 DEF Queue!Refuse, QueueMap, DeliveredAs
<1>6. ASSUME Takes PROVE Queue!Take
  <2>1. /\ n < Len(accepted) /\ n \in Nat /\ Released' = n + 1
        /\ UNCHANGED <<accepted, total_dropped>>
    BY <1>0, <1>6 DEF Takes, n
  <2>2. /\ SubSeq(accepted, n + 1, Len(accepted)) # <<>>
        /\ Head(SubSeq(accepted, n + 1, Len(accepted))) = accepted[n + 1]
        /\ Tail(SubSeq(accepted, n + 1, Len(accepted))) = SubSeq(accepted, n + 2, Len(accepted))
        /\ SubSeq(accepted, 1, n + 1) = Append(SubSeq(accepted, 1, n), accepted[n + 1])
    BY <1>0, <2>1, TakeParts
  <2>3. QueueMap = SubSeq(accepted, n + 1, Len(accepted))
    BY DEF QueueMap, n
  <2>4. (n + 1) + 1 = n + 2
    BY <2>1
  <2>5. QueueMap' = SubSeq(accepted, n + 2, Len(accepted))
    BY <2>1, <2>4 DEF QueueMap
  <2>6. DeliveredAs' = Append(DeliveredAs, Head(QueueMap))
    BY <1>1, <2>1, <2>2, <2>3
  <2>7. QueueMap # <<>> /\ QueueMap' = Tail(QueueMap)
    BY <2>2, <2>3, <2>5
  <2> QED
    BY <2>1, <2>6, <2>7 DEF Queue!Take, QueueMap, DeliveredAs
<1> QED
  <2>1. Nothing \/ Refuses \/ Takes \/ \E p \in Producers : Accepts(p)
    BY StepKinds
  <2>2. CASE \E p \in Producers : Accepts(p)
    BY <1>4, <2>2 DEF Queue!Next
  <2>3. CASE Refuses \/ Takes
    BY <1>5, <1>6, <2>3 DEF Queue!Next
  <2> QED
    BY <1>3, <2>1, <2>2, <2>3

\* An empty ring is an empty queue.
LEMMA QueueInit == Init => RefInv /\ Queue!Init
<1> SUFFICES ASSUME Init PROVE RefInv /\ Queue!Init
  OBVIOUS
<1>1. /\ accepted = <<>> /\ taken = <<>> /\ lag = 0 /\ made = 0 /\ total_dropped = 0
      /\ \A p \in Producers : ppc[p] = "idle"
      /\ \A c \in Consumers : cpc[c] = "idle"
  BY DEF Init
<1>2. <<>> \in Seq(1 .. MaxSpans) /\ Len(<<>>) = 0
  BY EmptySeq
<1>3. InHand = 0
  BY <1>1 DEF InHand
<1>4. Released = 0
  BY <1>1, <1>2, <1>3 DEF Released
<1>5. RefInv
  BY <1>1, <1>2, <1>4, BoundsAssumption DEF RefInv
<1>6. QueueMap = <<>> /\ DeliveredAs = <<>>
  BY <1>1, <1>2, <1>4, SubSeqEmpty DEF QueueMap, DeliveredAs
<1> QED
  BY <1>1, <1>5, <1>6 DEF Queue!Init, QueueMap, DeliveredAs

\* The numbers of the spans and the stores to read_pos_ behave, in any interleaving.
THEOREM NumbersAndStores == Spec => []RefInv
<1>1. Init => RefInv
  BY QueueInit
<1> QED
  BY <1>1, RefStep, Invariance, PTL DEF Spec

\* The lock-free sharing of the ring (span_buffer.cpp:24-130) amounts to a bounded queue: a
\* span is refused only when Capacity - 1 others are in it, and the oldest leaves first.
THEOREM BufferIsQueue == Spec => ImplementsQueue
<1>1. Init => Queue!Init
  BY QueueInit
<1>2. IInv /\ RefInv /\ IInv' /\ RefInv' /\ [Next]_vars => [Queue!Next]_(Queue!vars)
  BY QueueStep
<1> QED
  BY <1>1, <1>2, Invariance, NumbersAndStores, PTL DEF Spec, ImplementsQueue, Queue!Spec
=============================================================================
