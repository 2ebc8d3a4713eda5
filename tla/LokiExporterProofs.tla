------------------------- MODULE LokiExporterProofs -------------------------
(***************************************************************************)
(* Proofs about LokiExporter, for a buffer of any size, batches of any     *)
(* size, any number of retries, spans and starts.  IInv says, for each     *)
(* step of the worker, what has become of the batch in its hands.          *)
(***************************************************************************)
EXTENDS LokiExporter, FiniteSetTheorems, FunctionTheorems, SequenceTheorems, TLAPS

Attempts == MaxRetries + 1
AtWork == wpc # "none"
\* The batch is complete and on its way; an attempt with it has been made.
Sending == {"send", "pause", "sent", "failed"}
Attempted == {"pause", "sent", "failed"}

Increasing(s) == \A i, j \in DOMAIN s : i < j => s[i] < s[j]

\* There is a worker except when the owner is idle with the exporter stopped, and it has
\* been asked to stop exactly while the owner waits for it.
OwnerInv ==
  /\ wpc = "none" <=> opc = "idle" /\ ~running
  /\ opc = "join" => running
  /\ opc = "mark" => ~running
  /\ AtWork => (stop_requested <=> opc = "join")

\* Where the batch is empty, how long it can be, and when the loop is over.
BatchInv ==
  /\ wpc \in {"none", "check", "done"} => batch = <<>>
  /\ ~final => Len(batch) <= BatchSize
  /\ AtWork /\ final => stop_requested /\ wpc # "check"
  /\ wpc = "done" => final
  /\ retry <= MaxRetries
  /\ wpc = "pause" => retry < MaxRetries

\* Spans are numbered in the order they were offered, so that no span comes twice.
OrderInv ==
  /\ Increasing(delivered) /\ Increasing(queue) /\ Increasing(batch)
  /\ \A s \in Contents(delivered), t \in Contents(queue) : s < t
  /\ \A s \in Contents(delivered) \cup Contents(queue) : s <= Offered
  /\ Contents(batch) \subseteq Contents(delivered)

\* How often a span can have been stored, by the attempts with its batch and the errors.
AttemptInv ==
  /\ \A s \in 1 .. MaxSpans : s \notin Contents(delivered) => received[s] = 0
  /\ \A s \in Contents(batch) :
       /\ wpc = "take" => received[s] = 0
       /\ wpc = "send" => received[s] <= retry /\ received[s] <= http_errors
       /\ wpc \in Attempted => received[s] <= retry + 1
       /\ wpc \in {"pause", "failed"} => received[s] <= http_errors
       /\ wpc = "sent" => received[s] > 0

\* What was in the buffer at the call of stop() is in it still or has been taken.
FlushInv ==
  /\ flush_to <= Len(delivered) + Len(queue)
  /\ wpc = "none" \/ (final /\ wpc \in Sending \cup {"done"}) => flush_to <= Len(delivered)

\* Attempts since stop(): those with the batch under way, and those with the final one.
LateInv ==
  /\ late_attempts <= 2 * Attempts
  /\ AtWork /\ ~stop_requested => late_attempts = 0
  /\ AtWork /\ ~final =>
       /\ wpc = "take" => late_attempts = 0
       /\ wpc = "send" => late_attempts <= retry
       /\ wpc \in Attempted => late_attempts <= retry + 1
       /\ late_attempts <= Attempts
  /\ AtWork /\ final =>
       /\ wpc = "take" => late_attempts <= Attempts
       /\ wpc = "send" => late_attempts <= Attempts + retry
       /\ wpc \in Attempted => late_attempts <= Attempts + retry + 1

\* While the first worker is in its loop, what it counted is stored, and not in its hands.
Stored == {s \in 1 .. MaxSpans : received[s] > 0}
StoredInv ==
  /\ starts = 0 => spans_exported = 0 /\ wpc = "none"
  /\ starts = 1 /\ AtWork /\ ~final =>
       spans_exported <= Cardinality(Stored \ Contents(batch))

ControlInv == TypeOK /\ OwnerInv /\ BatchInv
IInv ==
  /\ ControlInv /\ OrderInv /\ AttemptInv /\ FlushInv /\ LateInv /\ StoredInv
  /\ NothingVanishes /\ DuplicatesAreBounded /\ CountersCoverSpans

-----------------------------------------------------------------------------
(***************************************************************************)
(* Sequences of spans.                                                     *)
(***************************************************************************)
\* Appending a span adds it to the contents.
LEMMA ContentsAppend ==
  ASSUME NEW s \in Seq(Int), NEW e \in Int
  PROVE  Contents(Append(s, e)) = Contents(s) \cup {e}
<1> DEFINE t == Append(s, e)
<1>1. /\ DOMAIN t = 1 .. Len(s) + 1 /\ DOMAIN s = 1 .. Len(s) /\ Len(s) \in Nat
      /\ \A i \in 1 .. Len(s) : t[i] = s[i]
      /\ t[Len(s) + 1] = e
  BY AppendProperties
<1> HIDE DEF t
<1> QED
  BY <1>1 DEF Contents, t

\* Appending a span with a number above all others keeps the order.
LEMMA IncreasingAppend ==
  ASSUME NEW s \in Seq(Int), NEW e \in Int, Increasing(s), \A x \in Contents(s) : x < e
  PROVE  Increasing(Append(s, e))
<1> DEFINE t == Append(s, e)
<1>1. /\ DOMAIN t = 1 .. Len(s) + 1 /\ DOMAIN s = 1 .. Len(s) /\ Len(s) \in Nat
      /\ \A i \in 1 .. Len(s) : t[i] = s[i]
      /\ t[Len(s) + 1] = e
  BY AppendProperties
<1>2. \A i \in 1 .. Len(s) : s[i] < e
  BY <1>1 DEF Contents
<1> HIDE DEF t
<1> QED
  BY <1>1, <1>2 DEF Increasing, t

\* Taking the first span off leaves the others, which are above it.
LEMMA IncreasingTail ==
  ASSUME NEW s \in Seq(Int), s # <<>>, Increasing(s)
  PROVE  /\ Increasing(Tail(s))
         /\ Head(s) \in Contents(s) /\ \A x \in Contents(Tail(s)) : x \in Contents(s) /\ Head(s) < x
         /\ Contents(Tail(s)) = Contents(s) \ {Head(s)}
<1> DEFINE t == Tail(s)
<1>1. /\ Len(s) \in Nat \ {0} /\ DOMAIN s = 1 .. Len(s) /\ DOMAIN t = 1 .. Len(s) - 1
      /\ \A i \in 1 .. Len(s) - 1 : t[i] = s[i + 1]
      /\ Head(s) = s[1]
  BY HeadTailProperties
<1>2. \A i \in 1 .. Len(s) : s[i] \in Int
  BY <1>1
<1> HIDE DEF t
<1>3. Increasing(t)
  <2>1. ASSUME NEW i \in 1 .. Len(s) - 1, NEW j \in 1 .. Len(s) - 1, i < j PROVE t[i] < t[j]
    <3>1. i + 1 \in 1 .. Len(s) /\ j + 1 \in 1 .. Len(s) /\ i + 1 < j + 1
      BY <1>1, <2>1
    <3> QED
      BY <1>1, <3>1 DEF Increasing
  <2> QED
    BY <1>1, <2>1 DEF Increasing
<1>4. ASSUME NEW x \in Contents(t) PROVE x \in Contents(s) /\ s[1] < x
  <2>1. PICK i \in 1 .. Len(s) - 1 : x = t[i]
    BY <1>1 DEF Contents
  <2>2. 1 \in 1 .. Len(s) /\ i + 1 \in 1 .. Len(s) /\ 1 < i + 1 /\ x = s[i + 1]
    BY <1>1, <2>1
  <2> QED
    BY <1>1, <2>2 DEF Contents, Increasing
<1>5. s[1] \in Contents(s)
  BY <1>1 DEF Contents
<1>6. ASSUME NEW x \in Contents(s), x # s[1] PROVE x \in Contents(t)
  <2>1. PICK i \in 1 .. Len(s) : x = s[i]
    BY <1>1 DEF Contents
  <2>2. i # 1 /\ i - 1 \in 1 .. Len(s) - 1 /\ t[i - 1] = s[i]
    BY <1>1, <1>6, <2>1
  <2> QED
    BY <1>1, <2>1, <2>2 DEF Contents
<1>7. s[1] \in Int
  BY <1>1, <1>2
<1> QED
  BY <1>1, <1>3, <1>4, <1>5, <1>6, <1>7 DEF t

\* An increasing sequence has as many members as elements.
LEMMA IncreasingCount ==
  ASSUME NEW s \in Seq(Int), Increasing(s)
  PROVE  IsFiniteSet(Contents(s)) /\ Cardinality(Contents(s)) = Len(s)
<1>1. DOMAIN s = 1 .. Len(s) /\ Len(s) \in Nat /\ s \in [1 .. Len(s) -> Int]
  BY LenProperties
<1>2. s \in Bijection(1 .. Len(s), Contents(s))
  <2>1. s \in [1 .. Len(s) -> Contents(s)]
    BY <1>1 DEF Contents
  <2>2. ASSUME NEW i \in 1 .. Len(s), NEW j \in 1 .. Len(s), s[i] = s[j] PROVE i = j
    BY <1>1, <2>2 DEF Increasing
  <2>3. \A x \in Contents(s) : \E i \in 1 .. Len(s) : s[i] = x
    BY <1>1 DEF Contents
  <2> QED
    BY <2>1, <2>2, <2>3, Fun_IsBij
<1>3. IsFiniteSet(1 .. Len(s)) /\ Cardinality(1 .. Len(s)) = Len(s)
  BY <1>1, FS_Interval
<1> QED
  BY <1>2, <1>3, FS_Bijection, Fun_ExistsBij

-----------------------------------------------------------------------------
(***************************************************************************)
(* Types and control.                                                      *)
(***************************************************************************)
\* TypeOK by the variables' owners.
BufferType == Buffer!TypeOK
OwnerType ==
  /\ running \in BOOLEAN /\ stop_requested \in BOOLEAN
  /\ opc \in {"idle", "mark", "join"} /\ starts \in Nat /\ flush_to \in Nat
WorkerSteps == {"none", "check", "take", "send", "pause", "sent", "failed", "done"}
WorkerType ==
  wpc \in WorkerSteps /\ batch \in Seq(1 .. MaxSpans) /\ final \in BOOLEAN /\ retry \in Nat
BackendType ==
  /\ received \in [1 .. MaxSpans -> Nat] /\ abandoned \subseteq 1 .. MaxSpans
  /\ late_attempts \in Nat /\ has_curl \in BOOLEAN
CounterType ==
  /\ spans_exported \in Nat /\ batches_sent \in Nat
  /\ batches_failed \in Nat /\ http_errors \in Nat
\* TypeOK is its five parts.
LEMMA TypeParts == TypeOK <=> BufferType /\ OwnerType /\ WorkerType /\ BackendType /\ CounterType
  BY DEF TypeOK, BufferType, OwnerType, WorkerType, WorkerSteps, BackendType, CounterType

\* A freshly constructed exporter is well typed.
LEMMA TypeInit == Init => TypeOK
<1> SUFFICES ASSUME Init PROVE TypeOK
  OBVIOUS
<1>1. <<>> \in Seq(1 .. MaxSpans) /\ Len(<<>>) = 0
  BY EmptySeq
<1>2. BufferType
  BY <1>1, ExporterAssumption DEF Init, BufferType, Buffer!Init, Buffer!TypeOK
<1>3. OwnerType /\ CounterType
  BY DEF Init, OwnerType, CounterType
<1>4. WorkerType
  BY <1>1 DEF Init, WorkerType, WorkerSteps
<1>5. BackendType
  BY DEF Init, BackendType
<1> QED
  BY <1>2, <1>3, <1>4, <1>5, TypeParts

\* What a push does to the buffer, seen from outside.
LEMMA PushFacts ==
  ASSUME TypeOK, Push
  PROVE  /\ Offered \in Nat /\ Buffer!TypeOK'
         /\ \/ /\ Offered + 1 \in 1 .. MaxSpans /\ queue' = Append(queue, Offered + 1)
               /\ UNCHANGED <<delivered, refused>>
            \/ refused' = refused + 1 /\ UNCHANGED <<queue, delivered>>
         /\ UNCHANGED <<owner_vars, worker_vars, backend_vars, counters>>
<1>1. Offered \in Nat /\ Len(queue) \in Nat
  BY DEF TypeOK, Buffer!TypeOK, Offered
<1>2. CASE Buffer!Accept(Offered + 1)
  <2>1. Offered + 1 \in 1 .. MaxSpans
    BY <1>1, ExporterAssumption DEF Push
  <2>2. queue' \in Seq(1 .. MaxSpans) /\ Len(queue') <= Bound
    BY <1>1, <1>2, <2>1, AppendProperties, ExporterAssumption DEF Buffer!Accept, TypeOK, Buffer!TypeOK
  <2> QED
    BY <1>1, <1>2, <2>1, <2>2 DEF Push, Buffer!Accept, TypeOK, Buffer!TypeOK
<1>3. CASE Buffer!Refuse
  BY <1>1, <1>3 DEF Push, Buffer!Refuse, TypeOK, Buffer!TypeOK
<1> QED
  BY <1>2, <1>3 DEF Push

\* What taking one span does to the buffer and to the batch.
LEMMA TakeFacts ==
  ASSUME TypeOK, TakeOne
  PROVE  /\ wpc = "take" /\ queue # <<>> /\ (final \/ Len(batch) < BatchSize)
         /\ Head(queue) \in 1 .. MaxSpans
         /\ queue' = Tail(queue) /\ queue' \in Seq(1 .. MaxSpans) /\ Len(queue') = Len(queue) - 1
         /\ delivered' = Append(delivered, Head(queue)) /\ delivered' \in Seq(1 .. MaxSpans)
         /\ Len(delivered') = Len(delivered) + 1
         /\ batch' = Append(batch, Head(queue)) /\ batch' \in Seq(1 .. MaxSpans)
         /\ Len(batch') = Len(batch) + 1
         /\ UNCHANGED <<refused, owner_vars, wpc, final, retry, backend_vars, counters>>
<1>1. /\ wpc = "take" /\ queue # <<>> /\ (final \/ Len(batch) < BatchSize)
      /\ queue' = Tail(queue) /\ delivered' = Append(delivered, Head(queue))
      /\ batch' = Append(batch, Head(queue))
      /\ UNCHANGED <<refused, owner_vars, wpc, final, retry, backend_vars, counters>>
  BY DEF TakeOne, RoomInBatch, Buffer!Take
<1>2. /\ queue \in Seq(1 .. MaxSpans) /\ delivered \in Seq(1 .. MaxSpans)
      /\ batch \in Seq(1 .. MaxSpans)
  BY DEF TypeOK, Buffer!TypeOK
<1>3. /\ Head(queue) \in 1 .. MaxSpans
      /\ Tail(queue) \in Seq(1 .. MaxSpans) /\ Len(Tail(queue)) = Len(queue) - 1
  BY <1>1, <1>2, HeadTailProperties
<1> QED
  BY <1>1, <1>2, <1>3, AppendProperties

\* Count adds one to the spans of the batch when the backend stored it.
LEMMA CountFacts ==
  ASSUME TypeOK, NEW stored \in BOOLEAN, Count(stored)
  PROVE  /\ received' \in [1 .. MaxSpans -> Nat]
         /\ \A s \in 1 .. MaxSpans :
              received'[s] = IF stored /\ s \in Contents(batch) THEN received[s] + 1 ELSE received[s]
<1>1. received \in [1 .. MaxSpans -> Nat]
  BY DEF TypeOK
<1> QED
  BY <1>1 DEF Count

\* Spans in hand, taken and waiting are spans.
LEMMA ContentsType ==
  ASSUME TypeOK
  PROVE  /\ Contents(batch) \subseteq 1 .. MaxSpans /\ Contents(delivered) \subseteq 1 .. MaxSpans
         /\ Contents(queue) \subseteq 1 .. MaxSpans
<1>1. ASSUME NEW s \in Seq(1 .. MaxSpans) PROVE Contents(s) \subseteq 1 .. MaxSpans
  <2>1. DOMAIN s = 1 .. Len(s) /\ \A i \in 1 .. Len(s) : s[i] \in 1 .. MaxSpans
    BY LenProperties, ElementOfSeq
  <2> QED
    BY <2>1 DEF Contents
<1> QED
  BY <1>1 DEF TypeOK, Buffer!TypeOK

\* Every step of the owner, the worker and the PHP threads keeps the types.
LEMMA TypeStep == TypeOK /\ [Next]_vars => TypeOK'
<1> SUFFICES ASSUME TypeOK, [Next]_vars PROVE TypeOK'
  OBVIOUS
<1>0. BufferType /\ OwnerType /\ WorkerType /\ BackendType /\ CounterType
  BY TypeParts
<1>p. TypeOK' <=> BufferType' /\ OwnerType' /\ WorkerType' /\ BackendType' /\ CounterType'
  BY DEF TypeOK, BufferType, OwnerType, WorkerType, WorkerSteps, BackendType, CounterType
<1>b. UNCHANGED buffer_vars => BufferType'
  BY <1>0 DEF buffer_vars, BufferType, Buffer!TypeOK
<1>o. UNCHANGED owner_vars => OwnerType'
  BY <1>0 DEF owner_vars, OwnerType
<1>w. UNCHANGED worker_vars => WorkerType'
  BY <1>0 DEF worker_vars, WorkerType
<1>h. UNCHANGED backend_vars => BackendType'
  BY <1>0 DEF backend_vars, BackendType
<1>c. UNCHANGED counters => CounterType'
  BY <1>0 DEF counters, CounterType
<1>e. <<>> \in Seq(1 .. MaxSpans) /\ Len(batch) \in Nat /\ Contents(batch) \subseteq 1 .. MaxSpans
  BY EmptySeq, LenProperties, ContentsType, <1>0 DEF WorkerType
<1>1. CASE Push
  BY <1>1, <1>p, <1>o, <1>w, <1>h, <1>c, PushFacts DEF BufferType
<1>2. CASE Start
  <2>1. OwnerType'
    <3>1. starts' \in Nat /\ flush_to' \in Nat
      BY <1>0, <1>2 DEF Start, OwnerType
    <3>2. running' \in BOOLEAN /\ stop_requested' \in BOOLEAN
      BY <1>0, <1>2 DEF Start, OwnerType
    <3>3. opc' \in {"idle", "mark", "join"}
      BY <1>0, <1>2 DEF Start, OwnerType
    <3> QED
      BY <3>1, <3>2, <3>3 DEF OwnerType
  <2>2. WorkerType'
    <3>1. CASE wpc' = "check" /\ batch' = <<>> /\ final' = FALSE /\ retry' = 0
      BY <1>e, <3>1 DEF WorkerType, WorkerSteps
    <3>2. CASE UNCHANGED worker_vars
      BY <1>w, <3>2
    <3> QED
      BY <1>2, <3>1, <3>2 DEF Start
  <2>3. BackendType' /\ UNCHANGED buffer_vars /\ UNCHANGED counters
    BY <1>0, <1>2 DEF Start, BackendType
  <2> QED
    BY <1>p, <1>b, <1>c, <2>1, <2>2, <2>3
<1>3. CASE MarkRunning
  BY <1>0, <1>3, <1>p, <1>b, <1>w, <1>h, <1>c DEF MarkRunning, OwnerType
<1>4. CASE Stop
  <2>1. Len(delivered) + Len(queue) \in Nat
    BY LenProperties, <1>0 DEF BufferType, Buffer!TypeOK
  <2> QED
    BY <1>0, <1>4, <1>p, <1>b, <1>w, <1>h, <1>c, <2>1 DEF Stop, OwnerType
<1>5. CASE Join
  <2>1. OwnerType' /\ WorkerType'
    BY <1>0, <1>5 DEF Join, OwnerType, WorkerType, WorkerSteps
  <2> QED
    BY <1>5, <1>p, <1>b, <1>h, <1>c, <2>1 DEF Join
<1>6. CASE CheckStop
  <2>1. WorkerType'
    BY <1>0, <1>6 DEF CheckStop, StopNow, WorkerType, OwnerType, WorkerSteps
  <2> QED
    BY <1>6, <1>p, <1>b, <1>o, <1>h, <1>c, <2>1 DEF CheckStop
<1>7. CASE TakeOne
  <2>1. BufferType'
    BY <1>0, <1>7, TakeFacts, LenProperties, ExporterAssumption DEF BufferType, Buffer!TypeOK
  <2>2. WorkerType'
    BY <1>0, <1>7, TakeFacts DEF WorkerType
  <2> QED
    BY <1>7, <1>p, <1>o, <1>h, <1>c, <2>1, <2>2, TakeFacts
<1>8. CASE TakeDone
  <2>1. WorkerType'
    BY <1>0, <1>8 DEF TakeDone, WorkerType, WorkerSteps
  <2> QED
    BY <1>8, <1>p, <1>b, <1>o, <1>h, <1>c, <2>1 DEF TakeDone
<1>9. CASE SendOk
  <2>1. BackendType'
    <3>1. received' \in [1 .. MaxSpans -> Nat]
      BY <1>9, CountFacts DEF SendOk
    <3>2. late_attempts' \in Nat
      BY <1>0, <1>9 DEF SendOk, BackendType
    <3> QED
      BY <1>0, <1>9, <3>1, <3>2 DEF SendOk, BackendType
  <2>2. WorkerType'
    BY <1>0, <1>9 DEF SendOk, WorkerType, WorkerSteps
  <2> QED
    BY <1>9, <1>p, <1>b, <1>o, <1>c, <2>1, <2>2 DEF SendOk
<1>10. ASSUME NEW stored \in BOOLEAN, SendError(stored) PROVE TypeOK'
  <2>1. BackendType'
    BY <1>0, <1>10, CountFacts DEF SendError, BackendType
  <2>2. WorkerType'
    BY <1>0, <1>10 DEF SendError, AfterFailure, WorkerType, WorkerSteps
  <2>3. CounterType'
    BY <1>0, <1>10 DEF SendError, CounterType
  <2> QED
    BY <1>10, <1>p, <1>b, <1>o, <2>1, <2>2, <2>3 DEF SendError
<1>11. CASE SendWithoutCurl
  <2>1. BackendType'
    BY <1>0, <1>11 DEF SendWithoutCurl, BackendType
  <2>2. WorkerType'
    BY <1>0, <1>11 DEF SendWithoutCurl, AfterFailure, WorkerType, WorkerSteps
  <2> QED
    BY <1>11, <1>p, <1>b, <1>o, <1>c, <2>1, <2>2 DEF SendWithoutCurl
<1>12. CASE Retry
  <2>1. WorkerType'
    BY <1>0, <1>12 DEF Retry, WorkerType, WorkerSteps
  <2> QED
    BY <1>12, <1>p, <1>b, <1>o, <1>h, <1>c, <2>1 DEF Retry
<1>13. CASE BatchSettled
  <2>1. BackendType' /\ CounterType'
    <3>1. abandoned' \subseteq 1 .. MaxSpans
      BY <1>0, <1>13, <1>e DEF BatchSettled, BackendType
    <3>2. CounterType'
      BY <1>0, <1>13, <1>e DEF BatchSettled, CounterType
    <3> QED
      BY <1>0, <1>13, <3>1, <3>2 DEF BatchSettled, BackendType
  <2>2. WorkerType'
    BY <1>0, <1>13, <1>e DEF BatchSettled, WorkerType, WorkerSteps
  <2> QED
    BY <1>13, <1>p, <1>b, <1>o, <2>1, <2>2 DEF BatchSettled
<1>14. CASE FinalSettled
  <2>1. BackendType' /\ CounterType'
    <3>1. abandoned' \subseteq 1 .. MaxSpans
      BY <1>0, <1>14, <1>e DEF FinalSettled, BackendType
    <3>2. CounterType'
      BY <1>0, <1>14, <1>e DEF FinalSettled, CounterType
    <3> QED
      BY <1>0, <1>14, <3>1, <3>2 DEF FinalSettled, BackendType
  <2>2. WorkerType'
    BY <1>0, <1>14, <1>e DEF FinalSettled, WorkerType, WorkerSteps
  <2> QED
    BY <1>14, <1>p, <1>b, <1>o, <2>1, <2>2 DEF FinalSettled
<1>15. CASE UNCHANGED vars
  BY <1>15, <1>p, <1>b, <1>o, <1>w, <1>h, <1>c DEF vars
<1> QED
  BY <1>1, <1>2, <1>3, <1>4, <1>5, <1>6, <1>7, <1>8, <1>9, <1>10, <1>11, <1>12, <1>13, <1>14, <1>15
     DEF Next, Work, Send

\* start(), stop() and the worker's loop keep each other's flags.
LEMMA OwnerStep == TypeOK /\ OwnerInv /\ BatchInv /\ [Next]_vars => OwnerInv'
<1> SUFFICES ASSUME TypeOK, OwnerInv, BatchInv, [Next]_vars PROVE OwnerInv'
  OBVIOUS
<1> USE DEF owner_vars, worker_vars, OwnerInv, AtWork
<1>1. CASE Push \/ UNCHANGED vars
  BY <1>1, PushFacts DEF vars
<1>2. CASE Start
  BY <1>2 DEF Start
<1>3. CASE MarkRunning \/ Stop \/ Join
  BY <1>3 DEF MarkRunning, Stop, Join
<1>4. CASE TakeOne
  BY <1>4, TakeFacts
<1>5. CASE CheckStop \/ TakeDone \/ Retry
  <2>1. wpc # "none" /\ wpc' \in {"take", "send", "done", "check"} /\ UNCHANGED owner_vars
    BY <1>5 DEF CheckStop, TakeDone, Retry
  <2> QED
    BY <2>1
<1>6. CASE Send
  <2>1. wpc = "send" /\ wpc' \in {"sent", "pause", "failed"} /\ UNCHANGED owner_vars
    BY <1>6 DEF Send, SendOk, SendError, SendWithoutCurl, AfterFailure
  <2> QED
    BY <2>1
<1>7. CASE BatchSettled \/ FinalSettled
  BY <1>7 DEF BatchSettled, FinalSettled
<1> QED
  BY <1>1, <1>2, <1>3, <1>4, <1>5, <1>6, <1>7 DEF Next, Work

\* The worker's batch, its last round and its retries.
LEMMA BatchStep == TypeOK /\ OwnerInv /\ BatchInv /\ [Next]_vars => BatchInv'
<1> SUFFICES ASSUME TypeOK, OwnerInv, BatchInv, [Next]_vars PROVE BatchInv'
  OBVIOUS
<1>0. /\ BatchSize \in Nat /\ MaxRetries \in Nat /\ Len(batch) \in Nat /\ retry \in Nat
      /\ Len(<<>>) = 0 /\ final \in BOOLEAN /\ stop_requested \in BOOLEAN
  BY ExporterAssumption, LenProperties DEF TypeOK
<1> USE DEF owner_vars, worker_vars, BatchInv, AtWork
<1>1. CASE Push \/ UNCHANGED vars
  BY <1>1, PushFacts DEF vars
<1>2. CASE Start
  <2>1. CASE wpc' = "check" /\ batch' = <<>> /\ final' = FALSE /\ retry' = 0
    BY <1>0, <2>1
  <2>2. CASE UNCHANGED worker_vars
    BY <1>2, <2>2 DEF Start, OwnerInv
  <2> QED
    BY <1>2, <2>1, <2>2 DEF Start
<1>3. CASE MarkRunning \/ Stop \/ Join
  BY <1>3 DEF MarkRunning, Stop, Join
<1>4. CASE CheckStop
  <2>1. batch = <<>> /\ batch' = <<>> /\ retry' = retry /\ wpc' = "take"
    BY <1>4 DEF CheckStop
  <2>2. final' => stop_requested'
    BY <1>4 DEF CheckStop, StopNow
  <2> QED
    BY <1>0, <2>1, <2>2
<1>5. CASE TakeOne
  BY <1>0, <1>5, TakeFacts
<1>6. CASE TakeDone
  <2>1. /\ wpc' \in {"send", "done", "check"} /\ (wpc' # "send" => batch = <<>>)
        /\ (wpc' = "done" => final) /\ (wpc' = "check" => ~final)
    BY <1>6 DEF TakeDone
  <2>2. wpc # "none" /\ retry' = 0 /\ UNCHANGED <<batch, final, stop_requested>>
    BY <1>6 DEF TakeDone
  <2> QED
    BY <1>0, <2>1, <2>2
<1>7. CASE Send
  <2>1. /\ wpc = "send" /\ wpc' \in {"sent", "pause", "failed"}
        /\ (wpc' = "pause" => retry < MaxRetries)
        /\ UNCHANGED <<batch, final, retry, stop_requested>>
    BY <1>7 DEF Send, SendOk, SendError, SendWithoutCurl, AfterFailure
  <2> QED
    BY <1>0, <2>1
<1>8. CASE Retry
  BY <1>0, <1>8 DEF Retry
<1>9. CASE BatchSettled
  BY <1>0, <1>9 DEF BatchSettled
<1>10. CASE FinalSettled
  BY <1>0, <1>10 DEF FinalSettled
<1> QED
  BY <1>1, <1>2, <1>3, <1>4, <1>5, <1>6, <1>7, <1>8, <1>9, <1>10 DEF Next, Work

\* The types, the flags and the batch's shape together are inductive.
LEMMA ControlStep == ControlInv /\ [Next]_vars => ControlInv'
  BY TypeStep, OwnerStep, BatchStep DEF ControlInv

-----------------------------------------------------------------------------
(***************************************************************************)
(* The order of spans.                                                     *)
(***************************************************************************)
\* Spans are taken in the order of their numbers, so that batches never overlap.
LEMMA OrderStep == TypeOK /\ BatchInv /\ OrderInv /\ [Next]_vars => OrderInv'
<1> SUFFICES ASSUME TypeOK, BatchInv, OrderInv, [Next]_vars PROVE OrderInv'
  OBVIOUS
<1>0. /\ queue \in Seq(1 .. MaxSpans) /\ delivered \in Seq(1 .. MaxSpans)
      /\ batch \in Seq(1 .. MaxSpans) /\ Offered \in Nat /\ refused \in Nat
      /\ queue \in Seq(Int) /\ delivered \in Seq(Int) /\ batch \in Seq(Int)
      /\ Len(queue) \in Nat /\ Len(delivered) \in Nat
  <2>1. /\ queue \in Seq(1 .. MaxSpans) /\ delivered \in Seq(1 .. MaxSpans)
        /\ batch \in Seq(1 .. MaxSpans) /\ refused \in Nat
    BY DEF TypeOK, Buffer!TypeOK
  <2>2. Len(queue) \in Nat /\ Len(delivered) \in Nat
    BY <2>1, LenProperties
  <2>3. 1 .. MaxSpans \subseteq Int
    BY ExporterAssumption
  <2>4. queue \in Seq(Int) /\ delivered \in Seq(Int) /\ batch \in Seq(Int)
    BY <2>1, <2>3, SeqMonotonic
  <2>5. Offered \in Nat
    BY <2>1, <2>2 DEF Offered
  <2> QED
    BY <2>1, <2>2, <2>4, <2>5
<1>t. /\ Contents(batch) \subseteq Int /\ Contents(delivered) \subseteq Int
      /\ Contents(queue) \subseteq Int
  BY ContentsType
<1>1. ASSUME UNCHANGED <<queue, delivered>>, batch' = batch \/ batch' = <<>>, refused' >= refused,
             refused' \in Nat
      PROVE  OrderInv'
  <2>1. Offered' >= Offered /\ Offered' \in Nat
    BY <1>0, <1>1 DEF Offered
  <2>2. Increasing(<<>>) /\ Contents(<<>>) = {}
    BY DEF Increasing, Contents
  <2>3. Increasing(batch') /\ Contents(batch') \subseteq Contents(delivered)
    BY <1>1, <2>2 DEF OrderInv
  <2>4. \A x \in Contents(delivered) \cup Contents(queue) : x <= Offered'
    BY <1>0, <1>t, <2>1 DEF OrderInv
  <2> QED
    BY <1>1, <2>3, <2>4 DEF OrderInv
<1>2. CASE Push
  <2>1. CASE refused' = refused + 1 /\ UNCHANGED <<queue, delivered>>
    <3>1. batch' = batch
      BY <1>2, PushFacts DEF worker_vars
    <3> QED
      BY <1>0, <1>1, <2>1, <3>1
  <2>2. CASE /\ Offered + 1 \in 1 .. MaxSpans /\ queue' = Append(queue, Offered + 1)
             /\ UNCHANGED <<delivered, refused>>
    <3>1. Contents(queue') = Contents(queue) \cup {Offered + 1}
      BY <1>0, <2>2, ContentsAppend
    <3>2. Increasing(queue')
      <4>1. \A x \in Contents(queue) : x < Offered + 1
        BY <1>0, <1>t DEF OrderInv
      <4> QED
        BY <1>0, <2>2, <4>1, IncreasingAppend DEF OrderInv
    <3>3. Offered' = Offered + 1
      BY <1>0, <2>2, AppendProperties DEF Offered
    <3>4. \A x \in Contents(delivered), y \in Contents(queue') : x < y
      BY <1>0, <1>t, <3>1 DEF OrderInv
    <3>5. \A x \in Contents(delivered) \cup Contents(queue') : x <= Offered'
      BY <1>0, <1>t, <3>1, <3>3 DEF OrderInv
    <3>6. batch' = batch
      BY <1>2, PushFacts DEF worker_vars
    <3> QED
      BY <2>2, <3>2, <3>4, <3>5, <3>6 DEF OrderInv
  <2> QED
    BY <1>2, <2>1, <2>2, PushFacts
<1>3. CASE TakeOne
  <2> DEFINE h == Head(queue)
  <2>1. /\ queue # <<>> /\ h \in 1 .. MaxSpans /\ queue' = Tail(queue)
        /\ delivered' = Append(delivered, h) /\ batch' = Append(batch, h)
        /\ refused' = refused /\ Len(queue') = Len(queue) - 1 /\ Len(delivered') = Len(delivered) + 1
    BY <1>3, TakeFacts
  <2>2. /\ Increasing(queue') /\ h \in Contents(queue)
        /\ \A x \in Contents(queue') : x \in Contents(queue) /\ h < x
    BY <1>0, <2>1, IncreasingTail DEF OrderInv
  <2> HIDE DEF h
  <2>3. /\ Contents(delivered') = Contents(delivered) \cup {h}
        /\ Contents(batch') = Contents(batch) \cup {h}
    BY <1>0, <2>1, ContentsAppend
  <2>4. Increasing(delivered')
    BY <1>0, <2>1, <2>2, IncreasingAppend DEF OrderInv
  <2>5. Increasing(batch')
    <3>1. \A x \in Contents(batch) : x < h
      BY <2>2 DEF OrderInv
    <3> QED
      BY <1>0, <2>1, <3>1, IncreasingAppend DEF OrderInv
  <2>6. Offered' = Offered
    BY <1>0, <2>1 DEF Offered
  <2>7. \A x \in Contents(delivered'), y \in Contents(queue') : x < y
    BY <2>2, <2>3 DEF OrderInv
  <2>8. \A x \in Contents(delivered') \cup Contents(queue') : x <= Offered'
    BY <2>2, <2>3, <2>6 DEF OrderInv
  <2>9. Contents(batch') \subseteq Contents(delivered')
    BY <2>3 DEF OrderInv
  <2> QED
    BY <2>2, <2>4, <2>5, <2>7, <2>8, <2>9 DEF OrderInv
<1>4. CASE Start \/ MarkRunning \/ Stop \/ Join \/ CheckStop \/ TakeDone \/ Send \/ Retry
           \/ BatchSettled \/ FinalSettled \/ UNCHANGED vars
  <2>1. UNCHANGED buffer_vars /\ (batch' = batch \/ batch' = <<>>)
    BY <1>4 DEF Start, MarkRunning, Stop, Join, CheckStop, TakeDone, Send, SendOk, SendError,
                SendWithoutCurl, Retry, BatchSettled, FinalSettled, vars, worker_vars
  <2> QED
    BY <1>0, <1>1, <2>1 DEF buffer_vars
<1> QED
  BY <1>2, <1>3, <1>4 DEF Next, Work

-----------------------------------------------------------------------------
(***************************************************************************)
(* What the worker's steps do, for the invariants about deliveries.        *)
(***************************************************************************)
\* An attempt: it stores the batch once at most, and what was stored in a failed one is
\* covered by an error counted.
LEMMA SendFacts ==
  ASSUME TypeOK, Send
  PROVE  /\ wpc = "send" /\ wpc' \in Attempted
         /\ wpc' = "pause" => retry < MaxRetries
         /\ UNCHANGED <<buffer_vars, owner_vars, batch, final, retry, abandoned>>
         /\ UNCHANGED <<spans_exported, batches_sent, batches_failed>>
         /\ late_attempts' = late_attempts + IF stop_requested THEN 1 ELSE 0
         /\ http_errors' \in Nat /\ http_errors' >= http_errors
         /\ \A s \in 1 .. MaxSpans :
              \/ received'[s] = received[s]
              \/ s \in Contents(batch) /\ received'[s] = received[s] + 1
         /\ wpc' = "sent" => \A s \in Contents(batch) : received'[s] = received[s] + 1
         /\ wpc' # "sent" => received' = received \/ http_errors' = http_errors + 1
<1>0. /\ received \in [1 .. MaxSpans -> Nat] /\ http_errors \in Nat
      /\ Contents(batch) \subseteq 1 .. MaxSpans
  BY ContentsType DEF TypeOK
<1>1. CASE SendOk
  <2>1. \A s \in 1 .. MaxSpans :
          received'[s] = IF s \in Contents(batch) THEN received[s] + 1 ELSE received[s]
    BY <1>1, CountFacts DEF SendOk
  <2>2. /\ wpc = "send" /\ wpc' = "sent" /\ http_errors' = http_errors
        /\ UNCHANGED <<buffer_vars, owner_vars, batch, final, retry, abandoned>>
        /\ UNCHANGED <<spans_exported, batches_sent, batches_failed>>
        /\ late_attempts' = late_attempts + IF stop_requested THEN 1 ELSE 0
    BY <1>1 DEF SendOk, counters
  <2> QED
    BY <1>0, <2>1, <2>2 DEF Attempted
<1>2. ASSUME NEW stored \in BOOLEAN, SendError(stored)
      PROVE  /\ wpc = "send" /\ wpc' \in {"pause", "failed"} /\ http_errors' = http_errors + 1
             /\ wpc' = "pause" => retry < MaxRetries
             /\ UNCHANGED <<buffer_vars, owner_vars, batch, final, retry, abandoned>>
             /\ UNCHANGED <<spans_exported, batches_sent, batches_failed>>
             /\ late_attempts' = late_attempts + IF stop_requested THEN 1 ELSE 0
             /\ \A s \in 1 .. MaxSpans :
                  \/ received'[s] = received[s]
                  \/ s \in Contents(batch) /\ received'[s] = received[s] + 1
  <2>1. \A s \in 1 .. MaxSpans :
          \/ received'[s] = received[s]
          \/ s \in Contents(batch) /\ received'[s] = received[s] + 1
    BY <1>2, CountFacts DEF SendError
  <2> QED
    BY <1>2, <2>1 DEF SendError, AfterFailure
<1>3. CASE SendWithoutCurl
  BY <1>0, <1>3 DEF SendWithoutCurl, AfterFailure, counters, Attempted
<1> QED
  BY <1>0, <1>1, <1>2, <1>3 DEF Send, Attempted

\* After the last attempt the batch leaves the worker's hands, counted or given up.
LEMMA SettledFacts ==
  ASSUME TypeOK, BatchSettled \/ FinalSettled
  PROVE  /\ wpc \in {"sent", "failed"} /\ batch' = <<>>
         /\ wpc' = IF final THEN "done" ELSE "check"
         /\ UNCHANGED <<buffer_vars, owner_vars, final, retry, received, late_attempts, http_errors>>
         /\ abandoned' = IF wpc = "failed" THEN abandoned \cup Contents(batch) ELSE abandoned
         /\ spans_exported' = IF wpc = "sent" \/ final THEN spans_exported + Len(batch)
                                                       ELSE spans_exported
         /\ batches_failed' = IF wpc = "failed" /\ ~final THEN batches_failed + 1
                                                          ELSE batches_failed
<1>1. CASE BatchSettled
  BY <1>1 DEF BatchSettled
<1>2. CASE FinalSettled
  BY <1>2 DEF FinalSettled
<1> QED
  BY <1>1, <1>2

\* The other steps leave deliveries alone, and the batch too unless it is empty.
LEMMA QuietFacts ==
  ASSUME ControlInv,
         \/ Push \/ Start \/ MarkRunning \/ Stop \/ Join \/ CheckStop \/ TakeDone \/ Retry
         \/ UNCHANGED vars
  PROVE  /\ UNCHANGED <<delivered, received, abandoned, spans_exported, batches_failed, http_errors>>
         /\ batch' = batch
<1>1. CASE Push \/ UNCHANGED vars
  BY <1>1, PushFacts DEF vars, ControlInv, buffer_vars, worker_vars, backend_vars, counters
<1>2. CASE Start
  <2>1. batch = <<>> /\ (batch' = <<>> \/ batch' = batch)
    BY <1>2 DEF Start, ControlInv, OwnerInv, BatchInv, worker_vars
  <2> QED
    BY <1>2, <2>1 DEF Start, buffer_vars, counters
<1>3. CASE MarkRunning \/ Stop \/ Join
  BY <1>3 DEF MarkRunning, Stop, Join, buffer_vars, worker_vars, backend_vars, counters
<1>4. CASE CheckStop \/ TakeDone \/ Retry
  BY <1>4 DEF CheckStop, TakeDone, Retry, buffer_vars, backend_vars, counters
<1> QED
  BY <1>1, <1>2, <1>3, <1>4

\* A span about to be taken has not been taken before.
LEMMA HeadIsNew ==
  ASSUME TypeOK, OrderInv, queue # <<>>
  PROVE  Head(queue) \notin Contents(delivered)
<1>1. queue \in Seq(Int) /\ Contents(delivered) \subseteq Int
  <2>1. queue \in Seq(1 .. MaxSpans) /\ 1 .. MaxSpans \subseteq Int
    BY ExporterAssumption DEF TypeOK, Buffer!TypeOK
  <2> QED
    BY <2>1, SeqMonotonic, ContentsType
<1>2. Head(queue) \in Contents(queue)
  BY <1>1, IncreasingTail DEF OrderInv
<1> QED
  BY <1>1, <1>2 DEF OrderInv

\* Taking a span adds it to what has been handed over and to the batch.
LEMMA TakeContents ==
  ASSUME TypeOK, OrderInv, TakeOne
  PROVE  /\ Contents(delivered') = Contents(delivered) \cup {Head(queue)}
         /\ Contents(batch') = Contents(batch) \cup {Head(queue)}
         /\ Head(queue) \in 1 .. MaxSpans /\ Head(queue) \notin Contents(delivered)
<1>1. /\ Head(queue) \in 1 .. MaxSpans /\ queue # <<>>
      /\ delivered' = Append(delivered, Head(queue)) /\ batch' = Append(batch, Head(queue))
  BY TakeFacts
<1>2. delivered \in Seq(Int) /\ batch \in Seq(Int) /\ Head(queue) \in Int
  <2>1. /\ delivered \in Seq(1 .. MaxSpans) /\ batch \in Seq(1 .. MaxSpans)
        /\ 1 .. MaxSpans \subseteq Int
    BY ExporterAssumption DEF TypeOK, Buffer!TypeOK
  <2> QED
    BY <1>1, <2>1, SeqMonotonic
<1> QED
  BY <1>1, <1>2, ContentsAppend, HeadIsNew

-----------------------------------------------------------------------------
(***************************************************************************)
(* What the backend has stored of the batch.                               *)
(***************************************************************************)
\* An attempt stores a span of the batch once at most, so that the attempts bound it.
LEMMA AttemptStep == ControlInv /\ OrderInv /\ AttemptInv /\ [Next]_vars => AttemptInv'
<1> SUFFICES ASSUME ControlInv, OrderInv, AttemptInv, [Next]_vars PROVE AttemptInv'
  OBVIOUS
<1>0. /\ TypeOK /\ retry \in Nat /\ http_errors \in Nat /\ received \in [1 .. MaxSpans -> Nat]
      /\ Contents(batch) \subseteq 1 .. MaxSpans
      /\ Contents(batch) \subseteq Contents(delivered)
  BY ContentsType DEF ControlInv, TypeOK, OrderInv
<1>n. Contents(<<>>) = {}
  BY DEF Contents
<1>1. ASSUME UNCHANGED <<delivered, received, http_errors>>,
             batch' = <<>> \/ (batch' = batch /\ wpc' = wpc /\ retry' = retry)
      PROVE  AttemptInv'
  <2>1. CASE batch' = <<>>
    BY <1>n, <1>1, <2>1 DEF AttemptInv
  <2>2. CASE batch' = batch /\ wpc' = wpc /\ retry' = retry
    BY <1>1, <2>2 DEF AttemptInv
  <2> QED
    BY <1>1, <2>1, <2>2
<1>2. CASE Push \/ UNCHANGED vars
  <2>1. UNCHANGED worker_vars
    BY <1>2 DEF Push, vars
  <2> QED
    BY <1>1, <1>2, <2>1, QuietFacts DEF worker_vars
<1>3. CASE Start
  <2>1. batch = <<>>
    BY <1>3 DEF Start, ControlInv, OwnerInv, BatchInv
  <2> QED
    BY <1>1, <1>3, <2>1, QuietFacts
<1>4. CASE MarkRunning \/ Stop
  <2>1. UNCHANGED worker_vars
    BY <1>4 DEF MarkRunning, Stop
  <2> QED
    BY <1>1, <1>4, <2>1, QuietFacts DEF worker_vars
<1>5. CASE Join \/ CheckStop
  <2>1. batch = <<>>
    BY <1>5 DEF Join, CheckStop, ControlInv, BatchInv
  <2> QED
    BY <1>1, <1>5, <2>1, QuietFacts
<1>6. CASE TakeOne
  <2>1. wpc = "take" /\ wpc' = "take" /\ received' = received
    BY <1>0, <1>6, TakeFacts DEF backend_vars
  <2>2. received[Head(queue)] = 0
    BY <1>0, <1>6, TakeContents DEF AttemptInv
  <2>3. \A s \in 1 .. MaxSpans : s \notin Contents(delivered') => received'[s] = 0
    BY <1>0, <1>6, <2>1, TakeContents DEF AttemptInv
  <2>4. \A s \in Contents(batch') : received'[s] = 0
    BY <1>0, <1>6, <2>1, <2>2, TakeContents DEF AttemptInv
  <2> QED
    BY <2>1, <2>3, <2>4 DEF AttemptInv, Attempted
<1>7. CASE TakeDone
  <2>1. /\ UNCHANGED <<delivered, received, http_errors, batch>> /\ retry' = 0
        /\ wpc = "take" /\ (wpc' = "send" \/ batch = <<>>)
    BY <1>7, QuietFacts DEF TakeDone
  <2>2. CASE batch = <<>>
    BY <1>1, <2>1, <2>2
  <2>3. CASE wpc' = "send"
    <3>1. \A s \in Contents(batch) : received[s] <= 0 /\ received[s] <= http_errors
      BY <1>0, <2>1 DEF AttemptInv
    <3> QED
      BY <2>1, <2>3, <3>1 DEF AttemptInv, Attempted
  <2> QED
    BY <2>1, <2>2, <2>3
<1>8. CASE Send
  <2>1. /\ wpc = "send" /\ wpc' \in Attempted /\ UNCHANGED <<delivered, batch, retry>>
        /\ http_errors' \in Nat /\ http_errors' >= http_errors
        /\ wpc' # "sent" => received' = received \/ http_errors' = http_errors + 1
    BY <1>0, <1>8, SendFacts DEF buffer_vars
  <2>2. \A s \in 1 .. MaxSpans :
          \/ received'[s] = received[s]
          \/ s \in Contents(batch) /\ received'[s] = received[s] + 1
    BY <1>0, <1>8, SendFacts
  <2>3. \A s \in 1 .. MaxSpans : s \notin Contents(delivered') => received'[s] = 0
    BY <1>0, <2>1, <2>2 DEF AttemptInv
  <2>4. ASSUME NEW s \in Contents(batch)
        PROVE  received[s] \in Nat /\ received[s] <= retry /\ received[s] <= http_errors
    BY <1>0, <2>1 DEF AttemptInv
  <2>5. ASSUME NEW s \in Contents(batch) PROVE received'[s] <= retry + 1
    BY <1>0, <2>2, <2>4
  <2>6. ASSUME NEW s \in Contents(batch), wpc' # "sent" PROVE received'[s] <= http_errors'
    <3>1. received'[s] = received[s] \/ http_errors' = http_errors + 1
      BY <2>1, <2>6
    <3>2. received'[s] = received[s] \/ received'[s] = received[s] + 1
      BY <1>0, <2>2
    <3> QED
      BY <1>0, <2>1, <2>4, <3>1, <3>2
  <2>7. ASSUME NEW s \in Contents(batch), wpc' = "sent" PROVE received'[s] > 0
    <3>1. received'[s] = received[s] + 1
      BY <1>0, <1>8, <2>7, SendFacts
    <3> QED
      BY <2>4, <3>1
  <2>8. \A s \in Contents(batch') :
          /\ wpc' = "take" => received'[s] = 0
          /\ wpc' = "send" => received'[s] <= retry' /\ received'[s] <= http_errors'
          /\ wpc' \in Attempted => received'[s] <= retry' + 1
          /\ wpc' \in {"pause", "failed"} => received'[s] <= http_errors'
          /\ wpc' = "sent" => received'[s] > 0
    BY <2>1, <2>5, <2>6, <2>7 DEF Attempted
  <2> QED
    BY <2>3, <2>8 DEF AttemptInv
<1>9. CASE Retry
  <2>1. /\ UNCHANGED <<delivered, received, http_errors, batch>> /\ retry' = retry + 1
        /\ wpc = "pause" /\ wpc' = "send"
    BY <1>9, QuietFacts DEF Retry
  <2>2. \A s \in Contents(batch) : received[s] <= retry + 1 /\ received[s] <= http_errors
    BY <2>1 DEF AttemptInv, Attempted
  <2> QED
    BY <2>1, <2>2 DEF AttemptInv, Attempted
<1>10. CASE BatchSettled \/ FinalSettled
  BY <1>0, <1>1, <1>10, SettledFacts DEF buffer_vars
<1> QED
  BY <1>2, <1>3, <1>4, <1>5, <1>6, <1>7, <1>8, <1>9, <1>10 DEF Next, Work

\* No span is stored more often than there are attempts, nor without errors more than once.
LEMMA DuplicatesStep ==
  ControlInv /\ AttemptInv /\ DuplicatesAreBounded /\ [Next]_vars => DuplicatesAreBounded'
<1> SUFFICES ASSUME ControlInv, AttemptInv, DuplicatesAreBounded, [Next]_vars,
                    NEW s \in 1 .. MaxSpans
             PROVE  received'[s] <= MaxRetries + 1 /\ received'[s] <= http_errors' + 1
  BY DEF DuplicatesAreBounded
<1>0. /\ TypeOK /\ retry \in Nat /\ http_errors \in Nat /\ received[s] \in Nat /\ MaxRetries \in Nat
      /\ retry <= MaxRetries /\ received[s] <= MaxRetries + 1 /\ received[s] <= http_errors + 1
  BY ExporterAssumption DEF ControlInv, BatchInv, TypeOK, DuplicatesAreBounded
<1>1. CASE Send
  <2>1. wpc = "send" /\ http_errors' \in Nat /\ http_errors' >= http_errors
    BY <1>0, <1>1, SendFacts
  <2>2. CASE received'[s] = received[s]
    BY <1>0, <2>1, <2>2
  <2>3. CASE s \in Contents(batch) /\ received'[s] = received[s] + 1
    <3>1. received[s] <= retry /\ received[s] <= http_errors
      BY <2>1, <2>3 DEF AttemptInv
    <3> QED
      BY <1>0, <2>1, <2>3, <3>1
  <2> QED
    BY <1>0, <1>1, <2>2, <2>3, SendFacts
<1>2. CASE TakeOne
  BY <1>0, <1>2, TakeFacts DEF backend_vars, counters
<1>3. CASE BatchSettled \/ FinalSettled
  BY <1>0, <1>3, SettledFacts
<1>4. CASE \/ Push \/ Start \/ MarkRunning \/ Stop \/ Join \/ CheckStop \/ TakeDone \/ Retry
           \/ UNCHANGED vars
  BY <1>0, <1>4, QuietFacts
<1> QED
  BY <1>1, <1>2, <1>3, <1>4 DEF Next, Work

\* A span leaves the worker's hands stored or given up, and neither is ever undone.
LEMMA NothingVanishesStep ==
  ControlInv /\ OrderInv /\ AttemptInv /\ NothingVanishes /\ [Next]_vars => NothingVanishes'
<1> SUFFICES ASSUME ControlInv, OrderInv, AttemptInv, NothingVanishes, [Next]_vars,
                    NEW s \in Contents(delivered')
             PROVE  received'[s] > 0 \/ s \in abandoned' \cup Contents(batch')
  BY DEF NothingVanishes
<1>0. /\ TypeOK /\ received \in [1 .. MaxSpans -> Nat] /\ Contents(delivered) \subseteq 1 .. MaxSpans
      /\ s \in Contents(delivered) => received[s] > 0 \/ s \in abandoned \cup Contents(batch)
  BY ContentsType DEF ControlInv, TypeOK, NothingVanishes
<1>1. CASE Send
  <2>1. s \in Contents(delivered) /\ abandoned' = abandoned /\ batch' = batch
    BY <1>0, <1>1, SendFacts DEF buffer_vars
  <2>2. received'[s] = received[s] \/ received'[s] = received[s] + 1
    BY <1>0, <1>1, <2>1, SendFacts
  <2>3. received[s] > 0 => received'[s] > 0
    BY <1>0, <2>1, <2>2
  <2> QED
    BY <1>0, <2>1, <2>3
<1>2. CASE TakeOne
  <2>1. received' = received /\ abandoned' = abandoned
    BY <1>0, <1>2, TakeFacts DEF backend_vars
  <2> QED
    BY <1>0, <1>2, <2>1, TakeContents
<1>3. CASE BatchSettled \/ FinalSettled
  <2>1. /\ s \in Contents(delivered) /\ received' = received /\ abandoned \subseteq abandoned'
        /\ wpc \in {"sent", "failed"} /\ (wpc = "failed" => Contents(batch) \subseteq abandoned')
    BY <1>0, <1>3, SettledFacts DEF buffer_vars
  <2>2. wpc = "sent" /\ s \in Contents(batch) => received[s] > 0
    BY DEF AttemptInv
  <2> QED
    BY <1>0, <2>1, <2>2
<1>4. CASE \/ Push \/ Start \/ MarkRunning \/ Stop \/ Join \/ CheckStop \/ TakeDone \/ Retry
           \/ UNCHANGED vars
  BY <1>0, <1>4, QuietFacts
<1> QED
  BY <1>1, <1>2, <1>3, <1>4 DEF Next, Work

-----------------------------------------------------------------------------
(***************************************************************************)
(* Stopping.                                                               *)
(***************************************************************************)
\* What the buffer held when stop() was called is taken before the worker ends.
LEMMA FlushStep == ControlInv /\ FlushInv /\ [Next]_vars => FlushInv'
<1> SUFFICES ASSUME ControlInv, FlushInv, [Next]_vars PROVE FlushInv'
  OBVIOUS
<1>0. /\ TypeOK /\ Len(delivered) \in Nat /\ Len(queue) \in Nat /\ flush_to \in Nat
      /\ flush_to <= Len(delivered) + Len(queue) /\ Len(<<>>) = 0 /\ final \in BOOLEAN
  BY LenProperties DEF ControlInv, TypeOK, Buffer!TypeOK, FlushInv
<1> DEFINE Over == wpc = "none" \/ (final /\ wpc \in Sending \cup {"done"})
<1>i. Over => flush_to <= Len(delivered)
  BY DEF FlushInv
<1>j. FlushInv' <=> /\ flush_to' <= Len(delivered') + Len(queue')
                    /\ Over' => flush_to' <= Len(delivered')
  BY DEF FlushInv
<1>1. CASE Push
  <2>1. flush_to' = flush_to /\ delivered' = delivered /\ wpc' = wpc /\ final' = final
    BY <1>0, <1>1, PushFacts DEF owner_vars, worker_vars
  <2>2. Len(queue') \in Nat /\ Len(queue') >= Len(queue)
    <3>1. CASE queue' = Append(queue, Offered + 1)
      <4>1. Len(queue') = Len(queue) + 1
        BY <1>0, <1>1, <3>1, PushFacts, AppendProperties DEF TypeOK, Buffer!TypeOK
      <4> QED
        BY <1>0, <4>1
    <3> QED
      BY <1>0, <1>1, <3>1, PushFacts
  <2>3. flush_to' <= Len(delivered') + Len(queue')
    BY <1>0, <2>1, <2>2
  <2> QED
    BY <1>i, <1>j, <2>1, <2>3
<1>2. CASE TakeOne
  <2>1. /\ flush_to' = flush_to /\ wpc' = "take"
        /\ Len(delivered') = Len(delivered) + 1 /\ Len(queue') = Len(queue) - 1
    BY <1>0, <1>2, TakeFacts DEF owner_vars
  <2>2. flush_to' <= Len(delivered') + Len(queue')
    BY <1>0, <2>1
  <2>3. ~Over'
    BY <2>1 DEF Sending
  <2> QED
    BY <1>j, <2>2, <2>3
<1>3. CASE Stop
  <2>1. /\ flush_to' = Len(delivered') + Len(queue') /\ wpc' = wpc /\ final' = final
        /\ opc = "idle" /\ running
    BY <1>3 DEF Stop, buffer_vars, worker_vars
  <2>2. ~Over'
    BY <2>1 DEF ControlInv, OwnerInv, BatchInv, AtWork
  <2>3. flush_to' <= Len(delivered') + Len(queue')
    BY <1>0, <1>3, <2>1 DEF Stop, buffer_vars
  <2> QED
    BY <1>j, <2>2, <2>3
<1>4. ASSUME UNCHANGED <<delivered, queue, flush_to>>, Over' => Over \/ flush_to <= Len(delivered)
      PROVE  FlushInv'
  BY <1>0, <1>i, <1>j, <1>4
<1>5. CASE Start
  <2>1. /\ UNCHANGED <<delivered, queue, flush_to>>
        /\ (wpc' = "check" /\ ~final') \/ (wpc' = wpc /\ final' = final)
    BY <1>5 DEF Start, buffer_vars, worker_vars
  <2> QED
    BY <1>4, <2>1 DEF Sending
<1>6. CASE MarkRunning \/ UNCHANGED vars
  <2>1. UNCHANGED <<delivered, queue, flush_to, wpc, final>>
    BY <1>6 DEF MarkRunning, buffer_vars, owner_vars, worker_vars, vars
  <2> QED
    BY <1>4, <2>1
<1>7. CASE Join
  <2>1. UNCHANGED <<delivered, queue, flush_to>> /\ wpc = "done"
    BY <1>7 DEF Join, buffer_vars
  <2>2. Over
    BY <2>1 DEF ControlInv, BatchInv
  <2> QED
    BY <1>4, <2>1, <2>2
<1>8. CASE CheckStop
  <2>1. UNCHANGED <<delivered, queue, flush_to>> /\ wpc' = "take"
    BY <1>8 DEF CheckStop, buffer_vars, owner_vars
  <2> QED
    BY <1>4, <2>1 DEF Sending
<1>9. CASE TakeDone
  <2>1. /\ UNCHANGED <<delivered, queue, flush_to, final>> /\ wpc' # "none"
        /\ final => queue = <<>>
    BY <1>9 DEF TakeDone, RoomInBatch, buffer_vars, owner_vars
  <2>2. queue = <<>> => flush_to <= Len(delivered)
    <3>1. queue = <<>> => Len(queue) = 0
      BY <1>0
    <3> QED
      BY <1>0, <3>1
  <2> QED
    BY <1>4, <2>1, <2>2
<1>10. CASE Send
  <2>1. UNCHANGED <<delivered, queue, flush_to, final>> /\ wpc = "send" /\ wpc' \in Attempted
    BY <1>0, <1>10, SendFacts DEF buffer_vars, owner_vars
  <2> QED
    BY <1>4, <2>1 DEF Sending, Attempted
<1>11. CASE Retry
  <2>1. UNCHANGED <<delivered, queue, flush_to, final>> /\ wpc = "pause" /\ wpc' = "send"
    BY <1>11 DEF Retry, buffer_vars, owner_vars
  <2> QED
    BY <1>4, <2>1 DEF Sending
<1>12. CASE BatchSettled \/ FinalSettled
  <2>1. /\ UNCHANGED <<delivered, queue, flush_to, final>> /\ wpc \in {"sent", "failed"}
        /\ wpc' = IF final THEN "done" ELSE "check"
    BY <1>0, <1>12, SettledFacts DEF buffer_vars, owner_vars
  <2> QED
    BY <1>4, <2>1 DEF Sending
<1> QED
  BY <1>1, <1>2, <1>3, <1>5, <1>6, <1>7, <1>8, <1>9, <1>10, <1>11, <1>12 DEF Next, Work

\* No attempt is within every limit.
LEMMA NoAttempt ==
  ASSUME NEW a \in Nat, NEW r \in Nat
  PROVE  /\ 0 <= 2 * a /\ 0 <= r + 1 /\ 0 <= a
         /\ 0 <= a + r /\ 0 <= a + r + 1
  OBVIOUS

\* After stop() the batch under way and the final one are all there is to attempt.
LEMMA LateStep == ControlInv /\ LateInv /\ [Next]_vars => LateInv'
<1> SUFFICES ASSUME ControlInv, LateInv, [Next]_vars PROVE LateInv'
  OBVIOUS
<1>0. /\ TypeOK /\ retry \in Nat /\ late_attempts \in Nat /\ Attempts \in Nat /\ MaxRetries \in Nat
      /\ Attempts = MaxRetries + 1 /\ retry <= MaxRetries /\ late_attempts <= 2 * Attempts
      /\ final \in BOOLEAN /\ stop_requested \in BOOLEAN
  BY ExporterAssumption DEF ControlInv, TypeOK, BatchInv, LateInv, Attempts
<1>1. ASSUME UNCHANGED <<late_attempts, final, retry, wpc>>, AtWork => stop_requested' \/ ~stop_requested
      PROVE  LateInv'
  BY <1>1 DEF LateInv, AtWork
<1>2. CASE Push \/ MarkRunning \/ Stop \/ UNCHANGED vars
  <2>1. UNCHANGED <<late_attempts, final, retry, wpc>>
    BY <1>2 DEF Push, MarkRunning, Stop, vars, worker_vars, backend_vars
  <2>2. stop_requested' \/ ~stop_requested
    <3>1. stop_requested' = TRUE \/ stop_requested' = stop_requested
      BY <1>2 DEF Push, MarkRunning, Stop, vars, owner_vars
    <3> QED
      BY <3>1
  <2> QED
    BY <1>1, <2>1, <2>2
<1>3. ASSUME late_attempts' = 0, retry' \in Nat PROVE LateInv'
  <2>0. late_attempts' = 0
    BY <1>3
  <2>1. retry' \in Nat
    BY <1>3
  <2>2. 0 <= retry'
    BY <2>1
  <2>3. /\ 0 <= 2 * Attempts /\ 0 <= retry' + 1 /\ 0 <= Attempts
        /\ 0 <= Attempts + retry' /\ 0 <= Attempts + retry' + 1
    BY <1>0, <2>1, NoAttempt
  <2> QED
    BY <2>0, <2>2, <2>3 DEF LateInv
<1>4. CASE Start
  <2>1. late_attempts' = 0 /\ (retry' = 0 \/ retry' = retry)
    BY <1>4 DEF Start, worker_vars
  <2> QED
    BY <1>0, <1>3, <2>1
<1>5. CASE Join
  <2>1. wpc' = "none" /\ late_attempts' = late_attempts
    BY <1>5 DEF Join, backend_vars
  <2> QED
    BY <1>0, <2>1 DEF LateInv, AtWork
<1>6. CASE CheckStop
  <2>1. /\ wpc = "check" /\ wpc' = "take" /\ late_attempts' = late_attempts
        /\ retry' = retry /\ stop_requested' = stop_requested
        /\ ~final /\ (final' <=> stop_requested)
    BY <1>6 DEF CheckStop, StopNow, backend_vars, owner_vars, ControlInv, BatchInv, AtWork
  <2>2. CASE stop_requested
    <3>1. late_attempts <= Attempts
      BY <2>1 DEF LateInv, AtWork
    <3> QED
      BY <1>0, <2>1, <2>2, <3>1 DEF LateInv, AtWork, Attempted
  <2>3. CASE ~stop_requested
    <3>1. late_attempts = 0
      BY <2>1, <2>3 DEF LateInv, AtWork
    <3> QED
      BY <1>0, <1>3, <2>1, <3>1
  <2> QED
    BY <2>2, <2>3
<1>7. CASE TakeOne
  <2>1. UNCHANGED <<late_attempts, final, retry, wpc>> /\ stop_requested' = stop_requested
    BY <1>0, <1>7, TakeFacts DEF owner_vars, backend_vars
  <2> QED
    BY <1>1, <2>1
<1>8. CASE TakeDone
  <2>1. /\ wpc = "take" /\ late_attempts' = late_attempts /\ retry' = 0 /\ final' = final
        /\ stop_requested' = stop_requested
        /\ wpc' \in {"send", "done", "check"} /\ (wpc' = "check" => ~final)
    BY <1>8 DEF TakeDone, backend_vars, owner_vars
  <2>2. CASE final
    <3>1. late_attempts <= Attempts /\ (~stop_requested => late_attempts = 0)
      BY <2>1, <2>2 DEF LateInv, AtWork
    <3> QED
      BY <1>0, <2>1, <2>2, <3>1 DEF LateInv, AtWork, Attempted
  <2>3. CASE ~final
    <3>1. late_attempts = 0
      BY <2>1, <2>3 DEF LateInv, AtWork
    <3> QED
      BY <1>3, <2>1, <3>1
  <2> QED
    BY <2>2, <2>3
<1>9. CASE Send
  <2>1. /\ wpc = "send" /\ wpc' \in Attempted /\ UNCHANGED <<final, retry, stop_requested>>
        /\ late_attempts' = late_attempts + IF stop_requested THEN 1 ELSE 0
    BY <1>0, <1>9, SendFacts DEF owner_vars
  <2>2. late_attempts' \in Nat /\ late_attempts' <= late_attempts + 1
    BY <1>0, <2>1
  <2>3. ~stop_requested' => late_attempts' = 0
    BY <1>0, <2>1 DEF LateInv, AtWork
  <2>4. CASE final
    <3>1. late_attempts <= Attempts + retry
      BY <2>1, <2>4 DEF LateInv, AtWork
    <3>2. late_attempts' <= Attempts + retry' + 1 /\ late_attempts' <= 2 * Attempts
      BY <1>0, <2>1, <2>2, <3>1
    <3> QED
      BY <2>1, <2>3, <2>4, <3>2 DEF LateInv, AtWork, Attempted
  <2>5. CASE ~final
    <3>1. late_attempts <= retry
      BY <2>1, <2>5 DEF LateInv, AtWork
    <3>2. /\ late_attempts' <= retry' + 1 /\ late_attempts' <= Attempts
          /\ late_attempts' <= 2 * Attempts
      BY <1>0, <2>1, <2>2, <3>1
    <3> QED
      BY <2>1, <2>3, <2>5, <3>2 DEF LateInv, AtWork, Attempted
  <2> QED
    BY <2>4, <2>5
<1>10. CASE Retry
  <2>1. /\ wpc = "pause" /\ wpc' = "send" /\ late_attempts' = late_attempts
        /\ final' = final /\ stop_requested' = stop_requested /\ retry' = retry + 1
    BY <1>10 DEF Retry, backend_vars, owner_vars
  <2>2. ~stop_requested' => late_attempts' = 0
    BY <2>1 DEF LateInv, AtWork
  <2>3. CASE final
    <3>1. late_attempts' <= Attempts + retry'
      <4>1. late_attempts <= Attempts + retry + 1
        BY <2>1, <2>3 DEF LateInv, AtWork, Attempted
      <4> QED
        BY <1>0, <2>1, <4>1
    <3> QED
      BY <1>0, <2>1, <2>2, <2>3, <3>1 DEF LateInv, AtWork, Attempted
  <2>4. CASE ~final
    <3>1. late_attempts' <= retry' /\ late_attempts' <= Attempts
      BY <2>1, <2>4 DEF LateInv, AtWork, Attempted
    <3> QED
      BY <1>0, <2>1, <2>2, <2>4, <3>1 DEF LateInv, AtWork, Attempted
  <2> QED
    BY <2>3, <2>4
<1>11. CASE BatchSettled \/ FinalSettled
  <2>1. /\ wpc \in {"sent", "failed"} /\ wpc' = IF final THEN "done" ELSE "check"
        /\ UNCHANGED <<late_attempts, final, retry, stop_requested>>
    BY <1>0, <1>11, SettledFacts DEF owner_vars
  <2> QED
    BY <1>0, <2>1 DEF LateInv, AtWork, Attempted
<1> QED
  BY <1>2, <1>4, <1>5, <1>6, <1>7, <1>8, <1>9, <1>10, <1>11 DEF Next, Work

-----------------------------------------------------------------------------
(***************************************************************************)
(* Counters.                                                               *)
(***************************************************************************)
\* A finite set of spans, and parts of it.
LEMMA SpanSets ==
  /\ IsFiniteSet(Stored) /\ Cardinality(Stored) \in Nat
  /\ \A S \in SUBSET Stored :
       /\ IsFiniteSet(S) /\ Cardinality(S) \in Nat /\ Cardinality(S) <= Cardinality(Stored)
       /\ Cardinality(Stored) = Cardinality(Stored \ S) + Cardinality(S)
<1>1. IsFiniteSet(1 .. MaxSpans)
  BY FS_Interval, ExporterAssumption
<1>2. IsFiniteSet(Stored)
  BY <1>1, FS_Subset DEF Stored
<1> HIDE DEF Stored
<1>3. ASSUME NEW S \in SUBSET Stored
      PROVE  /\ IsFiniteSet(S) /\ Cardinality(S) \in Nat /\ Cardinality(S) <= Cardinality(Stored)
             /\ Cardinality(Stored) = Cardinality(Stored \ S) + Cardinality(S)
  <2>1. IsFiniteSet(S) /\ Cardinality(S) <= Cardinality(Stored)
    BY <1>2, FS_Subset
  <2>2. IsFiniteSet(Stored \ S)
    BY <1>2, FS_Difference
  <2>3. /\ Cardinality(S) \in Nat /\ Cardinality(Stored \ S) \in Nat
    BY <2>1, <2>2, FS_CardinalityType
  <2>4. (Stored \ S) \cup S = Stored /\ (Stored \ S) \cap S = {}
    OBVIOUS
  <2>5. Cardinality((Stored \ S) \cup S) =
          Cardinality(Stored \ S) + Cardinality(S) - Cardinality((Stored \ S) \cap S)
    BY <2>1, <2>2, FS_Union
  <2>6. Cardinality({}) = 0
    BY FS_EmptySet
  <2>7. Cardinality(Stored) = Cardinality(Stored \ S) + Cardinality(S) - 0
    BY <2>4, <2>5, <2>6, Zenon
  <2> QED
    BY <2>1, <2>3, <2>7
<1> QED
  BY <1>2, <1>3, FS_CardinalityType

\* The batch's length is the number of spans in it.
LEMMA BatchCount ==
  ASSUME TypeOK, OrderInv
  PROVE  Cardinality(Contents(batch)) = Len(batch)
<1>1. batch \in Seq(Int)
  <2>1. batch \in Seq(1 .. MaxSpans) /\ 1 .. MaxSpans \subseteq Int
    BY ExporterAssumption DEF TypeOK
  <2> QED
    BY <2>1, SeqMonotonic
<1> QED
  BY <1>1, IncreasingCount DEF OrderInv

\* The first worker counts a batch as exported after the backend has stored it.
LEMMA StoredStep == ControlInv /\ OrderInv /\ AttemptInv /\ StoredInv /\ [Next]_vars => StoredInv'
<1> SUFFICES ASSUME ControlInv, OrderInv, AttemptInv, StoredInv, [Next]_vars PROVE StoredInv'
  OBVIOUS
<1> DEFINE Kept == Cardinality(Stored \ Contents(batch))
<1> DEFINE Loop == starts = 1 /\ AtWork /\ ~final
<1>0. /\ TypeOK /\ spans_exported \in Nat /\ starts \in Nat /\ Len(batch) \in Nat
      /\ received \in [1 .. MaxSpans -> Nat] /\ Contents(batch) \subseteq 1 .. MaxSpans
  BY LenProperties, ContentsType DEF ControlInv, TypeOK
<1>k. Kept \in Nat
  <2>1. Stored \ Contents(batch) \in SUBSET Stored
    OBVIOUS
  <2> QED
    BY <2>1, SpanSets
<1>i. /\ starts = 0 => spans_exported = 0 /\ wpc = "none"
      /\ Loop => spans_exported <= Kept
  BY DEF StoredInv
<1>1. ASSUME UNCHANGED <<starts, spans_exported>>, wpc # "none",
             AtWork' /\ ~final' => ~final, (Stored \ Contents(batch))' = Stored \ Contents(batch)
      PROVE  StoredInv'
  <2>1. starts' # 0
    BY <1>1, <1>i
  <2>2. Loop' => Loop
    BY <1>1 DEF AtWork
  <2>3. Kept' = Kept
    BY <1>1
  <2> QED
    BY <1>1, <1>i, <2>1, <2>2, <2>3 DEF StoredInv
<1>2. CASE Push \/ MarkRunning \/ Stop \/ UNCHANGED vars
  <2>1. UNCHANGED <<starts, spans_exported, wpc, final, batch, received>>
    BY <1>2 DEF Push, MarkRunning, Stop, vars, owner_vars, worker_vars, backend_vars, counters
  <2> QED
    BY <2>1 DEF StoredInv, AtWork, Stored
<1>3. CASE Start
  <2>1. /\ starts' = starts + 1 /\ spans_exported' = spans_exported /\ batch' = batch
        /\ received' = received
    BY <1>3, QuietFacts DEF Start
  <2>2. starts' # 0 /\ (starts' = 1 => spans_exported' = 0)
    BY <1>0, <1>i, <2>1
  <2>3. Kept' = Kept
    BY <2>1 DEF Stored
  <2>4. starts' = 1 => spans_exported' <= Kept'
    BY <1>k, <2>2, <2>3
  <2> QED
    BY <2>2, <2>4 DEF StoredInv
<1>4. CASE Join
  <2>1. /\ UNCHANGED <<starts, spans_exported, batch, received>> /\ wpc = "done" /\ wpc' = "none"
    BY <1>4, QuietFacts DEF Join
  <2> QED
    BY <1>1, <2>1 DEF AtWork, Stored
<1>5. CASE CheckStop
  <2>1. /\ UNCHANGED <<starts, spans_exported, batch, received>> /\ wpc = "check" /\ ~final
    BY <1>5, QuietFacts DEF CheckStop, owner_vars, ControlInv, BatchInv, AtWork
  <2> QED
    BY <1>1, <2>1 DEF Stored
<1>6. CASE TakeOne
  <2>1. /\ UNCHANGED <<starts, spans_exported, received, final>> /\ wpc = "take"
    BY <1>0, <1>6, TakeFacts DEF owner_vars, backend_vars, counters
  <2>2. received[Head(queue)] = 0
    BY <1>0, <1>6, TakeContents DEF AttemptInv
  <2>3. Head(queue) \notin Stored /\ Stored' = Stored
    BY <2>1, <2>2 DEF Stored
  <2>4. (Stored \ Contents(batch))' = Stored \ Contents(batch)
    BY <1>0, <1>6, <2>3, TakeContents
  <2> QED
    BY <1>1, <2>1, <2>4
<1>7. CASE TakeDone \/ Retry
  <2>1. /\ UNCHANGED <<starts, spans_exported, batch, received, final>> /\ wpc # "none"
    BY <1>7, QuietFacts DEF TakeDone, Retry, owner_vars
  <2> QED
    BY <1>1, <2>1 DEF Stored
<1>8. CASE Send
  <2>1. /\ UNCHANGED <<starts, spans_exported, batch, final>> /\ wpc = "send"
    BY <1>0, <1>8, SendFacts DEF owner_vars
  <2>2. ASSUME NEW s \in 1 .. MaxSpans, s \notin Contents(batch) PROVE received'[s] = received[s]
    BY <1>0, <1>8, <2>2, SendFacts
  <2>3. (Stored \ Contents(batch))' = Stored \ Contents(batch)
    BY <2>1, <2>2 DEF Stored
  <2> QED
    BY <1>1, <2>1, <2>3
<1>9. CASE BatchSettled \/ FinalSettled
  <2>1. /\ UNCHANGED <<starts, received, final>> /\ wpc \in {"sent", "failed"} /\ batch' = <<>>
        /\ final \/ wpc = "sent" \/ spans_exported' = spans_exported
        /\ ~final /\ wpc = "sent" => spans_exported' = spans_exported + Len(batch)
    BY <1>0, <1>9, SettledFacts DEF owner_vars
  <2>2. starts' # 0 /\ (Loop' => Loop)
    BY <1>i, <2>1 DEF AtWork
  <2>3. Kept' = Cardinality(Stored)
    <3>1. Contents(<<>>) = {} /\ Stored' = Stored
      BY <2>1 DEF Contents, Stored
    <3>2. (Stored \ Contents(batch))' = Stored
      BY <2>1, <3>1
    <3> QED
      BY <3>2
  <2>4. CASE final
    BY <2>1, <2>2, <2>4 DEF StoredInv
  <2>5. CASE wpc = "sent" /\ ~final
    <3>1. Contents(batch) \in SUBSET Stored
      BY <1>0, <2>5 DEF AttemptInv, Stored
    <3>2. Cardinality(Stored) = Kept + Len(batch)
      BY <1>0, <3>1, SpanSets, BatchCount
    <3>3. Loop => spans_exported' <= Cardinality(Stored)
      BY <1>0, <1>i, <1>k, <2>1, <2>5, <3>2
    <3> QED
      BY <2>2, <2>3, <3>3 DEF StoredInv
  <2>6. CASE wpc = "failed" /\ ~final
    <3>1. Kept <= Cardinality(Stored) /\ Cardinality(Stored) \in Nat
      BY SpanSets
    <3>2. Loop => spans_exported' <= Cardinality(Stored)
      BY <1>0, <1>i, <1>k, <2>1, <2>6, <3>1
    <3> QED
      BY <2>2, <2>3, <3>2 DEF StoredInv
  <2> QED
    BY <2>1, <2>4, <2>5, <2>6
<1> QED
  BY <1>2, <1>3, <1>4, <1>5, <1>6, <1>7, <1>8, <1>9 DEF Next, Work

\* Room for one more failed batch.
LEMMA OneMoreBatch ==
  ASSUME NEW b \in Nat, NEW n \in Nat
  PROVE  b * n \in Nat /\ (b + 1) * n = b * n + n
  OBVIOUS

\* A batch in the loop is counted as exported or as failed, one in the final drain as exported.
LEMMA CountersStep == ControlInv /\ CountersCoverSpans /\ [Next]_vars => CountersCoverSpans'
<1> SUFFICES ASSUME ControlInv, CountersCoverSpans, [Next]_vars PROVE CountersCoverSpans'
  OBVIOUS
<1> DEFINE D == Len(delivered)
           B == Len(batch)
           E == spans_exported
           F == batches_failed * BatchSize
           I == 0 <= D - B - E /\ D - B - E <= F
<1>0. /\ TypeOK /\ D \in Nat /\ B \in Nat /\ E \in Nat
      /\ batches_failed \in Nat /\ BatchSize \in Nat
  BY LenProperties, ExporterAssumption DEF ControlInv, TypeOK, Buffer!TypeOK
<1>f. F \in Nat
  BY <1>0, OneMoreBatch
<1>i. I
  BY DEF CountersCoverSpans
<1>j. I' <=> CountersCoverSpans'
  BY DEF CountersCoverSpans
<1>1. ASSUME D' - B' - E' = D - B - E, F' = F PROVE CountersCoverSpans'
  BY <1>1, <1>i, <1>j
<1>2. CASE Send
  <2>1. UNCHANGED <<delivered, batch, spans_exported, batches_failed>>
    BY <1>0, <1>2, SendFacts DEF buffer_vars
  <2> QED
    BY <1>1, <2>1
<1>3. CASE TakeOne
  <2>1. D' = D + 1 /\ B' = B + 1 /\ E' = E /\ batches_failed' = batches_failed
    BY <1>0, <1>3, TakeFacts DEF counters
  <2>2. D' - B' - E' = D - B - E
    <3> HIDE DEF D, B, E
    <3> QED
      BY <1>0, <2>1
  <2> QED
    BY <1>1, <2>1, <2>2
<1>4. CASE BatchSettled \/ FinalSettled
  <2>1. /\ wpc \in {"sent", "failed"} /\ D' = D /\ B' = 0
        /\ E' = IF wpc = "sent" \/ final THEN E + B ELSE E
        /\ batches_failed' = IF wpc = "failed" /\ ~final THEN batches_failed + 1 ELSE batches_failed
    BY <1>0, <1>4, SettledFacts, EmptySeq DEF buffer_vars
  <2>2. CASE wpc = "sent" \/ final
    <3>1. E' = E + B /\ F' = F
      BY <2>1, <2>2
    <3>2. D' - B' - E' = D - B - E
      <4> HIDE DEF D, B, E
      <4> QED
        BY <1>0, <2>1, <3>1
    <3> QED
      BY <1>1, <3>1, <3>2
  <2>3. CASE wpc = "failed" /\ ~final
    <3>1. E' = E /\ batches_failed' = batches_failed + 1
      BY <2>1, <2>3
    <3>2. F' = F + BatchSize
      BY <1>0, <3>1, OneMoreBatch
    <3>3. B <= BatchSize
      BY <2>3 DEF ControlInv, BatchInv
    <3>4. 0 <= D' - B' - E' /\ D' - B' - E' <= F'
      <4> HIDE DEF D, B, E, F
      <4>1. 0 <= D - B - E /\ D - B - E <= F
        BY <1>i DEF I
      <4> QED
        BY <1>0, <1>f, <2>1, <3>1, <3>2, <3>3, <4>1
    <3> QED
      BY <1>j, <3>4
  <2> QED
    BY <2>1, <2>2, <2>3
<1>5. CASE \/ Push \/ Start \/ MarkRunning \/ Stop \/ Join \/ CheckStop \/ TakeDone \/ Retry
           \/ UNCHANGED vars
  BY <1>0, <1>1, <1>5, QuietFacts
<1> QED
  BY <1>2, <1>3, <1>4, <1>5 DEF Next, Work

-----------------------------------------------------------------------------
(***************************************************************************)
(* The inductive invariant and what follows from it.                       *)
(***************************************************************************)
\* It holds before the exporter has been started.
LEMMA InvInit == Init => IInv
<1> SUFFICES ASSUME Init PROVE IInv
  OBVIOUS
<1>0. TypeOK /\ Len(<<>>) = 0 /\ Contents(<<>>) = {} /\ Increasing(<<>>)
  BY TypeInit, EmptySeq DEF Contents, Increasing
<1>1. /\ queue = <<>> /\ delivered = <<>> /\ batch = <<>> /\ wpc = "none" /\ opc = "idle"
      /\ ~running /\ ~final /\ retry = 0 /\ flush_to = 0 /\ late_attempts = 0 /\ starts = 0
      /\ spans_exported = 0 /\ batches_failed = 0 /\ http_errors = 0
      /\ received = [s \in 1 .. MaxSpans |-> 0]
  BY DEF Init, Buffer!Init
<1>2. BatchSize \in Nat /\ MaxRetries \in Nat
  BY ExporterAssumption
<1>3. ControlInv
  BY <1>0, <1>1, <1>2 DEF ControlInv, OwnerInv, BatchInv, AtWork
<1>4. OrderInv
  BY <1>0, <1>1 DEF OrderInv
<1>5. AttemptInv /\ NothingVanishes /\ StoredInv
  BY <1>0, <1>1 DEF AttemptInv, NothingVanishes, StoredInv
<1>6. DuplicatesAreBounded
  BY <1>1, <1>2 DEF DuplicatesAreBounded
<1>7. FlushInv /\ LateInv
  BY <1>0, <1>1, <1>2 DEF FlushInv, LateInv, AtWork, Attempts
<1>8. CountersCoverSpans
  BY <1>0, <1>1, <1>2 DEF CountersCoverSpans
<1> QED
  BY <1>3, <1>4, <1>5, <1>6, <1>7, <1>8 DEF IInv

\* Every step keeps it.
LEMMA InvStep == IInv /\ [Next]_vars => IInv'
  BY ControlStep, OrderStep, AttemptStep, FlushStep, LateStep, StoredStep, NothingVanishesStep,
     DuplicatesStep, CountersStep DEF IInv, ControlInv

\* The inductive invariant holds of the exporter with any batch size and retries.
THEOREM Invariance == Spec => []IInv
<1>1. Init => IInv
  BY InvInit
<1>2. IInv /\ [Next]_vars => IInv'
  BY InvStep
<1> QED
  BY <1>1, <1>2, PTL DEF Spec

\* Owner, worker and buffer keep their types, and the buffer its bound.
THEOREM Typed == Spec => []TypeOK
<1>1. IInv => TypeOK
  BY DEF IInv, ControlInv
<1> QED
  BY <1>1, Invariance, PTL

\* Stopping, restarting and retrying lose no span that was taken from the buffer: it is
\* stored, in the worker's hands, or in a batch all of whose attempts failed.
THEOREM NoSpanVanishes == Spec => []NothingVanishes
<1>1. IInv => NothingVanishes
  BY DEF IInv
<1> QED
  BY <1>1, Invariance, PTL

\* The backend stores a span at most once per attempt, and once more than errors counted.
THEOREM DuplicatesBounded == Spec => []DuplicatesAreBounded
<1>1. IInv => DuplicatesAreBounded
  BY DEF IInv
<1> QED
  BY <1>1, Invariance, PTL

\* Spans that no counter covers are in failed batches.
THEOREM CountersCover == Spec => []CountersCoverSpans
<1>1. IInv => CountersCoverSpans
  BY DEF IInv
<1> QED
  BY <1>1, Invariance, PTL

\* Until its final drain the first worker never claims more than the backend has.
THEOREM ExportedWasStored == Spec => []ExportedIsStored
<1>1. IInv => ExportedIsStored
  <2> SUFFICES ASSUME IInv, wpc # "none", ~final, starts = 1
               PROVE  spans_exported <= Cardinality(Stored)
    BY DEF ExportedIsStored, Stored
  <2>1. spans_exported \in Nat /\ spans_exported <= Cardinality(Stored \ Contents(batch))
    BY DEF IInv, ControlInv, TypeOK, StoredInv, AtWork
  <2>2. Stored \ Contents(batch) \in SUBSET Stored
    OBVIOUS
  <2>3. /\ Cardinality(Stored \ Contents(batch)) \in Nat /\ Cardinality(Stored) \in Nat
        /\ Cardinality(Stored \ Contents(batch)) <= Cardinality(Stored)
    BY <2>2, SpanSets
  <2> QED
    BY <2>1, <2>3
<1> QED
  BY <1>1, Invariance, PTL

\* When stop() has returned, what the buffer held at its call has been taken and dealt with.
THEOREM StopHasFlushed == Spec => []StopFlushes
<1>1. IInv => StopFlushes
  <2> SUFFICES ASSUME IInv, opc = "idle", ~running
               PROVE  Len(delivered) >= flush_to /\ batch = <<>>
    BY DEF StopFlushes
  <2>1. wpc = "none"
    BY DEF IInv, ControlInv, OwnerInv
  <2>2. batch = <<>> /\ flush_to <= Len(delivered)
    BY <2>1 DEF IInv, ControlInv, BatchInv, FlushInv
  <2>3. flush_to \in Nat /\ Len(delivered) \in Nat
    BY LenProperties DEF IInv, ControlInv, TypeOK, Buffer!TypeOK
  <2> QED
    BY <2>2, <2>3
<1> QED
  BY <1>1, Invariance, PTL

\* stop() waits for two batches of attempts at most, however many spans keep coming.
THEOREM StopBounded == Spec => []StopIsBounded
<1>1. IInv => StopIsBounded
  BY DEF IInv, LateInv, StopIsBounded, Attempts
<1> QED
  BY <1>1, Invariance, PTL
=============================================================================
