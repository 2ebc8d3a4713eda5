---------------------------- MODULE TracerProofs ----------------------------
(***************************************************************************)
(* Proofs about Tracer, for any fibers, any nesting and any number of      *)
(* requests and calls.  The frames of the hooks are the actual call stack; *)
(* the invariants relate them to the TraceContext that is kept beside it.  *)
(***************************************************************************)
EXTENDS Tracer, FiniteSetTheorems, SequenceTheorems, TLAPS

FramesOf(s) == {s[i] : i \in DOMAIN s}
AllFrames == FramesOf(active) \cup UNION {FramesOf(parked[f]) : f \in Fiber}
Link == [fiber : Fiber, base : Nat]

\* Types, with the shape of chain, parked and upset.
TypeInv ==
  /\ serving \in BOOLEAN
  /\ requests \in 0 .. MaxRequests /\ ids \in 0 .. MaxIds /\ calls \in 0 .. MaxCalls
  /\ ctx = NoCtx \/ ctx \in Ctx
  /\ active \in Seq(Frame) /\ parked \in [Fiber -> Seq(Frame)] /\ chain \in Seq(Link)
  /\ chosen \in Id \cup {Empty, Remote}

\* The fibers running are different ones, with their frames one above the other and none of
\* them parked; outside requests there is no fiber.
ChainInv ==
  /\ \A i \in 1 .. Len(chain) :
       /\ chain[i].base <= Len(active) /\ parked[chain[i].fiber] = <<>>
       /\ \A j \in 1 .. Len(chain) :
            i < j => chain[i].base <= chain[j].base /\ chain[i].fiber # chain[j].fiber
  /\ ~serving => chain = <<>> /\ \A f \in Fiber : parked[f] = <<>>

\* A context in a trace belongs to the request being served, and has its trace id.
CtxInv ==
  /\ HasCtx => ctx.depth <= calls /\ (MaxDepth > 0 => ctx.depth <= MaxDepth)
  /\ serving => HasCtx
  /\ HasCtx /\ ctx.in_trace => serving /\ ctx.trace_id = chosen /\ chosen # Empty

\* A parent is the client's or a span of a call of this request.
KnownParent(id) ==
  id \in {Empty, Remote} \/ \E t \in CallSpans : t.span_id = id /\ t.request = requests

\* What the frame of a hook can rely on when the call returns.
FrameOK(fr) ==
  /\ fr.trace_this => /\ HasCtx /\ ctx.in_trace
                      /\ fr.call # 0 /\ fr.call <= calls /\ fr.depth_before < fr.call
                      /\ MaxDepth > 0 => fr.depth_before < MaxDepth
                      /\ KnownParent(fr.span_parent)
  /\ ~fr.trace_this => fr.call = 0
FrameInv == \A fr \in AllFrames : FrameOK(fr)

\* The spans of calls have ids given out; the next call's parent is one of them.
SpanInv ==
  /\ \A s \in CallSpans : s.span_id \in Nat /\ s.span_id <= ids
  /\ KnownParent(GetCtx.parent_span_id)

BaseInv == TypeInv /\ ChainInv /\ CtxInv /\ FrameInv /\ SpanInv

-----------------------------------------------------------------------------
(***************************************************************************)
(* Sequences of frames.                                                    *)
(***************************************************************************)
\* The frames of two stacks, one above the other.
LEMMA ConcatFrames ==
  ASSUME NEW S, NEW s \in Seq(S), NEW t \in Seq(S)
  PROVE  FramesOf(s \o t) = FramesOf(s) \cup FramesOf(t)
<1> DEFINE u == s \o t
<1>1. /\ DOMAIN s = 1 .. Len(s) /\ DOMAIN t = 1 .. Len(t) /\ DOMAIN u = 1 .. Len(s) + Len(t)
      /\ Len(s) \in Nat /\ Len(t) \in Nat
      /\ \A i \in 1 .. Len(s) + Len(t) : u[i] = IF i <= Len(s) THEN s[i] ELSE t[i - Len(s)]
  BY ConcatProperties, LenProperties
<1> HIDE DEF u
<1>2. ASSUME NEW i \in 1 .. Len(s) + Len(t) PROVE u[i] \in FramesOf(s) \cup FramesOf(t)
  <2>1. CASE i <= Len(s)
    BY <1>1, <2>1 DEF FramesOf
  <2>2. CASE i > Len(s)
    <3>1. i - Len(s) \in 1 .. Len(t) /\ u[i] = t[i - Len(s)]
      BY <1>1, <2>2
    <3> QED
      BY <1>1, <3>1 DEF FramesOf
  <2> QED
    BY <1>1, <2>1, <2>2
<1>3. ASSUME NEW i \in 1 .. Len(s) PROVE s[i] \in FramesOf(u)
  BY <1>1 DEF FramesOf
<1>4. ASSUME NEW i \in 1 .. Len(t) PROVE t[i] \in FramesOf(u)
  <2>1. i + Len(s) \in 1 .. Len(s) + Len(t) /\ u[i + Len(s)] = t[i]
    BY <1>1, SMTT(30)
  <2> QED
    BY <1>1, <2>1 DEF FramesOf
<1>5. FramesOf(u) \subseteq FramesOf(s) \cup FramesOf(t)
  BY <1>1, <1>2 DEF FramesOf
<1>6. FramesOf(s) \subseteq FramesOf(u) /\ FramesOf(t) \subseteq FramesOf(u)
  BY <1>1, <1>3, <1>4 DEF FramesOf
<1> QED
  BY <1>5, <1>6 DEF u

\* A frame alone, and no frames.
LEMMA FewFrames ==
  ASSUME NEW e
  PROVE  FramesOf(<<e>>) = {e} /\ FramesOf(<<>>) = {}
  BY DEF FramesOf

\* A stack split at a height.
LEMMA Split ==
  ASSUME NEW S, NEW s \in Seq(S), NEW n \in 0 .. Len(s)
  PROVE  /\ SubSeq(s, 1, n) \in Seq(S) /\ SubSeq(s, n + 1, Len(s)) \in Seq(S)
         /\ Len(SubSeq(s, 1, n)) = n /\ Len(SubSeq(s, n + 1, Len(s))) = Len(s) - n
         /\ s = SubSeq(s, 1, n) \o SubSeq(s, n + 1, Len(s))
         /\ \A i \in 1 .. n : SubSeq(s, 1, n)[i] = s[i]
         /\ \A i \in 1 .. Len(s) - n : SubSeq(s, n + 1, Len(s))[i] = s[n + i]
<1> DEFINE a == SubSeq(s, 1, n)
           b == SubSeq(s, n + 1, Len(s))
<1>1. Len(s) \in Nat /\ n \in Nat /\ \A i \in 1 .. Len(s) : s[i] \in S
  BY LenProperties, ElementOfSeq
<1>2. /\ a \in Seq(S) /\ Len(a) = (IF 1 <= n THEN n - 1 + 1 ELSE 0)
      /\ \A i \in 1 .. n - 1 + 1 : a[i] = s[1 + i - 1]
  BY <1>1, SubSeqProperties
<1>3. /\ b \in Seq(S) /\ Len(b) = (IF n + 1 <= Len(s) THEN Len(s) - (n + 1) + 1 ELSE 0)
      /\ \A i \in 1 .. Len(s) - (n + 1) + 1 : b[i] = s[n + 1 + i - 1]
  BY <1>1, SubSeqProperties
<1>4. a \o b = SubSeq(s, 1, Len(s))
  <2>1. /\ 1 \in 1 .. Len(s) + 1 /\ n \in 1 - 1 .. Len(s) /\ Len(s) \in n .. Len(s)
    BY <1>1
  <2> QED
    BY <2>1, ConcatAdjacentSubSeq
<1>5. SubSeq(s, 1, Len(s)) = s
  BY SubSeqFull
<1> HIDE DEF a, b
<1>6. Len(a) = n /\ Len(b) = Len(s) - n
  BY <1>1, <1>2, <1>3
<1>7. /\ \A i \in 1 .. n : a[i] = s[i]
      /\ \A i \in 1 .. Len(s) - n : b[i] = s[n + i]
  BY <1>1, <1>2, <1>3
<1> QED
  BY <1>2, <1>3, <1>4, <1>5, <1>6, <1>7 DEF a, b

\* The topmost frame on the rest of the stack.
LEMMA LastSplit ==
  ASSUME NEW S, NEW s \in Seq(S), Len(s) > 0
  PROVE  /\ WithoutLast(s) \in Seq(S) /\ Len(WithoutLast(s)) = Len(s) - 1
         /\ s[Len(s)] \in S
         /\ s = WithoutLast(s) \o <<s[Len(s)]>>
         /\ \A i \in 1 .. Len(s) - 1 : WithoutLast(s)[i] = s[i]
<1>1. Len(s) \in Nat /\ Len(s) - 1 \in 0 .. Len(s) /\ Len(s) \in 1 .. Len(s)
  BY LenProperties
<1>2. /\ WithoutLast(s) \in Seq(S) /\ Len(WithoutLast(s)) = Len(s) - 1
      /\ \A i \in 1 .. Len(s) - 1 : WithoutLast(s)[i] = s[i]
  BY <1>1, Split DEF WithoutLast
<1>3. s[Len(s)] \in S
  BY <1>1, ElementOfSeq
<1>4. SubSeq(s, 1, Len(s)) = SubSeq(s, 1, Len(s) - 1) \o <<s[Len(s)]>>
  <2>1. 1 \in 1 .. Len(s) /\ Len(s) \in 1 .. Len(s)
    BY <1>1
  <2> QED
    BY <2>1, SubSeqRecursiveSecond
<1> QED
  BY <1>2, <1>3, <1>4, SubSeqFull DEF WithoutLast

-----------------------------------------------------------------------------
(***************************************************************************)
(* What the steps do to the stacks.                                        *)
(***************************************************************************)
\* The calls among frames are the numbers their hooks gave them.
LEMMA TracedCalls ==
  ASSUME NEW s
  PROVE  TracedIn(s) = {fr.call : fr \in FramesOf(s)} \ {0}
  BY DEF TracedIn, FramesOf

\* A context is a null pointer or it is not.
LEMMA CtxIsNot ==
  ASSUME NEW c \in Ctx
  PROVE  c # NoCtx
<1>1. DOMAIN c = {"in_trace", "trace_id", "parent_span_id", "depth", "span_stack"}
  BY DEF Ctx
<1>2. DOMAIN NoCtx = {"in_trace"}
  BY DEF NoCtx
<1> QED
  BY <1>1, <1>2

\* A blank context is one.
LEMMA BlankCtx == Blank \in Ctx
<1>1. <<>> \in Seq(1 .. MaxCalls)
  BY EmptySeq
<1> QED
  BY <1>1 DEF Blank, Ctx

\* The running fiber's frames begin inside the stack.
LEMMA BaseHeight ==
  TypeInv /\ ChainInv => Base \in 0 .. Len(active)
<1> SUFFICES ASSUME TypeInv, ChainInv PROVE Base \in 0 .. Len(active)
  OBVIOUS
<1>1. Len(active) \in Nat /\ Len(chain) \in Nat
  BY LenProperties DEF TypeInv
<1>2. CASE chain = <<>>
  BY <1>1, <1>2 DEF Base
<1>3. CASE chain # <<>>
  <2>1. Len(chain) \in 1 .. Len(chain)
    BY <1>1, <1>3, EmptySeq DEF TypeInv
  <2>2. chain[Len(chain)] \in Link
    BY <2>1, ElementOfSeq DEF TypeInv
  <2>3. chain[Len(chain)].base \in Nat
    BY <2>2 DEF Link
  <2>4. chain[Len(chain)].base <= Len(active)
    BY <2>1 DEF ChainInv
  <2> QED
    BY <1>1, <1>3, <2>3, <2>4 DEF Base
<1> QED
  BY <1>2, <1>3

\* A context in use is a whole one, and so is the one a hook makes when there is none.
LEMMA CtxType ==
  TypeInv => GetCtx \in Ctx /\ (HasCtx => ctx \in Ctx /\ GetCtx = ctx)
  BY BlankCtx DEF TypeInv, GetCtx, HasCtx

\* The frame of a call that is traced.
NewFrame(k) == [kind |-> k, trace_this |-> TRUE, span_parent |-> ctx.parent_span_id,
                depth_before |-> ctx.depth, call |-> calls + 1]

\* What is true where php_trace_should_trace lets a call through.
LEMMA TracedCall ==
  ASSUME TypeInv, NEW k \in Kind, NEW matches, ShouldTrace(k, matches), CallTraced(k)
  PROVE  /\ HasCtx /\ ctx.in_trace /\ ctx \in Ctx /\ GetCtx = ctx
         /\ calls + 1 \in 1 .. MaxCalls /\ calls' = calls + 1
         /\ NewFrame(k) \in Frame /\ active' = Append(active, NewFrame(k))
         /\ ctx' \in Ctx
         /\ ctx' = [ctx EXCEPT !.depth = @ + 1,
                      !.span_stack = IF k = "user" THEN Append(@, calls + 1) ELSE @]
<1>1. HasCtx /\ ctx.in_trace /\ GetCtx = ctx
  BY DEF ShouldTrace, GetCtx, HasCtx, Blank
<1>2. ctx \in Ctx
  BY <1>1, CtxType
<1>3. calls + 1 \in 1 .. MaxCalls /\ calls' = calls + 1
  BY TracerAssumption DEF TypeInv, CallTraced
<1>4. NewFrame(k) \in Frame
  BY <1>2, <1>3 DEF NewFrame, Frame, Ctx
<1>5. active' = Append(active, NewFrame(k))
  BY <1>3 DEF CallTraced, NewFrame
<1>6. ctx' = [ctx EXCEPT !.depth = @ + 1,
                !.span_stack = IF k = "user" THEN Append(@, calls + 1) ELSE @]
  BY <1>3 DEF CallTraced
<1>7. ctx' \in Ctx
  <2>1. Append(ctx.span_stack, calls + 1) \in Seq(1 .. MaxCalls)
    BY <1>2, <1>3, AppendProperties DEF Ctx
  <2> DEFINE st == IF k = "user" THEN Append(ctx.span_stack, calls + 1) ELSE ctx.span_stack
  <2>2. st \in Seq(1 .. MaxCalls) /\ ctx.depth + 1 \in Nat
        /\ ctx.parent_span_id \in Id \cup {Empty, Remote}
    <3>1. ctx.span_stack \in Seq(1 .. MaxCalls) /\ ctx.depth \in Nat
          /\ ctx.parent_span_id \in Id \cup {Empty, Remote}
      BY <1>2 DEF Ctx
    <3>2. st \in Seq(1 .. MaxCalls)
      BY <2>1, <3>1, Zenon
    <3>3. ctx.depth + 1 \in Nat
      BY <3>1
    <3> QED
      BY <3>1, <3>2, <3>3
  <2>3. ctx' = [ctx EXCEPT !.parent_span_id = ctx.parent_span_id, !.depth = ctx.depth + 1,
                           !.span_stack = st]
    BY <1>2, <1>6 DEF Ctx
  <2> HIDE DEF st
  <2> QED
    BY <1>2, <2>2, <2>3 DEF Ctx
<1> QED
  BY <1>1, <1>2, <1>3, <1>4, <1>5, <1>6, <1>7

\* A function that returns takes its frame off the stack and leaves the others.
LEMMA ReturnStack ==
  ASSUME TypeInv, ChainInv, Return
  PROVE  /\ Len(active) \in Nat \ {0} /\ Top \in Frame /\ Top \in FramesOf(active)
         /\ active' \in Seq(Frame) /\ Len(active') = Len(active) - 1
         /\ active = active' \o <<Top>>
         /\ FramesOf(active) = FramesOf(active') \cup {Top}
         /\ Base <= Len(active')
         /\ \A i \in 1 .. Len(active) - 1 : active'[i] = active[i]
<1>1. Len(active) \in Nat /\ Base \in 0 .. Len(active) /\ Len(active) > Base
  BY BaseHeight, LenProperties DEF TypeInv, Return
<1>2. Len(active) > 0 /\ Len(active) \in 1 .. Len(active)
  BY <1>1
<1>3. /\ active' \in Seq(Frame) /\ Len(active') = Len(active) - 1
      /\ Top \in Frame /\ active = active' \o <<Top>>
      /\ \A i \in 1 .. Len(active) - 1 : active'[i] = active[i]
  BY <1>2, LastSplit DEF TypeInv, Return, Top
<1>4. Top \in FramesOf(active)
  <2>1. DOMAIN active = 1 .. Len(active)
    BY LenProperties DEF TypeInv
  <2> QED
    BY <1>2, <2>1 DEF FramesOf, Top
<1>5. FramesOf(active) = FramesOf(active') \cup {Top}
  <2>1. <<Top>> \in Seq(Frame)
    BY <1>3
  <2>2. FramesOf(active' \o <<Top>>) = FramesOf(active') \cup FramesOf(<<Top>>)
    BY <1>3, <2>1, ConcatFrames
  <2> QED
    BY <1>3, <2>2, FewFrames
<1>6. Len(active) \in Nat \ {0} /\ Base <= Len(active')
  BY <1>1, <1>3
<1> QED
  BY <1>3, <1>4, <1>5, <1>6, Zenon

\* The fiber that runs on top of the others.
TopFiber == chain[Len(chain)].fiber
Below == SubSeq(active, 1, Base)
Above == SubSeq(active, Base + 1, Len(active))

\* A fiber that suspends carries its frames away, and had none parked.
LEMMA SuspendStack ==
  ASSUME TypeInv, ChainInv, Suspend
  PROVE  /\ Len(chain) \in Nat \ {0} /\ TopFiber \in Fiber /\ parked[TopFiber] = <<>>
         /\ Below \in Seq(Frame) /\ Above \in Seq(Frame) /\ active = Below \o Above
         /\ FramesOf(active) = FramesOf(Below) \cup FramesOf(Above)
         /\ Base \in 0 .. Len(active) /\ Len(active) \in Nat
         /\ Len(Below) = Base /\ Len(Above) = Len(active) - Base
         /\ Base = chain[Len(chain)].base
         /\ \A i \in 1 .. Base : Below[i] = active[i]
         /\ \A i \in 1 .. Len(active) - Base : Above[i] = active[Base + i]
         /\ active' = Below /\ parked' = [parked EXCEPT ![TopFiber] = Above]
         /\ chain' \in Seq(Link) /\ Len(chain') = Len(chain) - 1
         /\ \A i \in 1 .. Len(chain) - 1 : chain'[i] = chain[i]
<1>1. chain \in Seq(Link) /\ chain # <<>> /\ Len(chain) \in Nat /\ Len(active) \in Nat
      /\ active \in Seq(Frame)
  BY LenProperties DEF TypeInv, Suspend
<1>2. Len(chain) > 0 /\ Len(chain) \in 1 .. Len(chain)
  BY <1>1, EmptySeq
<1>3. TopFiber \in Fiber
  <2>1. chain[Len(chain)] \in Link
    BY <1>1, <1>2, ElementOfSeq
  <2> QED
    BY <2>1 DEF Link, TopFiber
<1>4. parked[TopFiber] = <<>>
  BY <1>2 DEF ChainInv, TopFiber
<1>5. Base \in 0 .. Len(active) /\ Base = chain[Len(chain)].base
  BY <1>1, BaseHeight DEF Base
<1>6. /\ Below \in Seq(Frame) /\ Above \in Seq(Frame) /\ active = Below \o Above
      /\ Len(Below) = Base /\ Len(Above) = Len(active) - Base
      /\ \A i \in 1 .. Base : Below[i] = active[i]
      /\ \A i \in 1 .. Len(active) - Base : Above[i] = active[Base + i]
  <2> DEFINE n == Base
  <2>1. active \in Seq(Frame) /\ n \in 0 .. Len(active)
    BY <1>1, <1>5
  <2> HIDE DEF n
  <2>2. /\ SubSeq(active, 1, n) \in Seq(Frame) /\ SubSeq(active, n + 1, Len(active)) \in Seq(Frame)
        /\ Len(SubSeq(active, 1, n)) = n /\ Len(SubSeq(active, n + 1, Len(active))) = Len(active) - n
        /\ active = SubSeq(active, 1, n) \o SubSeq(active, n + 1, Len(active))
        /\ \A i \in 1 .. n : SubSeq(active, 1, n)[i] = active[i]
        /\ \A i \in 1 .. Len(active) - n :
             SubSeq(active, n + 1, Len(active))[i] = active[n + i]
    BY <2>1, Split, Zenon
  <2> QED
    BY <2>2, Zenon DEF Below, Above, n
<1>7. FramesOf(active) = FramesOf(Below) \cup FramesOf(Above)
  BY <1>6, ConcatFrames
<1>8. active' = Below /\ parked' = [parked EXCEPT ![TopFiber] = Above]
  BY DEF Suspend, Below, Above, TopFiber
<1>9. /\ chain' \in Seq(Link) /\ Len(chain') = Len(chain) - 1
      /\ \A i \in 1 .. Len(chain) - 1 : chain'[i] = chain[i]
  BY <1>1, <1>2, LastSplit DEF Suspend
<1>10. Len(chain) \in Nat \ {0}
  BY <1>1, <1>2
<1> QED
  BY <1>1, <1>3, <1>4, <1>5, <1>6, <1>7, <1>8, <1>9, <1>10, Zenon

\* A fiber that is resumed puts its frames on top of the others.
LEMMA ResumeStack ==
  ASSUME TypeInv, NEW f \in Fiber, Resume(f)
  PROVE  /\ active \in Seq(Frame) /\ parked[f] \in Seq(Frame) /\ Len(active) \in Nat
         /\ active' = active \o parked[f] /\ active' \in Seq(Frame)
         /\ Len(active') = Len(active) + Len(parked[f]) /\ Len(parked[f]) \in Nat
         /\ FramesOf(active') = FramesOf(active) \cup FramesOf(parked[f])
         /\ parked' = [parked EXCEPT ![f] = <<>>]
         /\ chain' \in Seq(Link) /\ Len(chain') = Len(chain) + 1 /\ Len(chain) \in Nat
         /\ \A i \in 1 .. Len(chain) : chain'[i] = chain[i] /\ chain[i].fiber # f
         /\ chain'[Len(chain) + 1] = [fiber |-> f, base |-> Len(active)]
         /\ \A i \in 1 .. Len(active) : active'[i] = active[i]
         /\ \A i \in 1 .. Len(parked[f]) : active'[Len(active) + i] = parked[f][i]
<1>1. /\ active \in Seq(Frame) /\ parked[f] \in Seq(Frame) /\ chain \in Seq(Link)
      /\ Len(active) \in Nat /\ Len(parked[f]) \in Nat /\ Len(chain) \in Nat
      /\ DOMAIN chain = 1 .. Len(chain)
  BY LenProperties DEF TypeInv
<1>2. active' = active \o parked[f] /\ parked' = [parked EXCEPT ![f] = <<>>]
  BY DEF Resume
<1>3. /\ active' \in Seq(Frame) /\ Len(active') = Len(active) + Len(parked[f])
      /\ \A i \in 1 .. Len(active) + Len(parked[f]) :
           active'[i] = IF i <= Len(active) THEN active[i] ELSE parked[f][i - Len(active)]
  BY <1>1, <1>2, ConcatProperties
<1>4. \A i \in 1 .. Len(active) : active'[i] = active[i]
  BY <1>1, <1>3
<1>5. ASSUME NEW i \in 1 .. Len(parked[f]) PROVE active'[Len(active) + i] = parked[f][i]
  <2> DEFINE j == Len(active) + i
  <2>1. j \in 1 .. Len(active) + Len(parked[f]) /\ ~(j <= Len(active)) /\ j - Len(active) = i
    BY <1>1
  <2> HIDE DEF j
  <2>2. active'[j] = IF j <= Len(active) THEN active[j] ELSE parked[f][j - Len(active)]
    BY <1>3, <2>1, Zenon
  <2>3. active'[j] = parked[f][i]
    BY <2>1, <2>2, Zenon
  <2> QED
    BY <2>3, Zenon DEF j
<1>6. FramesOf(active') = FramesOf(active) \cup FramesOf(parked[f])
  BY <1>1, <1>2, ConcatFrames
<1>7. [fiber |-> f, base |-> Len(active)] \in Link
  BY <1>1 DEF Link
<1>8. /\ chain' \in Seq(Link) /\ Len(chain') = Len(chain) + 1
      /\ \A i \in 1 .. Len(chain) : chain'[i] = chain[i]
      /\ chain'[Len(chain) + 1] = [fiber |-> f, base |-> Len(active)]
  <2>1. chain' = Append(chain, [fiber |-> f, base |-> Len(active)])
    BY DEF Resume
  <2> QED
    BY <1>1, <1>7, <2>1, AppendProperties
<1>9. \A i \in 1 .. Len(chain) : chain[i].fiber # f
  BY <1>1 DEF Resume
<1> QED
  BY <1>1, <1>2, <1>3, <1>4, <1>5, <1>6, <1>8, <1>9

-----------------------------------------------------------------------------
(***************************************************************************)
(* Types, and the chain of running fibers.                                 *)
(***************************************************************************)
\* No running fiber begins above the topmost one.
LEMMA TopIsHighest ==
  ASSUME TypeInv, ChainInv, NEW i \in 1 .. Len(chain)
  PROVE  chain[i].base <= Base /\ chain[i].base \in Nat /\ chain[i].fiber \in Fiber
<1>1. Len(chain) \in Nat /\ Len(chain) \in 1 .. Len(chain) /\ chain \in Seq(Link)
  BY LenProperties DEF TypeInv
<1>2. chain # <<>>
  BY <1>1, EmptySeq
<1>3. Base = chain[Len(chain)].base
  BY <1>2 DEF Base
<1>4. chain[i] \in Link /\ chain[Len(chain)] \in Link
  BY <1>1, ElementOfSeq
<1>5. chain[i].base \in Nat /\ chain[i].fiber \in Fiber /\ chain[Len(chain)].base \in Nat
  BY <1>4 DEF Link
<1>6. CASE i = Len(chain)
  BY <1>3, <1>5, <1>6
<1>7. CASE i < Len(chain)
  <2>1. chain[i].base <= chain[Len(chain)].base
    BY <1>1, <1>7 DEF ChainInv
  <2> QED
    BY <1>3, <1>5, <2>1
<1> QED
  BY <1>1, <1>6, <1>7

\* The chain of running fibers keeps its shape.
LEMMA ChainStep == TypeInv /\ ChainInv /\ [Next]_vars => ChainInv'
<1> SUFFICES ASSUME TypeInv, ChainInv, [Next]_vars PROVE ChainInv'
  OBVIOUS
<1> USE DEF ChainInv
<1>0. Len(active) \in Nat /\ Len(chain) \in Nat
  BY LenProperties DEF TypeInv
<1>1. CASE RINIT
  BY <1>1 DEF RINIT, stack_vars
<1>2. CASE RSHUTDOWN
  <2>1. chain' = <<>> /\ Len(chain') = 0 /\ \A f \in Fiber : parked'[f] = <<>>
    BY <1>2, EmptySeq DEF RSHUTDOWN
  <2> QED
    BY <2>1
<1>3. ASSUME NEW k \in Kind, NEW m \in BOOLEAN, Call(k, m) PROVE ChainInv'
  <2>1. chain' = chain /\ parked' = parked /\ serving' = serving
    BY <1>3 DEF Call
  <2>2. \E fr : active' = Append(active, fr)
    BY <1>3 DEF Call, CallTraced, CallUntraced
  <2>3. Len(active') = Len(active) + 1
    BY <2>2 DEF TypeInv
  <2>4. ASSUME NEW i \in 1 .. Len(chain) PROVE chain[i].base <= Len(active')
    <3>1. chain[i].base \in Nat /\ chain[i].base <= Len(active)
      BY TopIsHighest
    <3> QED
      BY <1>0, <2>3, <3>1
  <2> QED
    BY <2>1, <2>4
<1>4. CASE Return
  <2>1. chain' = chain /\ parked' = parked /\ serving' = serving
    BY <1>4 DEF Return
  <2>2. Base <= Len(active') /\ Len(active') = Len(active) - 1 /\ Base \in 0 .. Len(active)
    BY <1>4, ReturnStack, BaseHeight
  <2>3. ASSUME NEW i \in 1 .. Len(chain) PROVE chain[i].base <= Len(active')
    <3>1. chain[i].base \in Nat /\ chain[i].base <= Base
      BY TopIsHighest
    <3> QED
      BY <1>0, <2>2, <3>1
  <2> QED
    BY <2>1, <2>3
<1>5. ASSUME NEW f \in Fiber, Resume(f) PROVE ChainInv'
  <2>1. serving /\ serving' = serving
    BY <1>5 DEF Resume
  <2>2. /\ Len(active') = Len(active) + Len(parked[f]) /\ Len(parked[f]) \in Nat
        /\ Len(chain') = Len(chain) + 1
        /\ \A i \in 1 .. Len(chain) : chain'[i] = chain[i] /\ chain[i].fiber # f
        /\ chain'[Len(chain) + 1] = [fiber |-> f, base |-> Len(active)]
        /\ parked' = [parked EXCEPT ![f] = <<>>]
    BY <1>5, ResumeStack
  <2>3. /\ chain'[Len(chain) + 1].fiber = f /\ chain'[Len(chain) + 1].base = Len(active)
        /\ parked'[f] = <<>>
    BY <2>2 DEF TypeInv
  <2>4. ASSUME NEW i \in 1 .. Len(chain)
        PROVE  /\ chain[i].base <= Len(active) /\ chain[i].base \in Nat
               /\ parked'[chain[i].fiber] = <<>> /\ chain[i].fiber # f
    <3>1. chain[i].fiber \in Fiber /\ chain[i].base \in Nat
      BY TopIsHighest
    <3>2. chain[i].fiber # f /\ parked[chain[i].fiber] = <<>> /\ chain[i].base <= Len(active)
      BY <2>2
    <3> QED
      BY <2>2, <3>1, <3>2 DEF TypeInv
  <2>5. ASSUME NEW i \in 1 .. Len(chain')
        PROVE  /\ chain'[i].base <= Len(active') /\ parked'[chain'[i].fiber] = <<>>
               /\ \A j \in 1 .. Len(chain') :
                    i < j => chain'[i].base <= chain'[j].base /\ chain'[i].fiber # chain'[j].fiber
    <3>1. CASE i = Len(chain) + 1
      <4>1. Len(active) <= Len(active')
        BY <1>0, <2>2
      <4>2. \A j \in 1 .. Len(chain') : ~(i < j)
        BY <1>0, <2>2, <3>1
      <4> QED
        BY <2>3, <3>1, <4>1, <4>2
    <3>2. CASE i \in 1 .. Len(chain)
      <4>1. chain'[i] = chain[i]
        BY <2>2, <3>2
      <4>2. chain[i].base <= Len(active')
        BY <1>0, <2>2, <2>4, <3>2
      <4>3. ASSUME NEW j \in 1 .. Len(chain'), i < j
            PROVE  chain[i].base <= chain'[j].base /\ chain[i].fiber # chain'[j].fiber
        <5>1. CASE j = Len(chain) + 1
          BY <2>3, <2>4, <3>2, <5>1
        <5>2. CASE j \in 1 .. Len(chain)
          <6>1. chain'[j] = chain[j]
            BY <2>2, <5>2
          <6> QED
            BY <3>2, <4>3, <5>2, <6>1
        <5> QED
          BY <1>0, <2>2, <5>1, <5>2
      <4> QED
        BY <2>4, <3>2, <4>1, <4>2, <4>3
    <3> QED
      BY <1>0, <2>2, <3>1, <3>2
  <2> QED
    BY <2>1, <2>5
<1>6. CASE Suspend
  <2>1. serving' = serving /\ chain # <<>>
    BY <1>6 DEF Suspend
  <2>2. /\ Len(active') = Base /\ Len(chain') = Len(chain) - 1 /\ Len(chain) \in Nat \ {0}
        /\ parked' = [parked EXCEPT ![TopFiber] = Above] /\ TopFiber \in Fiber
        /\ \A i \in 1 .. Len(chain) - 1 : chain'[i] = chain[i]
    BY <1>6, SuspendStack
  <2>3. ASSUME NEW i \in 1 .. Len(chain')
        PROVE  /\ i \in 1 .. Len(chain) /\ i < Len(chain) /\ chain'[i] = chain[i]
               /\ chain[i].base <= Len(active') /\ parked'[chain[i].fiber] = <<>>
    <3>1. i \in 1 .. Len(chain) /\ i < Len(chain) /\ i \in 1 .. Len(chain) - 1
          /\ Len(chain) \in 1 .. Len(chain)
      BY <2>2
    <3>2. chain'[i] = chain[i]
      BY <2>2, <3>1
    <3>3. chain[i].base <= Base /\ chain[i].fiber \in Fiber
      BY <3>1, TopIsHighest
    <3>4. chain[i].fiber # TopFiber /\ parked[chain[i].fiber] = <<>>
      BY <3>1 DEF TopFiber
    <3>5. parked'[chain[i].fiber] = <<>>
      BY <2>2, <3>3, <3>4 DEF TypeInv
    <3> QED
      BY <2>2, <3>1, <3>2, <3>3, <3>5
  <2> QED
    BY <2>1, <2>3
<1>7. CASE Bailout
  <2>1. chain' = <<>> /\ Len(chain') = 0 /\ parked' = parked /\ serving' = serving
    BY <1>7, EmptySeq DEF Bailout
  <2> QED
    BY <2>1
<1>8. CASE CreateSpan
  BY <1>8 DEF CreateSpan, stack_vars
<1>9. ASSUME NEW id, FinalizeSpan(id) PROVE ChainInv'
  BY <1>9 DEF FinalizeSpan, stack_vars
<1>10. CASE UNCHANGED vars
  BY <1>10 DEF vars, stack_vars
<1> QED
  BY <1>1, <1>2, <1>3, <1>4, <1>5, <1>6, <1>7, <1>8, <1>9, <1>10 DEF Next

\* The context RINIT makes.
LEMMA FreshCtx ==
  ASSUME TypeInv, RINIT
  PROVE  /\ ctx' \in Ctx /\ chosen' \in Id \cup {Empty, Remote} /\ ids' \in 0 .. MaxIds
         /\ ids <= ids' /\ ctx'.depth = 0 /\ ctx'.span_stack = <<>>
         /\ ctx'.parent_span_id \in {Empty, Remote}
         /\ ctx'.in_trace => ctx'.trace_id = chosen' /\ chosen' # Empty
<1>0. ids \in 0 .. MaxIds /\ MaxIds \in Nat
  BY TracerAssumption DEF TypeInv
<1>1. CASE InitUnsampled
  <2>1. ctx' = Blank /\ chosen' = Empty /\ ids' = ids
    BY <1>1 DEF InitUnsampled
  <2> QED
    BY <1>0, <2>1, BlankCtx DEF Blank
<1>2. ASSUME NEW t \in BOOLEAN, NEW p \in BOOLEAN, InitSampled(t, p)
      PROVE  /\ ctx' \in Ctx /\ chosen' \in Id \cup {Empty, Remote} /\ ids' \in 0 .. MaxIds
             /\ ids <= ids' /\ ctx'.depth = 0 /\ ctx'.span_stack = <<>>
             /\ ctx'.parent_span_id \in {Empty, Remote}
             /\ ctx'.in_trace => ctx'.trace_id = chosen' /\ chosen' # Empty
  <2>1. ids' \in 0 .. MaxIds /\ ids <= ids' /\ (~t => ids' \in Id)
    BY <1>0, <1>2 DEF InitSampled, Id
  <2>2. chosen' \in Id \cup {Remote} /\ chosen' # Empty
    BY <1>2, <2>1 DEF InitSampled, Id, Remote, Empty
  <2>3. ctx' = [Blank EXCEPT !.in_trace = TRUE, !.trace_id = chosen',
                             !.parent_span_id = IF p THEN Remote ELSE Empty]
    BY <1>2 DEF InitSampled
  <2> DEFINE parent == IF p THEN Remote ELSE Empty
  <2>4. parent \in {Empty, Remote}
    OBVIOUS
  <2> HIDE DEF parent
  <2>5. ctx' = [in_trace |-> TRUE, trace_id |-> chosen', parent_span_id |-> parent,
                depth |-> 0, span_stack |-> <<>>]
    BY <2>3 DEF Blank, parent
  <2>6. <<>> \in Seq(1 .. MaxCalls)
    BY EmptySeq
  <2>7. ctx' \in Ctx
    BY <2>2, <2>4, <2>5, <2>6 DEF Ctx
  <2> QED
    BY <2>1, <2>2, <2>4, <2>5, <2>7
<1> QED
  BY <1>1, <1>2 DEF RINIT

\* What the hook leaves in the context when a traced call is over.
LEMMA FinishedCtx ==
  ASSUME TypeInv, ctx \in Ctx, Top \in Frame, FinishSpan
  PROVE  /\ ctx' \in Ctx /\ ids' = ids + 1 /\ ids + 1 \in Id
         /\ ctx'.parent_span_id = ids + 1 /\ ctx'.depth = Top.depth_before
         /\ ctx'.span_stack = PopStart
         /\ ctx'.in_trace = ctx.in_trace /\ ctx'.trace_id = ctx.trace_id
         /\ pushed' = pushed \cup {Span(Top.span_parent)}
<1>1. ids' = ids + 1 /\ ids + 1 \in Id
  BY TracerAssumption DEF FinishSpan, TypeInv, Id
<1>2. ctx.span_stack \in Seq(1 .. MaxCalls)
  BY DEF Ctx
<1>3. PopStart \in Seq(1 .. MaxCalls)
  <2>1. CASE Top.kind = "internal" \/ ctx.span_stack = <<>>
    BY <1>2, <2>1 DEF PopStart
  <2>2. CASE ~(Top.kind = "internal" \/ ctx.span_stack = <<>>)
    <3>1. Len(ctx.span_stack) > 0
      BY <1>2, <2>2, LenProperties, EmptySeq
    <3> QED
      BY <1>2, <2>2, <3>1, LastSplit DEF PopStart
  <2> QED
    BY <2>1, <2>2
<1>4. Top.depth_before \in Nat
  BY DEF Frame
<1>5. ctx' = [ctx EXCEPT !.parent_span_id = ids + 1, !.depth = Top.depth_before,
                         !.span_stack = PopStart]
  BY <1>1 DEF FinishSpan, ParentAfter, DepthAfter
<1>6. pushed' = pushed \cup {Span(Top.span_parent)}
  BY DEF FinishSpan
<1>7. ids + 1 \in Id \cup {Empty, Remote}
  BY <1>1
<1>8. /\ ctx' \in Ctx /\ ctx'.parent_span_id = ids + 1 /\ ctx'.depth = Top.depth_before
      /\ ctx'.span_stack = PopStart
      /\ ctx'.in_trace = ctx.in_trace /\ ctx'.trace_id = ctx.trace_id
  <2> DEFINE p == ids + 1
             d == Top.depth_before
             st == PopStart
  <2>1. ctx \in Ctx /\ p \in Id \cup {Empty, Remote} /\ d \in Nat /\ st \in Seq(1 .. MaxCalls)
    BY <1>3, <1>4, <1>7
  <2>2. ctx' = [ctx EXCEPT !.parent_span_id = p, !.depth = d, !.span_stack = st]
    BY <1>5
  <2> HIDE DEF p, d, st
  <2>3. /\ ctx' \in Ctx /\ ctx'.parent_span_id = p /\ ctx'.depth = d /\ ctx'.span_stack = st
        /\ ctx'.in_trace = ctx.in_trace /\ ctx'.trace_id = ctx.trace_id
    BY <2>1, <2>2 DEF Ctx
  <2> QED
    BY <2>3 DEF p, d, st
<1> QED
  BY <1>1, <1>6, <1>8

\* An untraced frame is one.
LEMMA UntracedFrame == Untraced \in Frame
  BY TracerAssumption DEF Untraced, Frame, Kind

\* Types are kept by every step.
LEMMA TypeStep == TypeInv /\ ChainInv /\ FrameInv /\ [Next]_vars => TypeInv'
<1> SUFFICES ASSUME TypeInv, ChainInv, FrameInv, [Next]_vars PROVE TypeInv'
  OBVIOUS
<1>0. /\ serving \in BOOLEAN
      /\ requests \in 0 .. MaxRequests /\ ids \in 0 .. MaxIds /\ calls \in 0 .. MaxCalls
      /\ ctx = NoCtx \/ ctx \in Ctx
      /\ active \in Seq(Frame) /\ parked \in [Fiber -> Seq(Frame)] /\ chain \in Seq(Link)
      /\ chosen \in Id \cup {Empty, Remote}
      /\ MaxRequests \in Nat /\ MaxIds \in Nat /\ MaxCalls \in Nat
  BY TracerAssumption DEF TypeInv
<1>1. CASE RINIT
  <2>1. requests' \in 0 .. MaxRequests /\ serving' \in BOOLEAN
    BY <1>0, <1>1 DEF RINIT
  <2> QED
    BY <1>0, <1>1, <2>1, FreshCtx DEF RINIT, TypeInv, stack_vars
<1>2. CASE RSHUTDOWN
  <2>1. [f \in Fiber |-> <<>>] \in [Fiber -> Seq(Frame)]
    BY EmptySeq
  <2>2. serving' \in BOOLEAN
    BY <1>2 DEF RSHUTDOWN
  <2> QED
    BY <1>0, <1>2, <2>1, <2>2 DEF RSHUTDOWN, TypeInv
<1>3. ASSUME NEW k \in Kind, NEW m \in BOOLEAN, Call(k, m) PROVE TypeInv'
  <2>0. UNCHANGED <<serving, requests, chain, parked, ids, chosen>>
    BY <1>3 DEF Call, history_vars
  <2>1. calls' \in 0 .. MaxCalls /\ ctx' \in Ctx /\ active' \in Seq(Frame)
    <3>1. CASE ShouldTrace(k, m)
      <4>1. CallTraced(k)
        BY <1>3, <3>1 DEF Call
      <4>2. /\ calls + 1 \in 1 .. MaxCalls /\ calls' = calls + 1 /\ ctx' \in Ctx
            /\ NewFrame(k) \in Frame /\ active' = Append(active, NewFrame(k))
        BY <3>1, <4>1, TracedCall
      <4> QED
        BY <1>0, <4>2, AppendProperties
    <3>2. CASE ~ShouldTrace(k, m)
      <4>1. CallUntraced
        BY <1>3, <3>2 DEF Call
      <4> QED
        BY <1>0, <4>1, UntracedFrame, CtxType, AppendProperties DEF CallUntraced
    <3> QED
      BY <3>1, <3>2
  <2> QED
    BY <1>0, <2>0, <2>1 DEF TypeInv
<1>4. CASE Return
  <2>1. UNCHANGED <<serving, requests, chain, parked, calls, chosen>>
    BY <1>4 DEF Return, history_vars
  <2>2. active' \in Seq(Frame) /\ Top \in Frame /\ Top \in FramesOf(active)
    BY <1>4, ReturnStack
  <2>3. ids' \in 0 .. MaxIds /\ (ctx' = NoCtx \/ ctx' \in Ctx)
    <3>1. CASE WasTraced
      <4>1. FinishSpan
        BY <1>4, <3>1 DEF Return
      <4>2. HasCtx
        BY <2>2, <3>1 DEF FrameInv, FrameOK, AllFrames, WasTraced
      <4>3. ctx' \in Ctx /\ ids' = ids + 1 /\ ids + 1 \in Id
        BY <2>2, <4>1, <4>2, CtxType, FinishedCtx
      <4> QED
        BY <1>0, <4>3 DEF Id
    <3>2. CASE ~WasTraced
      BY <1>0, <1>4, <3>2 DEF Return
    <3> QED
      BY <3>1, <3>2
  <2> QED
    BY <1>0, <2>1, <2>2, <2>3 DEF TypeInv
<1>5. ASSUME NEW f \in Fiber, Resume(f) PROVE TypeInv'
  <2>1. UNCHANGED <<serving, requests, ctx, ids, calls, chosen>>
    BY <1>5 DEF Resume, history_vars
  <2>2. active' \in Seq(Frame) /\ chain' \in Seq(Link) /\ parked' = [parked EXCEPT ![f] = <<>>]
    BY <1>5, ResumeStack
  <2>3. parked' \in [Fiber -> Seq(Frame)]
    BY <1>0, <2>2, EmptySeq
  <2> QED
    BY <1>0, <2>1, <2>2, <2>3 DEF TypeInv
<1>6. CASE Suspend
  <2>1. UNCHANGED <<serving, requests, ctx, ids, calls, chosen>>
    BY <1>6 DEF Suspend
  <2>2. /\ active' \in Seq(Frame) /\ chain' \in Seq(Link) /\ Above \in Seq(Frame)
        /\ parked' = [parked EXCEPT ![TopFiber] = Above]
    BY <1>6, SuspendStack
  <2>3. parked' \in [Fiber -> Seq(Frame)]
    BY <1>0, <2>2
  <2> QED
    BY <1>0, <2>1, <2>2, <2>3 DEF TypeInv
<1>7. CASE Bailout
  BY <1>0, <1>7, EmptySeq DEF Bailout, TypeInv
<1>8. CASE CreateSpan
  <2>1. UNCHANGED <<serving, requests, ctx, stack_vars, calls, chosen>> /\ ids' \in 0 .. MaxIds
    BY <1>0, <1>8 DEF CreateSpan
  <2> QED
    BY <1>0, <2>1 DEF TypeInv, stack_vars
<1>9. ASSUME NEW id, FinalizeSpan(id) PROVE TypeInv'
  BY <1>0, <1>9 DEF FinalizeSpan, TypeInv, stack_vars, history_vars
<1>10. CASE UNCHANGED vars
  BY <1>0, <1>10 DEF vars, stack_vars, history_vars, TypeInv
<1> QED
  BY <1>1, <1>2, <1>3, <1>4, <1>5, <1>6, <1>7, <1>8, <1>9, <1>10 DEF Next

-----------------------------------------------------------------------------
(***************************************************************************)
(* The context, the frames and the spans.                                  *)
(***************************************************************************)
\* The frame of the call that returns is as the hook left it.
LEMMA TopFrame ==
  ASSUME TypeInv, ChainInv, FrameInv, Return
  PROVE  /\ FrameOK(Top) /\ Top \in Frame
         /\ WasTraced => FinishSpan /\ HasCtx /\ ctx \in Ctx /\ GetCtx = ctx
         /\ ~WasTraced => UNCHANGED <<ids, pushed, ctx>>
<1>1. Top \in Frame /\ Top \in AllFrames
  BY ReturnStack DEF AllFrames
<1>2. FrameOK(Top)
  BY <1>1 DEF FrameInv
<1>3. ASSUME WasTraced PROVE FinishSpan /\ HasCtx
  BY <1>2, <1>3 DEF FrameOK, WasTraced, Return
<1>4. ASSUME ~WasTraced PROVE UNCHANGED <<ids, pushed, ctx>>
  BY <1>4 DEF Return
<1> QED
  BY <1>1, <1>2, <1>3, <1>4, CtxType

\* A context that was made is not a null pointer.
LEMMA HasCtxNext ==
  ASSUME ctx' \in Ctx
  PROVE  HasCtx' /\ GetCtx' = ctx'
<1>1. ctx' # NoCtx
  BY CtxIsNot
<1> QED
  BY <1>1 DEF HasCtx, GetCtx

\* The context belongs to the request.
LEMMA CtxStep == BaseInv /\ [Next]_vars => CtxInv'
<1> SUFFICES ASSUME BaseInv, [Next]_vars PROVE CtxInv'
  OBVIOUS
<1>0. /\ TypeInv /\ ChainInv /\ CtxInv /\ FrameInv
      /\ calls \in Nat /\ MaxDepth \in Nat
  BY TracerAssumption DEF BaseInv, TypeInv
<1>1. CASE RINIT
  <2>1. HasCtx' /\ GetCtx' = ctx' /\ serving' /\ calls' = calls
    BY <1>0, <1>1, FreshCtx, HasCtxNext DEF RINIT
  <2>2. ctx'.depth = 0 /\ (ctx'.in_trace => ctx'.trace_id = chosen' /\ chosen' # Empty)
    BY <1>0, <1>1, FreshCtx
  <2>3. ctx'.depth <= calls' /\ (MaxDepth > 0 => ctx'.depth <= MaxDepth)
    BY <1>0, <2>1, <2>2
  <2> QED
    BY <2>1, <2>2, <2>3 DEF CtxInv
<1>2. CASE RSHUTDOWN
  BY <1>2 DEF RSHUTDOWN, CtxInv, HasCtx
<1>3. ASSUME NEW k \in Kind, NEW m \in BOOLEAN, Call(k, m) PROVE CtxInv'
  <2>0. serving' = serving /\ chosen' = chosen
    BY <1>3 DEF Call, history_vars
  <2>1. CASE ShouldTrace(k, m)
    <3>1. CallTraced(k)
      BY <1>3, <2>1 DEF Call
    <3>2. /\ HasCtx /\ ctx.in_trace /\ ctx \in Ctx /\ GetCtx = ctx /\ calls' = calls + 1
          /\ ctx' \in Ctx
          /\ ctx' = [ctx EXCEPT !.depth = @ + 1,
                       !.span_stack = IF k = "user" THEN Append(@, calls + 1) ELSE @]
      BY <1>0, <2>1, <3>1, TracedCall
    <3>3. ctx'.depth = ctx.depth + 1 /\ ctx'.in_trace = ctx.in_trace
          /\ ctx'.trace_id = ctx.trace_id /\ ctx.depth \in Nat
      BY <3>2 DEF Ctx
    <3>4. MaxDepth > 0 => ctx.depth < MaxDepth
      BY <1>0, <2>1, <3>2, <3>3 DEF ShouldTrace, DepthReached
    <3>5. ctx.depth <= calls
      BY <1>0, <3>2 DEF CtxInv
    <3>6. ctx'.depth <= calls' /\ (MaxDepth > 0 => ctx'.depth <= MaxDepth)
      BY <1>0, <3>2, <3>3, <3>4, <3>5
    <3>7. HasCtx'
      BY <3>2, HasCtxNext
    <3> QED
      BY <1>0, <2>0, <3>2, <3>3, <3>6, <3>7 DEF CtxInv
  <2>2. CASE ~ShouldTrace(k, m)
    <3>1. calls' = calls /\ ctx' = GetCtx
      BY <1>3, <2>2 DEF Call, CallUntraced
    <3>2. CASE HasCtx
      BY <1>0, <2>0, <3>1, <3>2 DEF CtxInv, GetCtx, HasCtx
    <3>3. CASE ~HasCtx
      <4>1. ctx' = Blank /\ ~serving
        BY <1>0, <3>1, <3>3 DEF CtxInv, GetCtx
      <4>2. ctx'.depth = 0 /\ ~ctx'.in_trace
        BY <4>1 DEF Blank
      <4>3. ctx'.depth <= calls' /\ (MaxDepth > 0 => ctx'.depth <= MaxDepth)
        BY <1>0, <3>1, <4>2
      <4> QED
        BY <2>0, <4>1, <4>2, <4>3 DEF CtxInv
    <3> QED
      BY <3>2, <3>3
  <2> QED
    BY <2>1, <2>2
<1>4. CASE Return
  <2>0. UNCHANGED <<serving, chosen, calls>>
    BY <1>4 DEF Return, history_vars
  <2>1. CASE WasTraced
    <3>1. FrameOK(Top) /\ Top \in Frame /\ FinishSpan /\ HasCtx /\ ctx \in Ctx
      BY <1>0, <1>4, <2>1, TopFrame
    <3>2. /\ ctx' \in Ctx /\ ctx'.depth = Top.depth_before
          /\ ctx'.in_trace = ctx.in_trace /\ ctx'.trace_id = ctx.trace_id
      BY <1>0, <3>1, FinishedCtx
    <3>3. /\ Top.call <= calls /\ Top.depth_before < Top.call
          /\ MaxDepth > 0 => Top.depth_before < MaxDepth
      BY <2>1, <3>1 DEF FrameOK, WasTraced
    <3>4. Top.depth_before \in Nat /\ Top.call \in Nat
      BY <3>1, TracerAssumption DEF Frame
    <3>5. ctx'.depth <= calls /\ (MaxDepth > 0 => ctx'.depth <= MaxDepth)
      BY <1>0, <3>2, <3>3, <3>4
    <3>6. HasCtx'
      BY <3>2, HasCtxNext
    <3> QED
      BY <1>0, <2>0, <3>1, <3>2, <3>5, <3>6 DEF CtxInv
  <2>2. CASE ~WasTraced
    <3>1. ctx' = ctx
      BY <1>0, <1>4, <2>2, TopFrame
    <3> QED
      BY <1>0, <2>0, <3>1 DEF CtxInv, HasCtx
  <2> QED
    BY <2>1, <2>2
<1>5. CASE UNCHANGED <<serving, ctx, calls, chosen>>
  BY <1>0, <1>5 DEF CtxInv, HasCtx
<1>6. \/ RINIT \/ RSHUTDOWN
      \/ \E k \in Kind, m \in BOOLEAN : Call(k, m)
      \/ Return
      \/ UNCHANGED <<serving, ctx, calls, chosen>>
  BY DEF Next, vars, stack_vars, history_vars, Resume, Suspend, Bailout, CreateSpan, FinalizeSpan
<1> QED
  BY <1>1, <1>2, <1>3, <1>4, <1>5, <1>6

\* The frames of a stack are frames.
LEMMA FrameType ==
  ASSUME TypeInv, NEW fr \in AllFrames
  PROVE  fr \in Frame
<1>1. ASSUME NEW s \in Seq(Frame) PROVE FramesOf(s) \subseteq Frame
  <2>1. DOMAIN s = 1 .. Len(s)
    BY LenProperties
  <2> QED
    BY <2>1, ElementOfSeq DEF FramesOf
<1>2. FramesOf(active) \subseteq Frame /\ \A f \in Fiber : FramesOf(parked[f]) \subseteq Frame
  BY <1>1 DEF TypeInv
<1> QED
  BY <1>2 DEF AllFrames

\* A span that was pushed stays a parent for the rest of its request.
LEMMA KnownStays ==
  ASSUME NEW id, KnownParent(id), requests' = requests, pushed \subseteq pushed'
  PROVE  KnownParent(id)'
<1>1. CallSpans \subseteq CallSpans'
  BY DEF CallSpans
<1> QED
  BY <1>1 DEF KnownParent

\* A frame stays as it was while the context stays in the trace.
LEMMA FrameStays ==
  ASSUME NEW fr \in Frame, FrameOK(fr), calls \in Nat, calls' \in Nat, calls <= calls',
         requests' = requests, pushed \subseteq pushed',
         fr.trace_this => HasCtx' /\ ctx'.in_trace
  PROVE  FrameOK(fr)'
<1>1. CASE ~fr.trace_this
  BY <1>1 DEF FrameOK
<1>2. CASE fr.trace_this
  <2>1. KnownParent(fr.span_parent)'
    BY <1>2, KnownStays DEF FrameOK
  <2>2. fr.call \in Nat
    BY TracerAssumption DEF Frame
  <2>3. fr.call <= calls'
    <3>1. fr.call <= calls
      BY <1>2 DEF FrameOK
    <3> QED
      BY <2>2, <3>1
  <2> QED
    BY <1>2, <2>1, <2>3 DEF FrameOK
<1> QED
  BY <1>1, <1>2

\* A step that stays in the trace and adds no frame leaves every frame as it was.
LEMMA FramesStay ==
  ASSUME BaseInv, UNCHANGED <<calls, requests>>, pushed \subseteq pushed',
         HasCtx /\ ctx.in_trace => HasCtx' /\ ctx'.in_trace,
         AllFrames' \subseteq AllFrames
  PROVE  FrameInv'
<1>1. TypeInv /\ FrameInv /\ calls \in Nat
  BY TracerAssumption DEF BaseInv, TypeInv
<1>2. ASSUME NEW fr \in AllFrames' PROVE FrameOK(fr)'
  <2>1. fr \in Frame /\ FrameOK(fr)
    BY <1>1, <1>2, FrameType DEF FrameInv
  <2>2. fr.trace_this => HasCtx' /\ ctx'.in_trace
    BY <1>1, <2>1 DEF FrameOK
  <2> QED
    BY <1>1, <2>1, <2>2, FrameStays
<1> QED
  BY <1>2 DEF FrameInv

\* A function that returns, a fiber that comes or goes and a fatal error add no frame.
LEMMA FramesMove ==
  ASSUME BaseInv,
         Return \/ Suspend \/ Bailout \/ CreateSpan
         \/ (\E f \in Fiber : Resume(f)) \/ (\E id : FinalizeSpan(id)) \/ UNCHANGED vars
  PROVE  AllFrames' \subseteq AllFrames /\ UNCHANGED <<calls, requests>>
<1>0. TypeInv /\ ChainInv
  BY DEF BaseInv
<1>1. CASE Return
  <2>1. parked' = parked /\ FramesOf(active') \subseteq FramesOf(active)
    BY <1>0, <1>1, ReturnStack DEF Return
  <2> QED
    BY <1>1, <2>1 DEF AllFrames, FramesOf, Return
<1>2. CASE Suspend
  <2>1. /\ FramesOf(active) = FramesOf(Below) \cup FramesOf(Above) /\ active' = Below
        /\ parked' = [parked EXCEPT ![TopFiber] = Above] /\ parked \in [Fiber -> Seq(Frame)]
    BY <1>0, <1>2, SuspendStack DEF TypeInv
  <2>2. ASSUME NEW f \in Fiber PROVE FramesOf(parked'[f]) \subseteq AllFrames
    <3>1. parked'[f] = Above \/ parked'[f] = parked[f]
      BY <2>1
    <3> QED
      BY <2>1, <3>1 DEF AllFrames
  <2>3. FramesOf(active') \subseteq AllFrames
    BY <2>1 DEF AllFrames
  <2> QED
    BY <1>2, <2>2, <2>3 DEF AllFrames, FramesOf, Suspend
<1>3. CASE Bailout
  <2>1. active' = <<>> /\ parked' = parked
    BY <1>3 DEF Bailout
  <2> QED
    BY <1>3, <2>1 DEF AllFrames, FramesOf, Bailout
<1>4. ASSUME NEW f \in Fiber, Resume(f)
      PROVE  AllFrames' \subseteq AllFrames /\ UNCHANGED <<calls, requests>>
  <2>1. /\ FramesOf(active') = FramesOf(active) \cup FramesOf(parked[f])
        /\ parked' = [parked EXCEPT ![f] = <<>>] /\ parked \in [Fiber -> Seq(Frame)]
    BY <1>0, <1>4, ResumeStack DEF TypeInv
  <2>2. ASSUME NEW g \in Fiber PROVE FramesOf(parked'[g]) \subseteq AllFrames
    <3>1. parked'[g] = <<>> \/ parked'[g] = parked[g]
      BY <2>1
    <3> QED
      BY <3>1, FewFrames DEF AllFrames
  <2>3. FramesOf(active') \subseteq AllFrames
    BY <2>1 DEF AllFrames
  <2> QED
    BY <1>4, <2>2, <2>3 DEF AllFrames, FramesOf, Resume
<1>5. CASE UNCHANGED <<active, parked, calls, requests>>
  BY <1>5 DEF AllFrames, FramesOf
<1> QED
  BY <1>1, <1>2, <1>3, <1>4, <1>5
     DEF vars, stack_vars, history_vars, CreateSpan, FinalizeSpan

\* The frame of a call that begins is as the hook should find it.
LEMMA NewFrameOK ==
  ASSUME BaseInv, NEW k \in Kind, NEW m \in BOOLEAN, Call(k, m), ShouldTrace(k, m),
         NEW fr, fr = NewFrame(k)
  PROVE  FrameOK(fr)'
<1>0. TypeInv /\ CtxInv /\ SpanInv /\ calls \in Nat /\ MaxDepth \in Nat
  BY TracerAssumption DEF BaseInv, TypeInv
<1>1. CallTraced(k)
  BY DEF Call
<1>2. /\ HasCtx /\ ctx.in_trace /\ ctx \in Ctx /\ GetCtx = ctx /\ calls' = calls + 1
      /\ ctx' \in Ctx
      /\ ctx' = [ctx EXCEPT !.depth = @ + 1,
                   !.span_stack = IF k = "user" THEN Append(@, calls + 1) ELSE @]
  BY <1>0, <1>1, TracedCall
<1>3. HasCtx' /\ ctx'.in_trace
  <2>1. ctx'.in_trace
    BY <1>2 DEF Ctx
  <2> QED
    BY <1>2, <2>1, HasCtxNext
<1>4. ctx.depth \in Nat /\ ctx.depth <= calls
  BY <1>0, <1>2 DEF Ctx, CtxInv
<1>5. MaxDepth > 0 => ctx.depth < MaxDepth
  BY <1>0, <1>2, <1>4 DEF ShouldTrace, DepthReached
<1>6. /\ fr.trace_this /\ fr.call = calls + 1 /\ fr.depth_before = ctx.depth
      /\ fr.span_parent = ctx.parent_span_id
  BY DEF NewFrame
<1>7. requests' = requests /\ pushed \subseteq pushed'
  BY DEF Call
<1>8. KnownParent(fr.span_parent)'
  <2>1. KnownParent(fr.span_parent)
    BY <1>0, <1>2, <1>6 DEF SpanInv
  <2> QED
    BY <1>7, <2>1, KnownStays
<1>9. fr.call # 0 /\ fr.call <= calls' /\ fr.depth_before < fr.call
      /\ (MaxDepth > 0 => fr.depth_before < MaxDepth)
  BY <1>0, <1>2, <1>4, <1>5, <1>6
<1> QED
  BY <1>3, <1>6, <1>8, <1>9 DEF FrameOK

\* A call adds one frame on top of the others.
LEMMA CallStack ==
  ASSUME TypeInv, NEW fr \in Frame, active' = Append(active, fr)
  PROVE  /\ FramesOf(active') = FramesOf(active) \cup {fr}
         /\ active' \in Seq(Frame) /\ Len(active') = Len(active) + 1 /\ Len(active) \in Nat
         /\ active' = active \o <<fr>>
         /\ active'[Len(active) + 1] = fr
         /\ \A i \in 1 .. Len(active) : active'[i] = active[i]
<1>1. active \in Seq(Frame) /\ Len(active) \in Nat /\ <<fr>> \in Seq(Frame)
  BY LenProperties DEF TypeInv
<1>2. active' = active \o <<fr>>
  BY <1>1, AppendIsConcat
<1>3. FramesOf(active') = FramesOf(active) \cup {fr}
  <2>1. FramesOf(active \o <<fr>>) = FramesOf(active) \cup FramesOf(<<fr>>)
    BY <1>1, ConcatFrames
  <2> QED
    BY <1>2, <2>1, FewFrames
<1>4. /\ active' \in Seq(Frame) /\ Len(active') = Len(active) + 1
      /\ active'[Len(active) + 1] = fr
      /\ \A i \in 1 .. Len(active) : active'[i] = active[i]
  BY <1>1, AppendProperties
<1> QED
  BY <1>1, <1>2, <1>3, <1>4

\* Every frame stays as its hook left it.
LEMMA FrameStep == BaseInv /\ [Next]_vars => FrameInv'
<1> SUFFICES ASSUME BaseInv, [Next]_vars PROVE FrameInv'
  OBVIOUS
<1>0. /\ TypeInv /\ ChainInv /\ CtxInv /\ FrameInv /\ SpanInv /\ calls \in Nat
  BY TracerAssumption DEF BaseInv, TypeInv
<1>1. CASE RINIT
  <2>1. active' = <<>> /\ \A f \in Fiber : parked'[f] = <<>>
    BY <1>0, <1>1 DEF RINIT, ChainInv, stack_vars
  <2>2. AllFrames' = {}
    BY <2>1 DEF AllFrames, FramesOf
  <2> QED
    BY <2>2 DEF FrameInv
<1>2. CASE RSHUTDOWN
  <2>1. active' = <<>> /\ \A f \in Fiber : parked'[f] = <<>>
    BY <1>2 DEF RSHUTDOWN
  <2>2. AllFrames' = {}
    BY <2>1 DEF AllFrames, FramesOf
  <2> QED
    BY <2>2 DEF FrameInv
<1>3. ASSUME NEW k \in Kind, NEW m \in BOOLEAN, Call(k, m) PROVE FrameInv'
  <2>0. requests' = requests /\ pushed' = pushed /\ parked' = parked
    BY <1>3 DEF Call
  <2>1. CASE ShouldTrace(k, m)
    <3>1. CallTraced(k)
      BY <1>3, <2>1 DEF Call
    <3>2. /\ HasCtx /\ ctx.in_trace /\ ctx \in Ctx /\ calls' = calls + 1
          /\ ctx' \in Ctx /\ NewFrame(k) \in Frame /\ active' = Append(active, NewFrame(k))
          /\ ctx' = [ctx EXCEPT !.depth = @ + 1,
                       !.span_stack = IF k = "user" THEN Append(@, calls + 1) ELSE @]
      BY <1>0, <2>1, <3>1, TracedCall
    <3>3. HasCtx' /\ ctx'.in_trace
      <4>1. ctx'.in_trace
        BY <3>2 DEF Ctx
      <4> QED
        BY <3>2, <4>1, HasCtxNext
    <3>4. FramesOf(active') = FramesOf(active) \cup {NewFrame(k)}
      BY <1>0, <3>2, CallStack
    <3>5. AllFrames' = AllFrames \cup {NewFrame(k)}
      BY <2>0, <3>4 DEF AllFrames
    <3>6. calls' \in Nat /\ calls <= calls'
      BY <1>0, <3>2
    <3>7. ASSUME NEW fr \in AllFrames' PROVE FrameOK(fr)'
      <4>1. CASE fr = NewFrame(k)
        BY <1>3, <2>1, <4>1, NewFrameOK
      <4>2. CASE fr \in AllFrames
        <5>1. fr \in Frame /\ FrameOK(fr)
          BY <1>0, <4>2, FrameType DEF FrameInv
        <5> QED
          BY <1>0, <2>0, <3>3, <3>6, <5>1, FrameStays
      <4> QED
        BY <3>5, <3>7, <4>1, <4>2
    <3> QED
      BY <3>7 DEF FrameInv
  <2>2. CASE ~ShouldTrace(k, m)
    <3>1. calls' = calls /\ ctx' = GetCtx /\ active' = Append(active, Untraced)
      BY <1>3, <2>2 DEF Call, CallUntraced
    <3>2. FramesOf(active') = FramesOf(active) \cup {Untraced}
      BY <1>0, <3>1, UntracedFrame, CallStack
    <3>3. AllFrames' = AllFrames \cup {Untraced}
      BY <2>0, <3>2 DEF AllFrames
    <3>4. HasCtx => HasCtx' /\ ctx' = ctx
      BY <3>1 DEF HasCtx, GetCtx
    <3>5. ASSUME NEW fr \in AllFrames' PROVE FrameOK(fr)'
      <4>1. CASE fr = Untraced
        BY <4>1 DEF FrameOK, Untraced
      <4>2. CASE fr \in AllFrames
        <5>1. fr \in Frame /\ FrameOK(fr)
          BY <1>0, <4>2, FrameType DEF FrameInv
        <5>2. fr.trace_this => HasCtx' /\ ctx'.in_trace
          BY <3>4, <5>1 DEF FrameOK
        <5> QED
          BY <1>0, <2>0, <3>1, <5>1, <5>2, FrameStays
      <4> QED
        BY <3>3, <3>5, <4>1, <4>2
    <3> QED
      BY <3>5 DEF FrameInv
  <2> QED
    BY <2>1, <2>2
<1>4. CASE Return
  <2>1. AllFrames' \subseteq AllFrames /\ UNCHANGED <<calls, requests>>
    BY <1>4, FramesMove
  <2>2. CASE WasTraced
    <3>1. Top \in Frame /\ FinishSpan /\ HasCtx /\ ctx \in Ctx
      BY <1>0, <1>4, <2>2, TopFrame
    <3>2. /\ ctx' \in Ctx /\ ctx'.in_trace = ctx.in_trace
          /\ pushed' = pushed \cup {Span(Top.span_parent)}
      BY <1>0, <3>1, FinishedCtx
    <3>3. HasCtx'
      BY <3>2, HasCtxNext
    <3> QED
      BY <2>1, <3>2, <3>3, FramesStay
  <2>3. CASE ~WasTraced
    <3>1. ctx' = ctx /\ pushed' = pushed
      BY <1>0, <1>4, <2>3, TopFrame
    <3> QED
      BY <2>1, <3>1, FramesStay DEF HasCtx
  <2> QED
    BY <2>2, <2>3
<1>5. CASE Suspend \/ Bailout \/ CreateSpan
           \/ (\E f \in Fiber : Resume(f)) \/ (\E id : FinalizeSpan(id)) \/ UNCHANGED vars
  <2>1. AllFrames' \subseteq AllFrames /\ UNCHANGED <<calls, requests>>
    BY <1>5, FramesMove
  <2>2. ctx' = ctx /\ pushed \subseteq pushed'
    BY <1>5 DEF Suspend, Bailout, CreateSpan, Resume, FinalizeSpan, vars
  <2> QED
    BY <2>1, <2>2, FramesStay DEF HasCtx
<1> QED
  BY <1>1, <1>2, <1>3, <1>4, <1>5 DEF Next

\* The span that a finished call pushes.
LEMMA PushedSpan ==
  ASSUME BaseInv, Return, WasTraced,
         NEW s, s = Span(Top.span_parent)
  PROVE  /\ s.kind \in Kind /\ s.kind = Top.kind /\ s.span_id = ids + 1 /\ s.request = requests
         /\ s.trace_id = ctx.trace_id /\ s.chosen = chosen /\ s.upset = upset
         /\ s.parent_span_id = Top.span_parent /\ s.call = Top.call /\ s.start = Start
         /\ ids' = ids + 1 /\ pushed' = pushed \cup {s}
         /\ CallSpans' = CallSpans \cup {s}
<1>0. TypeInv /\ ChainInv /\ FrameInv
  BY DEF BaseInv
<1>1. Top \in Frame /\ FinishSpan /\ ctx \in Ctx
  BY <1>0, TopFrame
<1>2. ids' = ids + 1 /\ pushed' = pushed \cup {s}
  BY <1>0, <1>1, FinishedCtx
<1>3. /\ s.kind = Top.kind /\ s.span_id = ids + 1 /\ s.request = requests
      /\ s.trace_id = ctx.trace_id /\ s.chosen = chosen /\ s.upset = upset
      /\ s.parent_span_id = Top.span_parent /\ s.call = Top.call /\ s.start = Start
  BY <1>2 DEF Span
<1>4. s.kind \in Kind
  BY <1>1, <1>3 DEF Frame
<1>5. CallSpans' = CallSpans \cup {s}
  BY <1>2, <1>4 DEF CallSpans
<1> QED
  BY <1>2, <1>3, <1>4, <1>5

\* Only a traced call that returns pushes the span of a call.
LEMMA NoSpanOtherwise ==
  ASSUME BaseInv, [Next]_vars, ~(Return /\ WasTraced)
  PROVE  CallSpans' = CallSpans /\ pushed \subseteq pushed'
<1>0. TypeInv /\ ChainInv /\ FrameInv
  BY DEF BaseInv
<1>1. CASE Return
  BY <1>0, <1>1, TopFrame DEF CallSpans
<1>2. ASSUME NEW id, FinalizeSpan(id) PROVE CallSpans' = CallSpans /\ pushed \subseteq pushed'
  <2>1. \E s : s.kind = "manual" /\ pushed' = pushed \cup {s}
    BY <1>2 DEF FinalizeSpan
  <2> QED
    BY <2>1 DEF CallSpans, Kind
<1>3. CASE UNCHANGED pushed
  BY <1>3 DEF CallSpans
<1>4. Return \/ (\E id : FinalizeSpan(id)) \/ UNCHANGED pushed
  BY DEF Next, vars, RINIT, RSHUTDOWN, Call, Resume, Suspend, Bailout, CreateSpan
<1> QED
  BY <1>1, <1>2, <1>3, <1>4

\* Ids are given out in order, and requests are numbered.
LEMMA IdsGrow ==
  ASSUME TypeInv, ChainInv, FrameInv, [Next]_vars
  PROVE  ids <= ids' /\ ids \in Nat /\ ids' \in Nat
<1>1. ids \in Nat
  BY TracerAssumption DEF TypeInv
<1>2. CASE RINIT
  <2>1. ids <= ids' /\ ids' \in 0 .. MaxIds
    BY <1>2, FreshCtx
  <2> QED
    BY <1>1, <2>1, TracerAssumption
<1>3. CASE Return
  <2>1. ids' = ids \/ ids' = ids + 1
    BY <1>3 DEF Return, FinishSpan
  <2> QED
    BY <1>1, <2>1
<1>4. CASE CreateSpan
  BY <1>1, <1>4 DEF CreateSpan
<1>5. CASE ids' = ids
  BY <1>1, <1>5
<1>6. RINIT \/ Return \/ CreateSpan \/ ids' = ids
  BY DEF Next, vars, RSHUTDOWN, Call, Resume, Suspend, Bailout, FinalizeSpan
<1> QED
  BY <1>2, <1>3, <1>4, <1>5, <1>6

\* Spans have ids given out, and the next parent is one of them.
LEMMA SpanStep == BaseInv /\ [Next]_vars => SpanInv'
<1> SUFFICES ASSUME BaseInv, [Next]_vars PROVE SpanInv'
  OBVIOUS
<1>0. TypeInv /\ ChainInv /\ CtxInv /\ FrameInv /\ SpanInv
  BY DEF BaseInv
<1>1. ids <= ids' /\ ids \in Nat /\ ids' \in Nat
  BY <1>0, IdsGrow
<1>2. ASSUME NEW s \in CallSpans' PROVE s.span_id \in Nat /\ s.span_id <= ids'
  <2>1. CASE s \in CallSpans
    <3>1. s.span_id \in Nat /\ s.span_id <= ids
      BY <1>0, <2>1 DEF SpanInv
    <3> QED
      BY <1>1, <3>1
  <2>2. CASE s \notin CallSpans
    <3>1. Return /\ WasTraced
      BY <1>2, <2>2, NoSpanOtherwise
    <3>2. s = Span(Top.span_parent)
      <4>1. \A t : t = Span(Top.span_parent) => CallSpans' = CallSpans \cup {t}
        BY <3>1, PushedSpan
      <4> QED
        BY <1>2, <2>2, <4>1
    <3>3. s.span_id = ids + 1 /\ ids' = ids + 1
      BY <3>1, <3>2, PushedSpan
    <3> QED
      BY <1>1, <3>3
  <2> QED
    BY <2>1, <2>2
<1>3. ASSUME NEW p, p = GetCtx'.parent_span_id PROVE KnownParent(p)'
  <2>1. CASE RINIT
    <3>1. GetCtx' = ctx' /\ ctx'.parent_span_id \in {Empty, Remote}
      BY <1>0, <2>1, FreshCtx, HasCtxNext
    <3> QED
      BY <1>3, <3>1 DEF KnownParent
  <2>2. CASE RSHUTDOWN
    <3>1. GetCtx' = Blank
      BY <2>2 DEF RSHUTDOWN, GetCtx, HasCtx
    <3> QED
      BY <1>3, <3>1 DEF KnownParent, Blank
  <2>3. CASE Return /\ WasTraced
    <3>1. Top \in Frame /\ FinishSpan /\ ctx \in Ctx
      BY <1>0, <2>3, TopFrame
    <3>2. ctx' \in Ctx /\ ctx'.parent_span_id = ids + 1
      BY <1>0, <3>1, FinishedCtx
    <3>3. p = ids + 1
      BY <1>3, <3>2, HasCtxNext
    <3>4. PICK s : s = Span(Top.span_parent)
      OBVIOUS
    <3>5. s.span_id = ids + 1 /\ s.request = requests /\ s \in CallSpans' /\ requests' = requests
      BY <2>3, <3>4, PushedSpan DEF Return
    <3> QED
      BY <3>3, <3>5 DEF KnownParent
  <2>4. CASE GetCtx'.parent_span_id = GetCtx.parent_span_id /\ requests' = requests
             /\ pushed \subseteq pushed'
    BY <1>0, <1>3, <2>4, KnownStays DEF SpanInv
  <2>5. ASSUME NEW k \in Kind, NEW m \in BOOLEAN, Call(k, m)
        PROVE  GetCtx'.parent_span_id = GetCtx.parent_span_id
    <3>1. CASE ShouldTrace(k, m)
      <4>1. CallTraced(k)
        BY <2>5, <3>1 DEF Call
      <4>2. /\ ctx \in Ctx /\ GetCtx = ctx /\ ctx' \in Ctx
            /\ ctx' = [ctx EXCEPT !.depth = @ + 1,
                         !.span_stack = IF k = "user" THEN Append(@, calls + 1) ELSE @]
        BY <1>0, <3>1, <4>1, TracedCall
      <4>3. GetCtx' = ctx' /\ ctx'.parent_span_id = ctx.parent_span_id
        BY <4>2, HasCtxNext DEF Ctx
      <4> QED
        BY <4>2, <4>3
    <3>2. CASE ~ShouldTrace(k, m)
      <4>1. ctx' = GetCtx /\ GetCtx \in Ctx
        BY <1>0, <2>5, <3>2, CtxType DEF Call, CallUntraced
      <4> QED
        BY <4>1, HasCtxNext
    <3> QED
      BY <3>1, <3>2
  <2>6. CASE ~(Return /\ WasTraced) /\ ~RINIT /\ ~RSHUTDOWN
    <3>1. pushed \subseteq pushed'
      BY <2>6, NoSpanOtherwise
    <3>2. ASSUME ctx' = ctx PROVE GetCtx'.parent_span_id = GetCtx.parent_span_id
      BY <3>2 DEF GetCtx, HasCtx
    <3>3. GetCtx'.parent_span_id = GetCtx.parent_span_id /\ requests' = requests
      <4>1. CASE Return
        BY <1>0, <2>6, <3>2, <4>1, TopFrame DEF Return
      <4>2. CASE UNCHANGED <<ctx, requests>>
        BY <3>2, <4>2
      <4>3. ASSUME NEW k \in Kind, NEW m \in BOOLEAN, Call(k, m) PROVE requests' = requests
        BY <4>3 DEF Call
      <4> QED
        BY <2>5, <2>6, <4>1, <4>2, <4>3
           DEF Next, vars, Resume, Suspend, Bailout, CreateSpan, FinalizeSpan
    <3> QED
      BY <2>4, <3>1, <3>3
  <2> QED
    BY <2>1, <2>2, <2>3, <2>6
<1> QED
  BY <1>2, <1>3 DEF SpanInv

\* The invariant of the context.
THEOREM BaseInvariance == Spec => []BaseInv
<1>1. Init => BaseInv
  <2> SUFFICES ASSUME Init PROVE BaseInv
    OBVIOUS
  <2>1. TypeInv
    <3>1. 0 \in 0 .. MaxRequests /\ 0 \in 0 .. MaxIds /\ 0 \in 0 .. MaxCalls
      BY TracerAssumption
    <3>2. <<>> \in Seq(Frame) /\ <<>> \in Seq(Link)
      BY EmptySeq
    <3>3. [f \in Fiber |-> <<>>] \in [Fiber -> Seq(Frame)]
      BY <3>2
    <3>4. /\ serving \in BOOLEAN /\ requests = 0 /\ ids = 0 /\ calls = 0 /\ ctx = NoCtx
          /\ active = <<>> /\ chain = <<>> /\ parked = [f \in Fiber |-> <<>>] /\ chosen = Empty
      BY DEF Init
    <3> QED
      BY <3>1, <3>2, <3>3, <3>4 DEF TypeInv
  <2>2. ChainInv
    <3>1. chain = <<>> /\ Len(chain) = 0 /\ \A f \in Fiber : parked[f] = <<>>
      BY EmptySeq DEF Init
    <3> QED
      BY <3>1 DEF ChainInv
  <2>3. CtxInv
    BY DEF Init, CtxInv, HasCtx
  <2>4. AllFrames = {} /\ CallSpans = {}
    BY DEF Init, AllFrames, FramesOf, CallSpans
  <2>5. FrameInv
    BY <2>4 DEF FrameInv
  <2>6. SpanInv
    <3>1. GetCtx.parent_span_id = Empty
      BY DEF Init, GetCtx, HasCtx, Blank
    <3> QED
      BY <2>4, <3>1 DEF SpanInv, KnownParent
  <2> QED
    BY <2>1, <2>2, <2>3, <2>5, <2>6 DEF BaseInv
<1>2. BaseInv /\ [Next]_vars => BaseInv'
  BY TypeStep, ChainStep, CtxStep, FrameStep, SpanStep DEF BaseInv
<1> QED
  BY <1>1, <1>2, PTL DEF Spec

\* The types: a context is the null pointer or a whole TraceContext, its depth bounded by the
\* calls made, and every frame lies on one stack (php_trace_ctx and the locals of the hooks).
THEOREM Typed == Spec => []TypeOK
<1>1. BaseInv => TypeOK
  <2> SUFFICES ASSUME BaseInv PROVE TypeOK
    OBVIOUS
  <2>0. TypeInv /\ ChainInv /\ CtxInv
    BY DEF BaseInv
  <2>1. ASSUME NEW i \in DOMAIN chain
        PROVE  chain[i].fiber \in Fiber /\ chain[i].base \in 0 .. Len(active)
    <3>1. i \in 1 .. Len(chain) /\ Len(active) \in Nat
      BY <2>0, LenProperties DEF TypeInv
    <3>2. chain[i].base \in Nat /\ chain[i].fiber \in Fiber /\ chain[i].base <= Len(active)
      BY <2>0, <3>1, TopIsHighest DEF ChainInv
    <3> QED
      BY <3>1, <3>2
  <2>2. ASSUME ctx # NoCtx PROVE ctx \in Ctx /\ ctx.depth <= MaxCalls
    <3>1. ctx \in Ctx /\ ctx.depth <= calls
      BY <2>0, <2>2 DEF TypeInv, CtxInv, HasCtx
    <3>2. ctx.depth \in Nat /\ calls \in 0 .. MaxCalls /\ MaxCalls \in Nat
      BY <2>0, <3>1, TracerAssumption DEF TypeInv, Ctx
    <3> QED
      BY <3>1, <3>2
  <2>3. \A f \in Fiber : parked[f] \in Seq(Frame)
    BY <2>0 DEF TypeInv
  <2> QED
    BY <2>0, <2>1, <2>2, <2>3 DEF TypeOK, TypeInv, Ctx
<1> QED
  BY <1>1, BaseInvariance, PTL

\* The span of a call carries the trace id chosen when its request began, and no call of an
\* unsampled request has one: the frame of a traced call never outlives the context it began
\* under, whatever fibers and fatal errors do (php_trace.cpp, PHP_RINIT and both hooks).
THEOREM SpansHaveTrace == Spec => []CallSpansHaveTrace
<1>1. Init => CallSpansHaveTrace
  BY DEF Init, CallSpansHaveTrace, CallSpans
<1>2. BaseInv /\ CallSpansHaveTrace /\ [Next]_vars => CallSpansHaveTrace'
  <2> SUFFICES ASSUME BaseInv, CallSpansHaveTrace, [Next]_vars PROVE CallSpansHaveTrace'
    OBVIOUS
  <2>1. CASE Return /\ WasTraced
    <3>1. PICK s : s = Span(Top.span_parent)
      OBVIOUS
    <3>2. CallSpans' = CallSpans \cup {s} /\ s.trace_id = ctx.trace_id /\ s.chosen = chosen
      BY <2>1, <3>1, PushedSpan
    <3>3. HasCtx /\ ctx.in_trace /\ CtxInv
      BY <2>1, TopFrame DEF BaseInv, FrameOK, WasTraced
    <3>4. ctx.trace_id = chosen /\ chosen # Empty
      BY <3>3 DEF CtxInv
    <3> QED
      BY <3>2, <3>4 DEF CallSpansHaveTrace
  <2>2. CASE ~(Return /\ WasTraced)
    BY <2>2, NoSpanOtherwise DEF CallSpansHaveTrace
  <2> QED
    BY <2>1, <2>2
<1> QED
  BY <1>1, <1>2, BaseInvariance, PTL DEF Spec

\* A parent that is not the client's was pushed, earlier and in the same request: no fatal
\* error leaves the children of a span that never comes (both hooks, the span's parent).
THEOREM ParentsPushed == Spec => []ParentsWerePushed
<1>1. Init => ParentsWerePushed
  BY DEF Init, ParentsWerePushed, CallSpans
<1>2. BaseInv /\ ParentsWerePushed /\ [Next]_vars => ParentsWerePushed'
  <2> SUFFICES ASSUME BaseInv, ParentsWerePushed, [Next]_vars PROVE ParentsWerePushed'
    OBVIOUS
  <2>1. CASE Return /\ WasTraced
    <3>1. PICK s : s = Span(Top.span_parent)
      OBVIOUS
    <3>2. /\ CallSpans' = CallSpans \cup {s} /\ s.parent_span_id = Top.span_parent
          /\ s.span_id = ids + 1 /\ s.request = requests
      BY <2>1, <3>1, PushedSpan
    <3>3. KnownParent(Top.span_parent) /\ SpanInv /\ ids \in Nat
      BY <2>1, TopFrame, TracerAssumption DEF BaseInv, TypeInv, FrameOK, WasTraced
    <3>4. ASSUME s.parent_span_id \notin {Empty, Remote}
          PROVE  \E t \in CallSpans' : t.span_id = s.parent_span_id /\ t.span_id < s.span_id
                                       /\ t.request = s.request
      <4>1. PICK t \in CallSpans : t.span_id = Top.span_parent /\ t.request = requests
        BY <3>2, <3>3, <3>4 DEF KnownParent
      <4>2. t.span_id \in Nat /\ t.span_id <= ids
        BY <3>3, <4>1 DEF SpanInv
      <4>3. t.span_id < s.span_id
        BY <3>2, <3>3, <4>2
      <4> QED
        BY <3>2, <4>1, <4>3
    <3>5. ASSUME NEW r \in CallSpans', r.parent_span_id \notin {Empty, Remote}
          PROVE  \E t \in CallSpans' : t.span_id = r.parent_span_id /\ t.span_id < r.span_id
                                       /\ t.request = r.request
      <4>1. CASE r = s
        BY <3>4, <3>5, <4>1
      <4>2. CASE r \in CallSpans
        BY <3>2, <3>5, <4>2 DEF ParentsWerePushed
      <4> QED
        BY <3>2, <3>5, <4>1, <4>2
    <3> QED
      BY <3>5 DEF ParentsWerePushed
  <2>2. CASE ~(Return /\ WasTraced)
    BY <2>2, NoSpanOtherwise DEF ParentsWerePushed
  <2> QED
    BY <2>1, <2>2
<1> QED
  BY <1>1, <1>2, BaseInvariance, PTL DEF Spec

-----------------------------------------------------------------------------
(***************************************************************************)
(* Counting the open traced calls.                                         *)
(***************************************************************************)
\* The traced calls of some kinds among the first frames of a stack.
OpenAt(s, i, K) == {j \in 1 .. i : s[j].trace_this /\ s[j].kind \in K}
OpenTo(s, i, K) == Cardinality(OpenAt(s, i, K))

\* A count is a number, zero of no frame, and grows with the stack.
LEMMA CountType ==
  ASSUME NEW s, NEW K, NEW i \in Nat
  PROVE  /\ IsFiniteSet(OpenAt(s, i, K)) /\ OpenTo(s, i, K) \in Nat
         /\ OpenTo(s, 0, K) = 0
         /\ \A m \in 0 .. i : OpenTo(s, m, K) <= OpenTo(s, i, K)
<1>1. IsFiniteSet(1 .. i)
  BY FS_Interval
<1>2. IsFiniteSet(OpenAt(s, i, K))
  <2>1. OpenAt(s, i, K) \subseteq 1 .. i
    BY DEF OpenAt
  <2> QED
    BY <1>1, <2>1, FS_Subset
<1>3. OpenTo(s, i, K) \in Nat
  BY <1>2, FS_CardinalityType DEF OpenTo
<1>4. OpenTo(s, 0, K) = 0
  <2>1. OpenAt(s, 0, K) = {}
    BY DEF OpenAt
  <2> QED
    BY <2>1, FS_EmptySet DEF OpenTo
<1>5. ASSUME NEW m \in 0 .. i PROVE OpenTo(s, m, K) <= OpenTo(s, i, K)
  <2>1. OpenAt(s, m, K) \subseteq OpenAt(s, i, K)
    BY DEF OpenAt
  <2> QED
    BY <1>2, <2>1, FS_Subset DEF OpenTo
<1> QED
  BY <1>2, <1>3, <1>4, <1>5

\* One frame more counts if it is of a traced call of these kinds.
LEMMA CountNext ==
  ASSUME NEW s, NEW K, NEW i \in Nat
  PROVE  /\ s[i + 1].trace_this /\ s[i + 1].kind \in K
              => OpenTo(s, i + 1, K) = OpenTo(s, i, K) + 1
         /\ ~(s[i + 1].trace_this /\ s[i + 1].kind \in K)
              => OpenTo(s, i + 1, K) = OpenTo(s, i, K)
<1>1. IsFiniteSet(OpenAt(s, i, K)) /\ i + 1 \notin OpenAt(s, i, K)
  <2>1. IsFiniteSet(OpenAt(s, i, K))
    BY CountType
  <2>2. i + 1 \notin OpenAt(s, i, K)
    BY DEF OpenAt
  <2> QED
    BY <2>1, <2>2
<1>2. ASSUME s[i + 1].trace_this /\ s[i + 1].kind \in K
      PROVE  OpenTo(s, i + 1, K) = OpenTo(s, i, K) + 1
  <2>1. OpenAt(s, i + 1, K) = OpenAt(s, i, K) \cup {i + 1}
    BY <1>2 DEF OpenAt
  <2> QED
    BY <1>1, <2>1, FS_AddElement DEF OpenTo
<1>3. ASSUME ~(s[i + 1].trace_this /\ s[i + 1].kind \in K)
      PROVE  OpenTo(s, i + 1, K) = OpenTo(s, i, K)
  <2>1. OpenAt(s, i + 1, K) = OpenAt(s, i, K)
    BY <1>3 DEF OpenAt
  <2> QED
    BY <2>1 DEF OpenTo
<1> QED
  BY <1>2, <1>3

\* The count depends on the frames it counts.
LEMMA CountSame ==
  ASSUME NEW s, NEW t, NEW K, NEW i \in Nat, \A j \in 1 .. i : s[j] = t[j]
  PROVE  OpenTo(s, i, K) = OpenTo(t, i, K)
<1>1. OpenAt(s, i, K) = OpenAt(t, i, K)
  BY DEF OpenAt
<1> QED
  BY <1>1 DEF OpenTo

\* Frames of calls that are not traced do not count.
LEMMA CountNone ==
  ASSUME NEW s, NEW K, NEW n \in Nat, NEW m \in 0 .. n,
         \A j \in m + 1 .. n : ~s[j].trace_this
  PROVE  OpenTo(s, n, K) = OpenTo(s, m, K)
<1>1. OpenAt(s, n, K) = OpenAt(s, m, K)
  BY DEF OpenAt
<1> QED
  BY <1>1 DEF OpenTo

\* Without a switch over a traced call, the fibers that are not running have none open.
ParkedInv ==
  "switch" \notin upset =>
    \A f \in Fiber : \A i \in 1 .. Len(parked[f]) : ~parked[f][i].trace_this

\* What a call that begins does to the counts.
LEMMA CallCounts ==
  ASSUME TypeInv, NEW fr \in Frame, active' = Append(active, fr), NEW K
  PROVE  /\ fr.trace_this /\ fr.kind \in K =>
              OpenTo(active', Len(active'), K) = OpenTo(active, Len(active), K) + 1
         /\ ~(fr.trace_this /\ fr.kind \in K) =>
              OpenTo(active', Len(active'), K) = OpenTo(active, Len(active), K)
         /\ \A i \in 0 .. Len(active) : OpenTo(active', i, K) = OpenTo(active, i, K)
<1>1. /\ Len(active) \in Nat /\ Len(active') = Len(active) + 1
      /\ active'[Len(active) + 1] = fr
      /\ \A i \in 1 .. Len(active) : active'[i] = active[i]
  BY CallStack
<1>2. ASSUME NEW i \in 0 .. Len(active) PROVE OpenTo(active', i, K) = OpenTo(active, i, K)
  <2>1. i \in Nat /\ \A j \in 1 .. i : active'[j] = active[j]
    BY <1>1
  <2> QED
    BY <2>1, CountSame
<1>3. /\ fr.trace_this /\ fr.kind \in K =>
           OpenTo(active', Len(active) + 1, K) = OpenTo(active', Len(active), K) + 1
      /\ ~(fr.trace_this /\ fr.kind \in K) =>
           OpenTo(active', Len(active) + 1, K) = OpenTo(active', Len(active), K)
  BY <1>1, CountNext
<1>4. OpenTo(active', Len(active), K) = OpenTo(active, Len(active), K)
  BY <1>1, <1>2
<1> QED
  BY <1>1, <1>2, <1>3, <1>4

\* What a call that is over does to the counts.
LEMMA ReturnCounts ==
  ASSUME TypeInv, ChainInv, Return, NEW K
  PROVE  /\ Top.trace_this /\ Top.kind \in K =>
              OpenTo(active, Len(active), K) = OpenTo(active', Len(active'), K) + 1
         /\ ~(Top.trace_this /\ Top.kind \in K) =>
              OpenTo(active, Len(active), K) = OpenTo(active', Len(active'), K)
         /\ \A i \in 0 .. Len(active') : OpenTo(active', i, K) = OpenTo(active, i, K)
<1> DEFINE n == Len(active')
<1>1. /\ n \in Nat /\ Len(active) = n + 1
      /\ \A i \in 1 .. n : active'[i] = active[i]
  BY ReturnStack
<1> HIDE DEF n
<1>2. ASSUME NEW i \in 0 .. n PROVE OpenTo(active', i, K) = OpenTo(active, i, K)
  <2>1. i \in Nat /\ \A j \in 1 .. i : active'[j] = active[j]
    BY <1>1
  <2> QED
    BY <2>1, CountSame
<1>3. active[n + 1] = Top
  BY <1>1 DEF Top
<1>4. /\ Top.trace_this /\ Top.kind \in K =>
           OpenTo(active, n + 1, K) = OpenTo(active, n, K) + 1
      /\ ~(Top.trace_this /\ Top.kind \in K) =>
           OpenTo(active, n + 1, K) = OpenTo(active, n, K)
  BY <1>1, <1>3, CountNext
<1>5. OpenTo(active', n, K) = OpenTo(active, n, K)
  BY <1>1, <1>2
<1> QED
  BY <1>1, <1>2, <1>4, <1>5 DEF n

\* A fiber that suspends or is resumed with no traced call open leaves the counts alone.
LEMMA SwitchCounts ==
  ASSUME TypeInv, ChainInv, ParkedInv, "switch" \notin upset',
         Suspend \/ \E f \in Fiber : Resume(f), NEW K
  PROVE  /\ upset' = upset
         /\ OpenTo(active', Len(active'), K) = OpenTo(active, Len(active), K)
         /\ \A i \in 1 .. Len(active') :
              active'[i].trace_this =>
                /\ i \in 1 .. Len(active) /\ active'[i] = active[i]
                /\ OpenTo(active', i, K) = OpenTo(active, i, K)
                /\ OpenTo(active', i - 1, K) = OpenTo(active, i - 1, K)
<1>1. CASE Suspend
  <2>1. /\ Len(active) \in Nat /\ Base \in 0 .. Len(active) /\ Len(active') = Base
        /\ \A i \in 1 .. Base : active'[i] = active[i]
    BY <1>1, SuspendStack
  <2>2. ~\E i \in Base + 1 .. Len(active) : active[i].trace_this
    BY <1>1 DEF Suspend
  <2>3. upset' = upset
    BY <1>1, <2>2 DEF Suspend
  <2>4. ASSUME NEW i \in 0 .. Base PROVE OpenTo(active', i, K) = OpenTo(active, i, K)
    <3>1. i \in Nat /\ \A j \in 1 .. i : active'[j] = active[j]
      BY <2>1
    <3> QED
      BY <3>1, CountSame
  <2>5. OpenTo(active, Len(active), K) = OpenTo(active, Base, K)
    BY <2>1, <2>2, CountNone
  <2>6. OpenTo(active', Len(active'), K) = OpenTo(active, Len(active), K)
    <3>1. Base \in 0 .. Base
      BY <2>1
    <3> QED
      BY <2>1, <2>4, <2>5, <3>1
  <2>7. ASSUME NEW i \in 1 .. Len(active')
        PROVE  /\ i \in 1 .. Len(active) /\ active'[i] = active[i]
               /\ OpenTo(active', i, K) = OpenTo(active, i, K)
               /\ OpenTo(active', i - 1, K) = OpenTo(active, i - 1, K)
    <3>1. i \in 1 .. Base /\ i \in 0 .. Base /\ i - 1 \in 0 .. Base /\ i \in 1 .. Len(active)
      BY <2>1
    <3> QED
      BY <2>1, <2>4, <3>1
  <2> QED
    BY <2>3, <2>6, <2>7
<1>2. ASSUME NEW f \in Fiber, Resume(f)
      PROVE  /\ upset' = upset
             /\ OpenTo(active', Len(active'), K) = OpenTo(active, Len(active), K)
             /\ \A i \in 1 .. Len(active') :
                  active'[i].trace_this =>
                    /\ i \in 1 .. Len(active) /\ active'[i] = active[i]
                    /\ OpenTo(active', i, K) = OpenTo(active, i, K)
                    /\ OpenTo(active', i - 1, K) = OpenTo(active, i - 1, K)
  <2>1. upset' = upset
    BY <1>2 DEF Resume, history_vars
  <2>2. \A i \in 1 .. Len(parked[f]) : ~parked[f][i].trace_this
    BY <2>1 DEF ParkedInv
  <2>3. /\ Len(active) \in Nat /\ Len(parked[f]) \in Nat
        /\ Len(active') = Len(active) + Len(parked[f])
        /\ \A i \in 1 .. Len(active) : active'[i] = active[i]
        /\ \A i \in 1 .. Len(parked[f]) : active'[Len(active) + i] = parked[f][i]
    BY <1>2, ResumeStack
  <2>4. ASSUME NEW i \in Len(active) + 1 .. Len(active') PROVE ~active'[i].trace_this
    <3>1. PICK j \in 1 .. Len(parked[f]) : i = Len(active) + j
      <4>1. i - Len(active) \in 1 .. Len(parked[f]) /\ i = Len(active) + (i - Len(active))
        BY <2>3
      <4> QED
        BY <4>1
    <3> QED
      BY <2>2, <2>3, <3>1
  <2>5. ASSUME NEW i \in 0 .. Len(active) PROVE OpenTo(active', i, K) = OpenTo(active, i, K)
    <3>1. i \in Nat /\ \A j \in 1 .. i : active'[j] = active[j]
      BY <2>3
    <3> QED
      BY <3>1, CountSame
  <2>6. OpenTo(active', Len(active'), K) = OpenTo(active', Len(active), K)
    <3>1. Len(active') \in Nat /\ Len(active) \in 0 .. Len(active')
      BY <2>3
    <3> QED
      BY <2>4, <3>1, CountNone
  <2>7. Len(active) \in 0 .. Len(active)
    BY <2>3
  <2>8. ASSUME NEW i \in 1 .. Len(active'), active'[i].trace_this
        PROVE  /\ i \in 1 .. Len(active) /\ active'[i] = active[i]
               /\ OpenTo(active', i, K) = OpenTo(active, i, K)
               /\ OpenTo(active', i - 1, K) = OpenTo(active, i - 1, K)
    <3>1. i \notin Len(active) + 1 .. Len(active')
      BY <2>4, <2>8
    <3>2. i \in 1 .. Len(active) /\ i \in 0 .. Len(active) /\ i - 1 \in 0 .. Len(active)
      BY <2>3, <3>1
    <3> QED
      BY <2>3, <2>5, <3>2
  <2> QED
    BY <2>1, <2>5, <2>6, <2>7, <2>8
<1> QED
  BY <1>1, <1>2

\* A step over which the open traced calls of some kinds stay the same, each where it was.
SameOpen(K) ==
  /\ OpenTo(active', Len(active'), K) = OpenTo(active, Len(active), K)
  /\ \A i \in 1 .. Len(active') :
       active'[i].trace_this =>
         /\ i \in 1 .. Len(active) /\ active'[i] = active[i]
         /\ OpenTo(active', i, K) = OpenTo(active, i, K)
         /\ OpenTo(active', i - 1, K) = OpenTo(active, i - 1, K)

\* A step that begins and ends no traced call, and leaves the context alone.
Steady ==
  /\ UNCHANGED <<upset, serving>> /\ GetCtx' = GetCtx
  /\ SameOpen(Kind) /\ SameOpen({"user"})

\* The steps that unwind the stack.
Reset == RINIT \/ RSHUTDOWN \/ Bailout

\* Every step begins a traced call, ends one, unwinds the stack or is steady.
LEMMA StepKinds ==
  ASSUME BaseInv, ParkedInv, [Next]_vars, "switch" \notin upset'
  PROVE  \/ Reset
         \/ \E k \in Kind, m \in BOOLEAN : Call(k, m) /\ ShouldTrace(k, m)
         \/ Return /\ WasTraced
         \/ Steady
<1>0. TypeInv /\ ChainInv /\ FrameInv /\ Len(active) \in Nat
  BY LenProperties DEF BaseInv, TypeInv
<1>1. ASSUME NEW k \in Kind, NEW m \in BOOLEAN, Call(k, m), ~ShouldTrace(k, m) PROVE Steady
  <2>1. active' = Append(active, Untraced) /\ ctx' = GetCtx /\ UNCHANGED <<upset, serving>>
    BY <1>1 DEF Call, CallUntraced, history_vars
  <2>2. GetCtx' = GetCtx
    BY <1>0, <2>1, CtxType, HasCtxNext
  <2>3. ~Untraced.trace_this
    BY DEF Untraced
  <2>4. /\ Len(active') = Len(active) + 1 /\ active'[Len(active) + 1] = Untraced
        /\ \A i \in 1 .. Len(active) : active'[i] = active[i]
    BY <1>0, <2>1, UntracedFrame, CallStack
  <2>5. ASSUME NEW K PROVE SameOpen(K)
    <3>1. /\ OpenTo(active', Len(active'), K) = OpenTo(active, Len(active), K)
          /\ \A i \in 0 .. Len(active) : OpenTo(active', i, K) = OpenTo(active, i, K)
      BY <1>0, <2>1, <2>3, UntracedFrame, CallCounts
    <3>2. ASSUME NEW i \in 1 .. Len(active'), active'[i].trace_this
          PROVE  /\ i \in 1 .. Len(active) /\ active'[i] = active[i]
                 /\ OpenTo(active', i, K) = OpenTo(active, i, K)
                 /\ OpenTo(active', i - 1, K) = OpenTo(active, i - 1, K)
      <4>1. i # Len(active) + 1
        BY <2>3, <2>4, <3>2
      <4>2. i \in 1 .. Len(active) /\ i \in 0 .. Len(active) /\ i - 1 \in 0 .. Len(active)
        BY <1>0, <2>4, <4>1
      <4> QED
        BY <2>4, <3>1, <4>2
    <3> QED
      BY <3>1, <3>2 DEF SameOpen
  <2> QED
    BY <2>1, <2>2, <2>5 DEF Steady
<1>2. ASSUME Return, ~WasTraced PROVE Steady
  <2>1. ctx' = ctx /\ UNCHANGED <<upset, serving>> /\ ~Top.trace_this
    BY <1>0, <1>2, TopFrame DEF Return, WasTraced, history_vars
  <2>2. GetCtx' = GetCtx
    BY <2>1 DEF GetCtx, HasCtx
  <2>3. /\ Len(active') = Len(active) - 1 /\ Len(active) \in Nat \ {0}
        /\ \A i \in 1 .. Len(active) - 1 : active'[i] = active[i]
    BY <1>0, <1>2, ReturnStack
  <2>4. ASSUME NEW K PROVE SameOpen(K)
    <3>1. /\ OpenTo(active', Len(active'), K) = OpenTo(active, Len(active), K)
          /\ \A i \in 0 .. Len(active') : OpenTo(active', i, K) = OpenTo(active, i, K)
      BY <1>0, <1>2, <2>1, ReturnCounts
    <3>2. ASSUME NEW i \in 1 .. Len(active')
          PROVE  /\ i \in 1 .. Len(active) /\ active'[i] = active[i]
                 /\ OpenTo(active', i, K) = OpenTo(active, i, K)
                 /\ OpenTo(active', i - 1, K) = OpenTo(active, i - 1, K)
      <4>1. i \in 1 .. Len(active) /\ i \in 1 .. Len(active) - 1
            /\ i \in 0 .. Len(active') /\ i - 1 \in 0 .. Len(active')
        BY <2>3
      <4> QED
        BY <2>3, <3>1, <4>1
    <3> QED
      BY <3>1, <3>2 DEF SameOpen
  <2> QED
    BY <2>1, <2>2, <2>4 DEF Steady
<1>3. ASSUME Suspend \/ \E f \in Fiber : Resume(f) PROVE Steady
  <2>1. upset' = upset /\ SameOpen(Kind) /\ SameOpen({"user"})
    BY <1>0, <1>3, SwitchCounts DEF SameOpen
  <2>2. ctx' = ctx /\ serving' = serving
    BY <1>3 DEF Suspend, Resume
  <2>3. GetCtx' = GetCtx
    BY <2>2 DEF GetCtx, HasCtx
  <2> QED
    BY <2>1, <2>2, <2>3 DEF Steady
<1>4. ASSUME UNCHANGED <<active, upset, serving, ctx>> PROVE Steady
  <2>1. SameOpen(Kind) /\ SameOpen({"user"})
    BY <1>4 DEF SameOpen
  <2>2. GetCtx' = GetCtx
    BY <1>4 DEF GetCtx, HasCtx
  <2> QED
    BY <1>4, <2>1, <2>2 DEF Steady
<1>5. CreateSpan \/ (\E id : FinalizeSpan(id)) \/ UNCHANGED vars
        => UNCHANGED <<active, upset, serving, ctx>>
  BY DEF CreateSpan, FinalizeSpan, vars, stack_vars, history_vars
<1> QED
  BY <1>1, <1>2, <1>3, <1>4, <1>5 DEF Next, Reset

\* An unwound stack is empty.
LEMMA ResetEmpty ==
  ASSUME BaseInv, Reset
  PROVE  /\ active' = <<>> /\ Len(active') = 0
         /\ \A K : OpenTo(active', Len(active'), K) = 0
<1>1. active' = <<>> /\ Len(active') = 0
  BY EmptySeq DEF Reset, RINIT, RSHUTDOWN, Bailout, stack_vars
<1> QED
  BY <1>1, CountType

\* Parked fibers have no traced call open.
LEMMA ParkedStep == BaseInv /\ ParkedInv /\ [Next]_vars => ParkedInv'
<1> SUFFICES ASSUME BaseInv, ParkedInv, [Next]_vars PROVE ParkedInv'
  OBVIOUS
<1>0. TypeInv /\ ChainInv
  BY DEF BaseInv
<1>1. CASE RINIT \/ RSHUTDOWN
  <2>1. \A f \in Fiber : parked'[f] = <<>>
    BY <1>0, <1>1 DEF RINIT, RSHUTDOWN, ChainInv, stack_vars
  <2>2. \A f \in Fiber : Len(parked'[f]) = 0
    BY <2>1, EmptySeq
  <2> QED
    BY <2>2 DEF ParkedInv
<1>2. CASE Suspend
  <2>1. ASSUME "switch" \notin upset', NEW f \in Fiber, NEW i \in 1 .. Len(parked'[f])
        PROVE  ~parked'[f][i].trace_this
    <3>1. /\ parked' = [parked EXCEPT ![TopFiber] = Above] /\ parked \in [Fiber -> Seq(Frame)]
          /\ Len(active) \in Nat /\ Base \in 0 .. Len(active)
          /\ \A j \in 1 .. Len(active) - Base : Above[j] = active[Base + j]
          /\ Above \in Seq(Frame) /\ Len(Above) = Len(active) - Base
      BY <1>0, <1>2, SuspendStack DEF TypeInv
    <3>2. ~\E j \in Base + 1 .. Len(active) : active[j].trace_this
      BY <1>2, <2>1 DEF Suspend
    <3>3. upset' = upset
      BY <1>2, <3>2 DEF Suspend
    <3>4. CASE f = TopFiber
      <4>1. parked'[f] = Above
        BY <3>1, <3>4
      <4>2. i \in 1 .. Len(active) - Base
        BY <2>1, <3>1, <4>1
      <4>3. Base + i \in Base + 1 .. Len(active) /\ Above[i] = active[Base + i]
        BY <3>1, <4>2
      <4> QED
        BY <3>2, <4>1, <4>3
    <3>5. CASE f # TopFiber
      <4>1. parked'[f] = parked[f]
        BY <3>1, <3>5
      <4> QED
        BY <2>1, <3>3, <4>1 DEF ParkedInv
    <3> QED
      BY <3>4, <3>5
  <2> QED
    BY <2>1 DEF ParkedInv
<1>3. ASSUME NEW f \in Fiber, Resume(f) PROVE ParkedInv'
  <2>1. parked' = [parked EXCEPT ![f] = <<>>] /\ parked \in [Fiber -> Seq(Frame)]
        /\ upset' = upset
    BY <1>0, <1>3 DEF Resume, TypeInv, history_vars
  <2>2. ASSUME "switch" \notin upset', NEW g \in Fiber, NEW i \in 1 .. Len(parked'[g])
        PROVE  ~parked'[g][i].trace_this
    <3>1. parked'[g] = <<>> \/ parked'[g] = parked[g]
      BY <2>1
    <3>2. parked'[g] # <<>>
      BY <2>2, EmptySeq
    <3> QED
      BY <2>1, <2>2, <3>1, <3>2 DEF ParkedInv
  <2> QED
    BY <2>2 DEF ParkedInv
<1>4. CASE parked' = parked /\ upset \subseteq upset'
  BY <1>4 DEF ParkedInv
<1> QED
  BY <1>1, <1>2, <1>3, <1>4
     DEF Next, vars, Call, Return, Bailout, CreateSpan, FinalizeSpan, stack_vars, history_vars

-----------------------------------------------------------------------------
(***************************************************************************)
(* Depth, nesting and start times.                                         *)
(***************************************************************************)
TracedTo(i) == OpenTo(active, i, Kind)
UserTo(i) == OpenTo(active, i, {"user"})
Height == Len(active)
Starts == GetCtx.span_stack

\* The context never counts fewer traced calls than are open, nor does a frame.
DepthInv ==
  "switch" \notin upset =>
    /\ TracedTo(Height) <= GetCtx.depth
    /\ \A i \in 1 .. Height : active[i].trace_this => TracedTo(i - 1) <= active[i].depth_before

\* On top of what fatal errors left behind, span_stack holds the start times of the open
\* user calls, in order.
StartInv ==
  "switch" \notin upset =>
    /\ UserTo(Height) <= Len(Starts)
    /\ \A i \in 1 .. Height :
         active[i].trace_this /\ active[i].kind = "user" =>
           Starts[Len(Starts) - UserTo(Height) + UserTo(i)] = active[i].call

\* Until a fatal error or a switch the context is exact.
CalmInv ==
  serving /\ upset = {} =>
    /\ TracedTo(Height) = GetCtx.depth /\ UserTo(Height) = Len(Starts)
    /\ \A i \in 1 .. Height : active[i].trace_this => TracedTo(i - 1) = active[i].depth_before

StackInv == ParkedInv /\ DepthInv /\ StartInv /\ CalmInv

\* The counts and the context's depth are numbers.
LEMMA HeightType ==
  ASSUME BaseInv
  PROVE  /\ Height \in Nat /\ GetCtx \in Ctx /\ GetCtx.depth \in Nat
         /\ Starts \in Seq(1 .. MaxCalls) /\ Len(Starts) \in Nat
         /\ \A i \in 0 .. Height :
              /\ TracedTo(i) \in Nat /\ UserTo(i) \in Nat
              /\ TracedTo(i) <= TracedTo(Height) /\ UserTo(i) <= UserTo(Height)
         /\ \A i \in 1 .. Height : active[i] \in Frame
<1>1. Height \in Nat /\ active \in Seq(Frame)
  BY LenProperties DEF BaseInv, TypeInv, Height
<1>2. GetCtx \in Ctx
  BY CtxType DEF BaseInv
<1>3. GetCtx.depth \in Nat /\ Starts \in Seq(1 .. MaxCalls)
  BY <1>2 DEF Ctx, Starts
<1>4. Len(Starts) \in Nat
  BY <1>3, LenProperties
<1>5. ASSUME NEW i \in 0 .. Height
      PROVE  /\ TracedTo(i) \in Nat /\ UserTo(i) \in Nat
             /\ TracedTo(i) <= TracedTo(Height) /\ UserTo(i) <= UserTo(Height)
  <2>1. i \in Nat
    BY <1>1
  <2> QED
    BY <1>1, <2>1, CountType DEF TracedTo, UserTo
<1>6. \A i \in 1 .. Height : active[i] \in Frame
  BY <1>1, ElementOfSeq DEF Height
<1> QED
  BY <1>1, <1>2, <1>3, <1>4, <1>5, <1>6

\* An open call counts itself.
LEMMA CountsItself ==
  ASSUME BaseInv, NEW i \in 1 .. Height, active[i].trace_this
  PROVE  /\ TracedTo(i) = TracedTo(i - 1) + 1 /\ TracedTo(i - 1) \in Nat
         /\ active[i].kind = "user" => UserTo(i) = UserTo(i - 1) + 1 /\ UserTo(i - 1) \in Nat
<1>1. Height \in Nat /\ active[i] \in Frame
  BY HeightType
<1>2. i - 1 \in Nat /\ i - 1 + 1 = i /\ i - 1 \in 0 .. Height
  BY <1>1
<1>3. active[i].kind \in Kind
  BY <1>1 DEF Frame
<1>4. TracedTo(i - 1) \in Nat /\ UserTo(i - 1) \in Nat
  BY <1>2, HeightType
<1>5. TracedTo(i) = TracedTo(i - 1) + 1
  <2>1. OpenTo(active, i - 1 + 1, Kind) = OpenTo(active, i - 1, Kind) + 1
    BY <1>2, <1>3, CountNext
  <2> QED
    BY <1>2, <2>1 DEF TracedTo
<1>6. ASSUME active[i].kind = "user" PROVE UserTo(i) = UserTo(i - 1) + 1
  <2>1. OpenTo(active, i - 1 + 1, {"user"}) = OpenTo(active, i - 1, {"user"}) + 1
    BY <1>2, <1>6, CountNext
  <2> QED
    BY <1>2, <2>1 DEF UserTo
<1> QED
  BY <1>4, <1>5, <1>6

\* Steady steps keep the counts.
LEMMA SteadyStep ==
  ASSUME BaseInv, DepthInv, StartInv, CalmInv, Steady
  PROVE  DepthInv' /\ StartInv' /\ CalmInv'
<1>1. /\ upset' = upset /\ serving' = serving
      /\ GetCtx'.depth = GetCtx.depth /\ Starts' = Starts
      /\ TracedTo(Height)' = TracedTo(Height) /\ UserTo(Height)' = UserTo(Height)
  BY DEF Steady, SameOpen, TracedTo, UserTo, Height, Starts
<1>2. \A i \in 1 .. Height' :
        active'[i].trace_this =>
          /\ i \in 1 .. Height /\ active'[i] = active[i]
          /\ TracedTo(i - 1)' = TracedTo(i - 1) /\ UserTo(i)' = UserTo(i)
  BY DEF Steady, SameOpen, TracedTo, UserTo, Height
<1>3. DepthInv'
  BY <1>1, <1>2, Zenon DEF DepthInv
<1>4. StartInv'
  BY <1>1, <1>2, Zenon DEF StartInv
<1>5. CalmInv'
  BY <1>1, <1>2, Zenon DEF CalmInv
<1> QED
  BY <1>3, <1>4, <1>5

\* What a traced call that begins does to the context and the counts.
LEMMA BeginFacts ==
  ASSUME BaseInv, NEW k \in Kind, NEW m \in BOOLEAN, Call(k, m), ShouldTrace(k, m)
  PROVE  /\ upset' = upset /\ serving' = serving
         /\ Height' = Height + 1 /\ active'[Height + 1] = NewFrame(k)
         /\ NewFrame(k).trace_this /\ NewFrame(k).kind = k /\ NewFrame(k).call = calls + 1
         /\ NewFrame(k).depth_before = GetCtx.depth
         /\ \A i \in 1 .. Height : active'[i] = active[i]
         /\ \A i \in 0 .. Height : TracedTo(i)' = TracedTo(i) /\ UserTo(i)' = UserTo(i)
         /\ TracedTo(Height)' = TracedTo(Height) + 1
         /\ k = "user" => /\ UserTo(Height)' = UserTo(Height) + 1
                          /\ Starts' = Append(Starts, calls + 1)
         /\ k # "user" => UserTo(Height)' = UserTo(Height) /\ Starts' = Starts
         /\ GetCtx'.depth = GetCtx.depth + 1
         /\ calls + 1 \in 1 .. MaxCalls
<1>0. TypeInv
  BY DEF BaseInv
<1>1. CallTraced(k) /\ upset' = upset /\ serving' = serving
  BY DEF Call, history_vars
<1>2. /\ ctx \in Ctx /\ GetCtx = ctx /\ ctx' \in Ctx
      /\ NewFrame(k) \in Frame /\ active' = Append(active, NewFrame(k))
      /\ ctx' = [ctx EXCEPT !.depth = @ + 1,
                   !.span_stack = IF k = "user" THEN Append(@, calls + 1) ELSE @]
      /\ calls + 1 \in 1 .. MaxCalls
  BY <1>0, <1>1, TracedCall
<1>3. /\ GetCtx'.depth = GetCtx.depth + 1
      /\ k = "user" => Starts' = Append(Starts, calls + 1)
      /\ k # "user" => Starts' = Starts
  <2>1. GetCtx' = ctx'
    BY <1>2, HasCtxNext
  <2>2. /\ ctx'.depth = ctx.depth + 1
        /\ k = "user" => ctx'.span_stack = Append(ctx.span_stack, calls + 1)
        /\ k # "user" => ctx'.span_stack = ctx.span_stack
    BY <1>2 DEF Ctx
  <2> QED
    BY <1>2, <2>1, <2>2 DEF Starts
<1>4. /\ Height' = Height + 1 /\ active'[Height + 1] = NewFrame(k)
      /\ \A i \in 1 .. Height : active'[i] = active[i]
  BY <1>0, <1>2, CallStack DEF Height
<1>5. /\ NewFrame(k).trace_this /\ NewFrame(k).kind = k /\ NewFrame(k).call = calls + 1
      /\ NewFrame(k).depth_before = GetCtx.depth
  BY <1>2 DEF NewFrame
<1>6. /\ \A i \in 0 .. Height : TracedTo(i)' = TracedTo(i)
      /\ TracedTo(Height)' = TracedTo(Height) + 1
  BY <1>0, <1>2, <1>5, CallCounts DEF TracedTo, Height
<1>7. /\ \A i \in 0 .. Height : UserTo(i)' = UserTo(i)
      /\ k = "user" => UserTo(Height)' = UserTo(Height) + 1
      /\ k # "user" => UserTo(Height)' = UserTo(Height)
  <2>1. NewFrame(k).kind \in {"user"} <=> k = "user"
    BY <1>5
  <2> QED
    BY <1>0, <1>2, <1>5, <2>1, CallCounts DEF UserTo, Height
<1> QED
  BY <1>1, <1>2, <1>3, <1>4, <1>5, <1>6, <1>7

\* A traced call that begins keeps the context ahead of the stack.
LEMMA BeginStep ==
  ASSUME BaseInv, DepthInv, StartInv, CalmInv,
         NEW k \in Kind, NEW m \in BOOLEAN, Call(k, m), ShouldTrace(k, m)
  PROVE  DepthInv' /\ StartInv' /\ CalmInv'
<1> DEFINE H == Height
           fr == NewFrame(k)
           T(i) == TracedTo(i)
           U(i) == UserTo(i)
           D == GetCtx.depth
           L == Len(Starts)
           c == calls + 1
<1>1. /\ upset' = upset /\ serving' = serving
      /\ Height' = H + 1 /\ active'[H + 1] = fr
      /\ fr.trace_this /\ fr.kind = k /\ fr.call = c /\ fr.depth_before = D
      /\ \A i \in 1 .. H : active'[i] = active[i]
      /\ \A i \in 0 .. H : TracedTo(i)' = T(i) /\ UserTo(i)' = U(i)
      /\ TracedTo(Height)' = T(H) + 1
      /\ k = "user" => UserTo(Height)' = U(H) + 1 /\ Starts' = Append(Starts, c)
      /\ k # "user" => UserTo(Height)' = U(H) /\ Starts' = Starts
      /\ GetCtx'.depth = D + 1 /\ c \in 1 .. MaxCalls
  BY BeginFacts
<1>2. /\ H \in Nat /\ D \in Nat /\ L \in Nat /\ Starts \in Seq(1 .. MaxCalls)
      /\ \A i \in 0 .. H : T(i) \in Nat /\ U(i) \in Nat /\ T(i) <= T(H) /\ U(i) <= U(H)
  BY HeightType
<1>3. /\ T(H) \in Nat /\ U(H) \in Nat /\ H \in 0 .. H
  BY <1>2
<1>4. /\ k = "user" => /\ Len(Starts') = L + 1 /\ Starts'[L + 1] = c
                       /\ \A i \in 1 .. L : Starts'[i] = Starts[i]
      /\ k # "user" => Len(Starts') = L
  <2>1. CASE k = "user"
    <3>1. Starts' = Append(Starts, c) /\ c \in 1 .. MaxCalls /\ Starts \in Seq(1 .. MaxCalls)
      BY <1>1, <1>2, <2>1
    <3>2. /\ Len(Append(Starts, c)) = L + 1 /\ Append(Starts, c)[L + 1] = c
          /\ \A i \in 1 .. L : Append(Starts, c)[i] = Starts[i]
      BY <3>1, AppendProperties
    <3> QED
      BY <2>1, <3>1, <3>2, Zenon
  <2>2. CASE k # "user"
    BY <1>1, <2>2
  <2> QED
    BY <2>1, <2>2
<1>5. ASSUME NEW i \in 1 .. H, active[i].trace_this, active[i].kind = "user"
      PROVE  U(i) \in Nat \ {0}
  <2>1. U(i) = UserTo(i - 1) + 1 /\ UserTo(i - 1) \in Nat
    BY <1>5, CountsItself
  <2> QED
    BY <2>1
<1>6. ASSUME NEW i \in 1 .. H + 1, i # H + 1 PROVE i \in 1 .. H /\ i \in 0 .. H /\ i - 1 \in 0 .. H
  BY <1>2, <1>6
<1>7. H + 1 - 1 = H
  BY <1>2
<1>8. DepthInv'
  <2> SUFFICES ASSUME "switch" \notin upset PROVE DepthInv'
    BY <1>1 DEF DepthInv
  <2>1. T(H) <= D /\ \A i \in 1 .. H : active[i].trace_this => T(i - 1) <= active[i].depth_before
    BY DEF DepthInv
  <2>2. TracedTo(Height)' <= GetCtx'.depth
    BY <1>1, <1>2, <1>3, <2>1
  <2>3. ASSUME NEW i \in 1 .. H + 1, active'[i].trace_this
        PROVE  TracedTo(i - 1)' <= active'[i].depth_before
    <3>1. CASE i = H + 1
      BY <1>1, <1>3, <1>7, <2>1, <3>1
    <3>2. CASE i # H + 1
      <4>1. i \in 1 .. H /\ i - 1 \in 0 .. H
        BY <1>6, <3>2
      <4> QED
        BY <1>1, <2>1, <2>3, <4>1
    <3> QED
      BY <3>1, <3>2
  <2> HIDE DEF H, T, U, D, L, c, fr
  <2> QED
    BY <1>1, <2>2, <2>3 DEF DepthInv
<1>9. CalmInv'
  <2> SUFFICES ASSUME serving, upset = {} PROVE CalmInv'
    BY <1>1 DEF CalmInv
  <2>1. /\ T(H) = D /\ U(H) = L
        /\ \A i \in 1 .. H : active[i].trace_this => T(i - 1) = active[i].depth_before
    BY DEF CalmInv
  <2>2. TracedTo(Height)' = GetCtx'.depth
    BY <1>1, <2>1
  <2>3. UserTo(Height)' = Len(Starts')
    BY <1>1, <1>4, <2>1
  <2>4. ASSUME NEW i \in 1 .. H + 1, active'[i].trace_this
        PROVE  TracedTo(i - 1)' = active'[i].depth_before
    <3>1. CASE i = H + 1
      BY <1>1, <1>3, <1>7, <2>1, <3>1
    <3>2. CASE i # H + 1
      <4>1. i \in 1 .. H /\ i - 1 \in 0 .. H
        BY <1>6, <3>2
      <4> QED
        BY <1>1, <2>1, <2>4, <4>1
    <3> QED
      BY <3>1, <3>2
  <2> HIDE DEF H, T, U, D, L, c, fr
  <2> QED
    BY <1>1, <2>2, <2>3, <2>4 DEF CalmInv
<1>10. StartInv'
  <2> SUFFICES ASSUME "switch" \notin upset PROVE StartInv'
    BY <1>1 DEF StartInv
  <2>1. /\ U(H) <= L
        /\ \A i \in 1 .. H : active[i].trace_this /\ active[i].kind = "user" =>
             Starts[L - U(H) + U(i)] = active[i].call
    BY DEF StartInv
  <2>2. UserTo(Height)' <= Len(Starts')
    BY <1>1, <1>2, <1>3, <1>4, <2>1
  <2>3. ASSUME NEW i \in 1 .. H + 1, active'[i].trace_this, active'[i].kind = "user"
        PROVE  Starts'[Len(Starts') - UserTo(Height)' + UserTo(i)'] = active'[i].call
    <3>1. CASE i = H + 1
      <4>1. k = "user" /\ active'[i].call = c
        BY <1>1, <2>3, <3>1
      <4>2. UserTo(i)' = U(H) + 1
        BY <1>1, <3>1, <4>1
      <4>3. Len(Starts') - UserTo(Height)' + UserTo(i)' = L + 1
        BY <1>1, <1>2, <1>3, <1>4, <4>1, <4>2
      <4> QED
        BY <1>4, <4>1, <4>3
    <3>2. CASE i # H + 1
      <4>1. i \in 1 .. H /\ i \in 0 .. H
        BY <1>6, <3>2
      <4>2. active'[i] = active[i] /\ UserTo(i)' = U(i)
        BY <1>1, <4>1
      <4>3. U(i) \in Nat \ {0} /\ U(i) <= U(H)
        BY <1>2, <1>5, <2>3, <4>1, <4>2
      <4>4. Starts[L - U(H) + U(i)] = active[i].call /\ L - U(H) + U(i) \in 1 .. L
        BY <1>2, <1>3, <2>1, <2>3, <4>1, <4>2, <4>3, SMTT(30)
      <4>5. CASE k = "user"
        <5>1. Len(Starts') - UserTo(Height)' + UserTo(i)' = L - U(H) + U(i)
          <6>1. Len(Starts') = L + 1 /\ UserTo(Height)' = U(H) + 1 /\ UserTo(i)' = U(i)
            BY <1>1, <1>4, <4>2, <4>5
          <6>2. L \in Nat /\ U(H) \in Nat /\ U(i) \in Nat
            BY <1>2, <1>3, <4>3
          <6> HIDE DEF L, U, H
          <6>3. L + 1 - (U(H) + 1) + U(i) = L - U(H) + U(i)
            BY <6>2
          <6> QED
            BY <6>1, <6>2, <6>3
        <5> QED
          BY <1>4, <4>2, <4>4, <4>5, <5>1
      <4>6. CASE k # "user"
        BY <1>1, <1>4, <4>2, <4>4, <4>6
      <4> QED
        BY <4>5, <4>6
    <3> QED
      BY <3>1, <3>2
  <2> HIDE DEF H, T, U, D, L, c, fr
  <2> QED
    BY <1>1, <2>2, <2>3 DEF StartInv
<1> QED
  BY <1>8, <1>9, <1>10

\* What a traced call that is over does to the context and the counts.
LEMMA FinishFacts ==
  ASSUME BaseInv, Return, WasTraced
  PROVE  /\ upset' = upset /\ serving' = serving
         /\ Height = Height' + 1 /\ Height' \in Nat
         /\ Top = active[Height] /\ Top.trace_this /\ Top.kind \in Kind
         /\ GetCtx = ctx /\ GetCtx'.depth = Top.depth_before /\ Starts' = PopStart
         /\ \A i \in 1 .. Height' : active'[i] = active[i]
         /\ \A i \in 0 .. Height' : TracedTo(i)' = TracedTo(i) /\ UserTo(i)' = UserTo(i)
         /\ TracedTo(Height) = TracedTo(Height)' + 1
         /\ Top.kind = "user" => UserTo(Height) = UserTo(Height)' + 1
         /\ Top.kind # "user" => UserTo(Height) = UserTo(Height)'
<1>0. TypeInv /\ ChainInv /\ FrameInv
  BY DEF BaseInv
<1>1. upset' = upset /\ serving' = serving
  BY DEF Return, history_vars
<1>2. Top \in Frame /\ FinishSpan /\ ctx \in Ctx /\ GetCtx = ctx
  BY <1>0, TopFrame
<1>3. ctx' \in Ctx /\ ctx'.depth = Top.depth_before /\ ctx'.span_stack = PopStart
  BY <1>0, <1>2, FinishedCtx
<1>4. GetCtx'.depth = Top.depth_before /\ Starts' = PopStart
  BY <1>3, HasCtxNext DEF Starts
<1>5. Height = Height' + 1 /\ Height' \in Nat /\ \A i \in 1 .. Height' : active'[i] = active[i]
  <2>1. /\ Len(active) \in Nat \ {0} /\ Len(active') = Len(active) - 1
        /\ \A i \in 1 .. Len(active) - 1 : active'[i] = active[i]
    BY <1>0, ReturnStack
  <2> QED
    BY <2>1 DEF Height
<1>6. Top.trace_this /\ Top.kind \in Kind /\ Top = active[Height]
  BY <1>2 DEF WasTraced, Frame, Top, Height
<1>7. /\ \A i \in 0 .. Height' : TracedTo(i)' = TracedTo(i)
      /\ TracedTo(Height) = TracedTo(Height)' + 1
  BY <1>0, <1>6, ReturnCounts DEF TracedTo, Height
<1>8. /\ \A i \in 0 .. Height' : UserTo(i)' = UserTo(i)
      /\ Top.kind = "user" => UserTo(Height) = UserTo(Height)' + 1
      /\ Top.kind # "user" => UserTo(Height) = UserTo(Height)'
  <2>1. Top.kind \in {"user"} <=> Top.kind = "user"
    OBVIOUS
  <2> QED
    BY <1>0, <1>6, <2>1, ReturnCounts DEF UserTo, Height
<1> QED
  BY <1>1, <1>2, <1>4, <1>5, <1>6, <1>7, <1>8

\* The start time of the user call on top, and span_stack without it.
LEMMA PopFacts ==
  ASSUME BaseInv, Return, WasTraced, Top.kind = "user", Len(Starts) > 0
  PROVE  /\ Start = Starts[Len(Starts)]
         /\ Len(Starts') = Len(Starts) - 1
         /\ \A i \in 1 .. Len(Starts) - 1 : Starts'[i] = Starts[i]
<1>1. GetCtx = ctx /\ Starts' = PopStart
  BY FinishFacts
<1>2. Starts = ctx.span_stack /\ Starts \in Seq(1 .. MaxCalls) /\ Starts # <<>>
  BY <1>1, HeightType, EmptySeq DEF Starts
<1>3. Starts' = WithoutLast(Starts) /\ Start = Starts[Len(Starts)]
  BY <1>1, <1>2 DEF PopStart, Start
<1> QED
  BY <1>2, <1>3, LastSplit

\* A traced call that is over takes its own depth and start time away.
LEMMA FinishStep ==
  ASSUME BaseInv, DepthInv, StartInv, CalmInv, Return, WasTraced
  PROVE  /\ DepthInv' /\ StartInv' /\ CalmInv'
         /\ "switch" \notin upset => Start = Top.call
<1> DEFINE h == Height'
           U(i) == UserTo(i)
           L == Len(Starts)
<1>1. /\ upset' = upset /\ serving' = serving
      /\ Height = h + 1 /\ h \in Nat
      /\ Top = active[Height] /\ Top.trace_this /\ Top.kind \in Kind
      /\ GetCtx'.depth = Top.depth_before /\ Starts' = PopStart
      /\ \A i \in 1 .. h : active'[i] = active[i]
      /\ \A i \in 0 .. h : TracedTo(i)' = TracedTo(i) /\ UserTo(i)' = U(i)
      /\ Top.kind = "user" => U(Height) = UserTo(Height)' + 1
      /\ Top.kind # "user" => U(Height) = UserTo(Height)'
  BY FinishFacts
<1>2. /\ L \in Nat /\ Starts \in Seq(1 .. MaxCalls) /\ GetCtx = ctx
      /\ \A i \in 0 .. Height : U(i) \in Nat /\ U(i) <= U(Height)
  BY HeightType, FinishFacts
<1>3. /\ h \in 0 .. h /\ Height \in 1 .. Height /\ Height - 1 = h
      /\ \A i \in 1 .. h : i \in 1 .. Height /\ i \in 0 .. h /\ i - 1 \in 0 .. h /\ i \in 0 .. Height
  BY <1>1
<1>4. UserTo(Height)' = U(h) /\ TracedTo(Height)' = TracedTo(h) /\ U(h) \in Nat
      /\ U(Height) \in Nat /\ h \in 0 .. Height
  <2>1. UserTo(Height)' = U(h) /\ TracedTo(Height)' = TracedTo(h)
    <3>1. \A i \in 0 .. h : /\ OpenTo(active', i, Kind) = OpenTo(active, i, Kind)
                           /\ OpenTo(active', i, {"user"}) = OpenTo(active, i, {"user"})
      BY <1>1 DEF UserTo, TracedTo
    <3>2. OpenTo(active', h, Kind) = OpenTo(active, h, Kind)
          /\ OpenTo(active', h, {"user"}) = OpenTo(active, h, {"user"})
      BY <1>3, <3>1
    <3> QED
      BY <3>2 DEF UserTo, TracedTo
  <2>2. h \in 0 .. Height /\ Height \in 0 .. Height
    <3>1. Height = h + 1 /\ h \in Nat
      BY <1>1
    <3> HIDE DEF h
    <3> QED
      BY <3>1
  <2>3. U(h) \in Nat /\ U(Height) \in Nat
    BY <1>2, <2>2
  <2> QED
    BY <2>1, <2>2, <2>3
<1>5. ASSUME Top.kind # "user" PROVE Starts' = Starts /\ Start = Top.call
  <2>1. Top.kind = "internal"
    BY <1>1, <1>5 DEF Kind
  <2> QED
    BY <1>1, <1>2, <2>1 DEF PopStart, Start, Starts
<1>6. DepthInv'
  <2> SUFFICES ASSUME "switch" \notin upset PROVE DepthInv'
    BY <1>1 DEF DepthInv
  <2>1. \A i \in 1 .. Height : active[i].trace_this => TracedTo(i - 1) <= active[i].depth_before
    BY DEF DepthInv
  <2>2. TracedTo(Height)' <= GetCtx'.depth
    BY <1>1, <1>3, <1>4, <2>1
  <2>3. ASSUME NEW i \in 1 .. h, active'[i].trace_this
        PROVE  TracedTo(i - 1)' <= active'[i].depth_before
    BY <1>1, <1>3, <2>1, <2>3
  <2> QED
    BY <2>2, <2>3 DEF DepthInv
<1>7. CalmInv'
  <2> SUFFICES ASSUME serving, upset = {} PROVE CalmInv'
    BY <1>1 DEF CalmInv
  <2>1. /\ U(Height) = L
        /\ \A i \in 1 .. Height : active[i].trace_this => TracedTo(i - 1) = active[i].depth_before
    BY DEF CalmInv
  <2>2. TracedTo(Height)' = GetCtx'.depth
    BY <1>1, <1>3, <1>4, <2>1
  <2>3. UserTo(Height)' = Len(Starts')
    <3>1. CASE Top.kind = "user"
      <4>1. U(Height) = U(h) + 1 /\ L > 0
        BY <1>1, <1>2, <1>4, <2>1, <3>1
      <4>2. Len(Starts') = L - 1
        BY <3>1, <4>1, PopFacts
      <4>3. U(h) = L - 1
        BY <1>2, <1>4, <2>1, <4>1
      <4> QED
        BY <1>4, <4>2, <4>3
    <3>2. CASE Top.kind # "user"
      BY <1>1, <1>5, <2>1, <3>2
    <3> QED
      BY <3>1, <3>2
  <2>4. ASSUME NEW i \in 1 .. h, active'[i].trace_this
        PROVE  TracedTo(i - 1)' = active'[i].depth_before
    BY <1>1, <1>3, <2>1, <2>4
  <2> QED
    BY <2>2, <2>3, <2>4 DEF CalmInv
<1>8. StartInv' /\ ("switch" \notin upset => Start = Top.call)
  <2> SUFFICES ASSUME "switch" \notin upset PROVE StartInv' /\ Start = Top.call
    BY <1>1 DEF StartInv
  <2>1. /\ U(Height) <= L
        /\ \A i \in 1 .. Height :
             active[i].trace_this /\ active[i].kind = "user" =>
               Starts[L - U(Height) + U(i)] = active[i].call
    BY DEF StartInv
  <2>2. CASE Top.kind = "user"
    <3>1. U(Height) = U(h) + 1 /\ L > 0
      BY <1>1, <1>2, <1>4, <2>1, <2>2
    <3>2. /\ Start = Starts[L] /\ Len(Starts') = L - 1
          /\ \A i \in 1 .. L - 1 : Starts'[i] = Starts[i]
      BY <2>2, <3>1, PopFacts
    <3>3. Start = Top.call
      <4>1. Starts[L - U(Height) + U(Height)] = Top.call
        BY <1>1, <1>3, <2>1, <2>2
      <4>2. L - U(Height) + U(Height) = L
        BY <1>2, <1>4
      <4> QED
        BY <3>2, <4>1, <4>2
    <3>4. UserTo(Height)' <= Len(Starts')
      BY <1>2, <1>4, <2>1, <3>1, <3>2
    <3>5. ASSUME NEW i \in 1 .. h, active'[i].trace_this, active'[i].kind = "user"
          PROVE  Starts'[Len(Starts') - UserTo(Height)' + UserTo(i)'] = active'[i].call
      <4>1. active'[i] = active[i] /\ UserTo(i)' = U(i) /\ i \in 1 .. Height
        BY <1>1, <1>3
      <4>2. U(i) = UserTo(i - 1) + 1 /\ UserTo(i - 1) \in Nat
        BY <3>5, <4>1, CountsItself
      <4>3. U(i) <= U(h)
        <5>1. U(i) <= UserTo(h) /\ UserTo(h) = U(h)
          BY <1>1, CountType DEF UserTo
        <5> QED
          BY <5>1
      <4>4. U(i) \in Nat \ {0}
        BY <4>2
      <4> DEFINE x == L - U(Height) + U(i)
      <4>5. x \in 1 .. L - 1 /\ L - 1 - U(h) + U(i) = x
        BY <1>2, <1>4, <2>1, <3>1, <4>3, <4>4
      <4>6. Starts[x] = active[i].call
        BY <2>1, <3>5, <4>1
      <4> HIDE DEF x
      <4>7. Starts'[x] = Starts[x]
        BY <3>2, <4>5
      <4>8. Len(Starts') - UserTo(Height)' + UserTo(i)' = x
        BY <1>4, <3>2, <4>1, <4>5
      <4> QED
        BY <4>1, <4>6, <4>7, <4>8
    <3> QED
      BY <3>3, <3>4, <3>5 DEF StartInv
  <2>3. CASE Top.kind # "user"
    <3>1. Starts' = Starts /\ Start = Top.call /\ UserTo(Height)' = U(Height)
      BY <1>1, <1>5, <2>3
    <3>2. ASSUME NEW i \in 1 .. h, active'[i].trace_this, active'[i].kind = "user"
          PROVE  Starts'[Len(Starts') - UserTo(Height)' + UserTo(i)'] = active'[i].call
      <4>1. active'[i] = active[i] /\ UserTo(i)' = U(i) /\ i \in 1 .. Height
        BY <1>1, <1>3
      <4>2. Starts[L - U(Height) + U(i)] = active[i].call
        BY <2>1, <3>2, <4>1
      <4> QED
        BY <3>1, <4>1, <4>2
    <3> QED
      BY <2>1, <3>1, <3>2 DEF StartInv
  <2> QED
    BY <2>2, <2>3
<1> QED
  BY <1>6, <1>7, <1>8

\* An unwound stack has nothing to be counted.
LEMMA ResetStep ==
  ASSUME BaseInv, CalmInv, Reset
  PROVE  DepthInv' /\ StartInv' /\ CalmInv'
<1>1. active' = <<>> /\ Height' = 0 /\ TracedTo(Height)' = 0 /\ UserTo(Height)' = 0
  BY ResetEmpty DEF Height, TracedTo, UserTo
<1>2. GetCtx'.depth \in Nat /\ Len(Starts') \in Nat
  <2>1. BaseInv'
    BY TypeStep, ChainStep, CtxStep, FrameStep, SpanStep DEF BaseInv, Reset, Next
  <2>2. TypeInv'
    BY <2>1 DEF BaseInv
  <2>3. GetCtx' \in Ctx
    <3>1. TypeInv => GetCtx \in Ctx
      BY CtxType
    <3>2. (TypeInv => GetCtx \in Ctx)'
      BY CtxType, PTL
    <3> QED
      BY <2>2, <3>2
  <2>4. GetCtx'.depth \in Nat /\ GetCtx'.span_stack \in Seq(1 .. MaxCalls)
    BY <2>3 DEF Ctx
  <2> QED
    BY <2>4, LenProperties DEF Starts
<1>3. 1 .. Height' = {}
  BY <1>1
<1>4. DepthInv'
  BY <1>1, <1>2, <1>3 DEF DepthInv
<1>5. StartInv'
  BY <1>1, <1>2, <1>3 DEF StartInv
<1>6. CalmInv'
  <2> SUFFICES ASSUME serving', upset' = {} PROVE CalmInv'
    BY DEF CalmInv
  <2>1. ~RSHUTDOWN /\ ~Bailout
    BY DEF RSHUTDOWN, Bailout
  <2>2. ctx' \in Ctx /\ ctx'.depth = 0 /\ ctx'.span_stack = <<>>
    BY <2>1, FreshCtx DEF BaseInv, Reset
  <2>3. GetCtx'.depth = 0 /\ Starts' = <<>> /\ Len(Starts') = 0
    BY <2>2, HasCtxNext, EmptySeq DEF Starts
  <2> QED
    BY <1>1, <1>3, <2>3 DEF CalmInv
<1> QED
  BY <1>4, <1>5, <1>6

\* What the context has to do with the stack survives every step.
LEMMA StackStep == BaseInv /\ StackInv /\ [Next]_vars => StackInv'
<1> SUFFICES ASSUME BaseInv, StackInv, [Next]_vars PROVE StackInv'
  OBVIOUS
<1>0. ParkedInv /\ DepthInv /\ StartInv /\ CalmInv
  BY DEF StackInv
<1>1. ParkedInv'
  BY <1>0, ParkedStep
<1>2. CASE "switch" \notin upset'
  BY <1>0, <1>1, <1>2, StepKinds, ResetStep, BeginStep, FinishStep, SteadyStep DEF StackInv
<1>3. CASE "switch" \in upset'
  <2>1. DepthInv' /\ StartInv' /\ CalmInv'
    BY <1>3 DEF DepthInv, StartInv, CalmInv
  <2> QED
    BY <1>1, <2>1 DEF StackInv
<1> QED
  BY <1>2, <1>3

\* The invariant of the stack and the context.
THEOREM StackInvariance == Spec => [](BaseInv /\ StackInv)
<1>1. Init => StackInv
  <2> SUFFICES ASSUME Init PROVE StackInv
    OBVIOUS
  <2>1. /\ active = <<>> /\ Height = 0 /\ ~serving /\ \A f \in Fiber : Len(parked[f]) = 0
        /\ GetCtx = Blank
    BY EmptySeq DEF Init, Height, GetCtx, HasCtx
  <2>2. TracedTo(Height) = 0 /\ UserTo(Height) = 0
    BY <2>1, CountType DEF TracedTo, UserTo
  <2>3. GetCtx.depth = 0 /\ Len(Starts) = 0
    BY <2>1, EmptySeq DEF Blank, Starts
  <2> QED
    BY <2>1, <2>2, <2>3 DEF StackInv, ParkedInv, DepthInv, StartInv, CalmInv
<1>2. BaseInv /\ BaseInv' /\ StackInv /\ [Next]_vars => StackInv'
  BY StackStep
<1> QED
  BY <1>1, <1>2, BaseInvariance, PTL DEF Spec

\* max_depth holds on every call stack: whatever was called, caught, discarded by fatal errors
\* and called again, no more than max_depth traced calls are open, unless a fiber took one
\* away (php_trace_should_trace and the depth both hooks save and restore).
THEOREM Nesting == Spec => []NestingIsLimited
<1>1. BaseInv /\ StackInv => NestingIsLimited
  <2> SUFFICES ASSUME BaseInv, StackInv, MaxDepth > 0, "switch" \notin upset
               PROVE  TracedUpTo(Len(active)) <= MaxDepth
    BY DEF NestingIsLimited
  <2>1. OpenAt(active, Height, Kind) = {j \in 1 .. Len(active) : active[j].trace_this}
    <3>1. \A j \in 1 .. Height : active[j].kind \in Kind
      BY HeightType DEF Frame
    <3> QED
      BY <3>1 DEF OpenAt, Height
  <2>2. TracedUpTo(Len(active)) = TracedTo(Height)
    BY <2>1 DEF TracedUpTo, TracedTo, OpenTo
  <2>3. TracedTo(Height) <= GetCtx.depth
    BY DEF StackInv, DepthInv
  <2>4. GetCtx.depth <= MaxDepth
    <3>1. CASE HasCtx
      BY <3>1 DEF BaseInv, CtxInv, GetCtx
    <3>2. CASE ~HasCtx
      BY <3>2, TracerAssumption DEF GetCtx, Blank
    <3> QED
      BY <3>1, <3>2
  <2>5. Height \in 0 .. Height
    BY HeightType
  <2> QED
    BY <2>2, <2>3, <2>4, <2>5, HeightType, TracerAssumption
<1> QED
  BY <1>1, StackInvariance, PTL

\* A span carries the start time of its own call, though a fatal error leaves the start times
\* of discarded calls on span_stack (php_trace_execute_ex).
THEOREM Starting == Spec => []StartsMatch
<1>1. Init => StartsMatch
  BY DEF Init, StartsMatch, CallSpans
<1>2. BaseInv /\ StackInv /\ StartsMatch /\ [Next]_vars => StartsMatch'
  <2> SUFFICES ASSUME BaseInv, StackInv, StartsMatch, [Next]_vars PROVE StartsMatch'
    OBVIOUS
  <2>1. CASE Return /\ WasTraced
    <3>1. PICK s : s = Span(Top.span_parent)
      OBVIOUS
    <3>2. /\ CallSpans' = CallSpans \cup {s} /\ s.start = Start /\ s.call = Top.call
          /\ s.upset = upset
      BY <2>1, <3>1, PushedSpan
    <3>3. "switch" \notin upset => Start = Top.call
      BY <2>1, FinishStep DEF StackInv
    <3> QED
      BY <3>2, <3>3 DEF StartsMatch
  <2>2. CASE ~(Return /\ WasTraced)
    BY <2>2, NoSpanOtherwise DEF StartsMatch
  <2> QED
    BY <2>1, <2>2
<1> QED
  BY <1>1, <1>2, StackInvariance, PTL DEF Spec

\* The TraceContext is the call stack's shadow: as long as no fatal error and no suspended
\* fiber came between, depth, the depths saved by the hooks and span_stack are those of the
\* open traced calls (both hooks, at every entry and exit).
THEOREM ContextExact == Spec => []ContextMatchesStack
<1>1. BaseInv /\ StackInv => ContextMatchesStack
  <2> SUFFICES ASSUME BaseInv, StackInv, serving, upset = {} PROVE ContextMatchesStack
    BY DEF ContextMatchesStack
  <2>1. GetCtx = ctx /\ Starts = ctx.span_stack
    BY DEF BaseInv, CtxInv, GetCtx, Starts
  <2>2. /\ TracedTo(Height) = ctx.depth /\ UserTo(Height) = Len(Starts)
        /\ \A i \in 1 .. Height : active[i].trace_this => TracedTo(i - 1) = active[i].depth_before
        /\ \A i \in 1 .. Height :
             active[i].trace_this /\ active[i].kind = "user" =>
               Starts[Len(Starts) - UserTo(Height) + UserTo(i)] = active[i].call
    BY <2>1 DEF StackInv, CalmInv, StartInv
  <2>3. Height \in Nat /\ Height = Len(active) /\ DOMAIN active = 1 .. Height
        /\ Len(Starts) \in Nat
    BY HeightType, LenProperties DEF Height, BaseInv, TypeInv
  <2>4. ASSUME NEW i \in 0 .. Height
        PROVE  TracedUpTo(i) = TracedTo(i) /\ UserTracedUpTo(i) = UserTo(i) /\ UserTo(i) \in Nat
    <3>1. \A j \in 1 .. i : j \in 1 .. Height
      BY <2>3
    <3>2. \A j \in 1 .. i : active[j].kind \in Kind
      BY <3>1, HeightType DEF Frame
    <3>3. /\ OpenAt(active, i, Kind) = {j \in 1 .. i : active[j].trace_this}
          /\ OpenAt(active, i, {"user"})
               = {j \in 1 .. i : active[j].trace_this /\ active[j].kind = "user"}
      BY <3>2 DEF OpenAt
    <3>4. UserTo(i) \in Nat
      BY HeightType
    <3> QED
      BY <3>3, <3>4 DEF TracedUpTo, UserTracedUpTo, TracedTo, UserTo, OpenTo
  <2>5. TracedUpTo(Height) = ctx.depth /\ UserTracedUpTo(Height) = Len(Starts)
    <3>1. Height \in 0 .. Height
      BY <2>3
    <3> QED
      BY <2>2, <2>4, <3>1
  <2>6. ASSUME NEW i \in 1 .. Height, active[i].trace_this
        PROVE  /\ active[i].depth_before = TracedUpTo(i - 1)
               /\ active[i].kind = "user" => Starts[UserTracedUpTo(i)] = active[i].call
    <3>1. i \in 0 .. Height /\ i - 1 \in 0 .. Height
      BY <2>3
    <3>2. TracedUpTo(i - 1) = TracedTo(i - 1) /\ UserTracedUpTo(i) = UserTo(i) /\ UserTo(i) \in Nat
      BY <2>4, <3>1
    <3>3. Len(Starts) - UserTo(Height) + UserTo(i) = UserTo(i)
      <4>1. Len(Starts) - Len(Starts) + UserTo(i) = UserTo(i)
        BY <2>3, <3>2
      <4> QED
        BY <2>2, <4>1
    <3> QED
      BY <2>2, <2>6, <3>2, <3>3
  <2> QED
    BY <2>1, <2>3, <2>5, <2>6 DEF ContextMatchesStack
<1> QED
  BY <1>1, StackInvariance, PTL

-----------------------------------------------------------------------------
(***************************************************************************)
(* Every call is accounted for, once.                                      *)
(***************************************************************************)
\* No traced call has two frames among these.
Once(s) == \A i, j \in DOMAIN s : i # j /\ s[i].call # 0 => s[i].call # s[j].call

SpanCalls == {s.call : s \in CallSpans}

\* No traced call has two frames at all, and there are finitely many spans.
CallsInv ==
  /\ Once(active) /\ \A f \in Fiber : Once(parked[f])
  /\ \A f \in Fiber : TracedIn(active) \cap TracedIn(parked[f]) = {}
  /\ \A f, g \in Fiber : f # g => TracedIn(parked[f]) \cap TracedIn(parked[g]) = {}
  /\ IsFiniteSet(CallSpans) /\ IsFiniteSet(SpanCalls)

AccountInv == CallsInv /\ EveryCallAccountedFor

\* The calls of two stacks, one above the other.
LEMMA ConcatCalls ==
  ASSUME NEW s \in Seq(Frame), NEW t \in Seq(Frame)
  PROVE  /\ TracedIn(s \o t) = TracedIn(s) \cup TracedIn(t)
         /\ Once(s \o t) <=> Once(s) /\ Once(t) /\ TracedIn(s) \cap TracedIn(t) = {}
<1> DEFINE u == s \o t
<1>1. TracedIn(u) = TracedIn(s) \cup TracedIn(t)
  <2>1. FramesOf(u) = FramesOf(s) \cup FramesOf(t)
    BY ConcatFrames
  <2> HIDE DEF u
  <2> QED
    BY <2>1, TracedCalls
<1>2. /\ DOMAIN s = 1 .. Len(s) /\ DOMAIN t = 1 .. Len(t) /\ DOMAIN u = 1 .. Len(s) + Len(t)
      /\ Len(s) \in Nat /\ Len(t) \in Nat
      /\ \A i \in 1 .. Len(s) + Len(t) : u[i] = IF i <= Len(s) THEN s[i] ELSE t[i - Len(s)]
  BY ConcatProperties, LenProperties
<1> HIDE DEF u
<1>3. \A i \in 1 .. Len(s) : i \in DOMAIN u /\ u[i] = s[i]
  BY <1>2
<1>4. ASSUME NEW i \in 1 .. Len(t) PROVE Len(s) + i \in DOMAIN u /\ u[Len(s) + i] = t[i]
  <2> DEFINE j == Len(s) + i
  <2>1. j \in 1 .. Len(s) + Len(t) /\ ~(j <= Len(s)) /\ j - Len(s) = i
    BY <1>2
  <2> HIDE DEF j
  <2>2. u[j] = t[i]
    BY <1>2, <2>1
  <2> QED
    BY <1>2, <2>1, <2>2 DEF j
<1>5. ASSUME NEW i \in DOMAIN u, i \notin 1 .. Len(s)
      PROVE  \E j \in 1 .. Len(t) : i = Len(s) + j
  <2>1. i - Len(s) \in 1 .. Len(t) /\ i = Len(s) + (i - Len(s))
    BY <1>2, <1>5
  <2> QED
    BY <2>1
<1>6. ASSUME Once(u) PROVE Once(s) /\ Once(t) /\ TracedIn(s) \cap TracedIn(t) = {}
  <2>1. Once(s)
    BY <1>2, <1>3, <1>6 DEF Once
  <2>2. Once(t)
    <3>1. ASSUME NEW i \in 1 .. Len(t), NEW j \in 1 .. Len(t), i # j, t[i].call # 0
          PROVE  t[i].call # t[j].call
      <4>1. Len(s) + i # Len(s) + j
        BY <1>2, <3>1
      <4> QED
        BY <1>4, <1>6, <3>1, <4>1 DEF Once
    <3> QED
      BY <1>2, <3>1 DEF Once
  <2>3. ASSUME NEW c \in TracedIn(s) \cap TracedIn(t) PROVE FALSE
    <3>1. PICK i \in 1 .. Len(s) : s[i].call = c
      BY <1>2 DEF TracedIn
    <3>2. PICK j \in 1 .. Len(t) : t[j].call = c
      BY <1>2 DEF TracedIn
    <3>3. c # 0
      BY DEF TracedIn
    <3>4. i # Len(s) + j
      BY <1>2
    <3> QED
      BY <1>3, <1>4, <1>6, <3>1, <3>2, <3>3, <3>4 DEF Once
  <2> QED
    BY <2>1, <2>2, <2>3
<1>7. ASSUME Once(s), Once(t), TracedIn(s) \cap TracedIn(t) = {} PROVE Once(u)
  <2>1. ASSUME NEW i \in DOMAIN u, NEW j \in DOMAIN u, i # j, u[i].call # 0,
               u[i].call = u[j].call
        PROVE  FALSE
    <3>1. ASSUME NEW k \in 1 .. Len(s), u[k].call # 0 PROVE u[k].call \in TracedIn(s)
      BY <1>2, <1>3, <3>1 DEF TracedIn
    <3>2. ASSUME NEW k \in 1 .. Len(t), u[Len(s) + k].call # 0
          PROVE  u[Len(s) + k].call \in TracedIn(t)
      BY <1>2, <1>4, <3>2 DEF TracedIn
    <3>3. CASE i \in 1 .. Len(s) /\ j \in 1 .. Len(s)
      BY <1>2, <1>3, <1>7, <2>1, <3>3 DEF Once
    <3>4. CASE i \notin 1 .. Len(s) /\ j \notin 1 .. Len(s)
      <4>1. PICK p \in 1 .. Len(t) : i = Len(s) + p
        BY <1>5, <3>4
      <4>2. PICK q \in 1 .. Len(t) : j = Len(s) + q
        BY <1>5, <3>4
      <4>3. p # q
        BY <2>1, <4>1, <4>2
      <4>4. t[p].call # 0 /\ t[p].call = t[q].call
        BY <1>4, <2>1, <4>1, <4>2
      <4> QED
        BY <1>2, <1>7, <4>3, <4>4 DEF Once
    <3>5. CASE i \in 1 .. Len(s) /\ j \notin 1 .. Len(s)
      BY <1>5, <1>7, <2>1, <3>1, <3>2, <3>5
    <3>6. CASE i \notin 1 .. Len(s) /\ j \in 1 .. Len(s)
      BY <1>5, <1>7, <2>1, <3>1, <3>2, <3>6
    <3> QED
      BY <3>3, <3>4, <3>5, <3>6
  <2> QED
    BY <2>1 DEF Once
<1> QED
  BY <1>1, <1>6, <1>7 DEF u

\* The calls of one frame and of none.
LEMMA FewCalls ==
  /\ \A fr : /\ Once(<<fr>>)
             /\ fr.call # 0 => TracedIn(<<fr>>) = {fr.call}
             /\ fr.call = 0 => TracedIn(<<fr>>) = {}
  /\ Once(<<>>) /\ TracedIn(<<>>) = {}
  BY DEF Once, TracedIn

\* The account, in terms of the sets it speaks of.
LEMMA Account ==
  EveryCallAccountedFor <=>
    /\ 1 .. calls = SpanCalls \cup OpenCalls \cup lost
    /\ SpanCalls \cap (OpenCalls \cup lost) = {} /\ OpenCalls \cap lost = {}
    /\ Cardinality(CallSpans) = Cardinality(SpanCalls)
  BY DEF EveryCallAccountedFor, SpanCalls

\* A step that keeps the spans, the calls and the lost ones, and has the same calls open.
LEMMA AccountStays ==
  ASSUME AccountInv, CallSpans' = CallSpans, calls' = calls, lost' = lost,
         OpenCalls' = OpenCalls
  PROVE  EveryCallAccountedFor' /\ IsFiniteSet(CallSpans)' /\ IsFiniteSet(SpanCalls)'
<1>1. SpanCalls' = SpanCalls
  BY DEF SpanCalls
<1>2. IsFiniteSet(CallSpans)' /\ IsFiniteSet(SpanCalls)'
  BY <1>1 DEF AccountInv, CallsInv
<1>3. /\ 1 .. calls = SpanCalls \cup OpenCalls \cup lost
      /\ SpanCalls \cap (OpenCalls \cup lost) = {} /\ OpenCalls \cap lost = {}
      /\ Cardinality(CallSpans) = Cardinality(SpanCalls)
  BY Account DEF AccountInv
<1>4. (EveryCallAccountedFor <=>
         /\ 1 .. calls = SpanCalls \cup OpenCalls \cup lost
         /\ SpanCalls \cap (OpenCalls \cup lost) = {} /\ OpenCalls \cap lost = {}
         /\ Cardinality(CallSpans) = Cardinality(SpanCalls))'
  BY Account, PTL
<1> QED
  BY <1>1, <1>2, <1>3, <1>4


\* A call that begins opens a new one or none.
LEMMA CallAccount ==
  ASSUME BaseInv, AccountInv, NEW k \in Kind, NEW m \in BOOLEAN, Call(k, m)
  PROVE  AccountInv'
<1>0. /\ TypeInv /\ active \in Seq(Frame) /\ calls \in Nat
      /\ parked' = parked /\ lost' = lost /\ pushed' = pushed
  BY TracerAssumption DEF BaseInv, TypeInv, Call, history_vars
<1>1. /\ Once(active) /\ \A f \in Fiber : Once(parked[f])
      /\ \A f \in Fiber : TracedIn(active) \cap TracedIn(parked[f]) = {}
      /\ \A f, g \in Fiber : f # g => TracedIn(parked[f]) \cap TracedIn(parked[g]) = {}
      /\ IsFiniteSet(CallSpans) /\ IsFiniteSet(SpanCalls)
  BY DEF AccountInv, CallsInv
<1>2. CallSpans' = CallSpans /\ SpanCalls' = SpanCalls
  BY <1>0 DEF CallSpans, SpanCalls
<1>3. /\ 1 .. calls = SpanCalls \cup OpenCalls \cup lost
      /\ SpanCalls \cap (OpenCalls \cup lost) = {} /\ OpenCalls \cap lost = {}
      /\ Cardinality(CallSpans) = Cardinality(SpanCalls)
  BY Account DEF AccountInv
<1>4. /\ TracedIn(active) \subseteq OpenCalls
      /\ \A f \in Fiber : TracedIn(parked[f]) \subseteq OpenCalls
  BY DEF OpenCalls
<1>5. CASE ShouldTrace(k, m)
  <2>1. CallTraced(k)
    BY <1>5 DEF Call
  <2>2. PICK fr \in Frame : fr = NewFrame(k) /\ active' = Append(active, fr)
    BY <1>0, <1>5, <2>1, TracedCall
  <2>3. fr.call = calls + 1 /\ calls' = calls + 1
    BY <1>0, <1>5, <2>1, <2>2, TracedCall DEF NewFrame
  <2>4. active' = active \o <<fr>> /\ <<fr>> \in Seq(Frame)
    BY <1>0, <2>2, CallStack
  <2>5. calls + 1 # 0 /\ calls + 1 \notin 1 .. calls /\ 1 .. calls' = (1 .. calls) \cup {calls + 1}
    BY <1>0, <2>3
  <2> DEFINE c == calls + 1
             numbers == 1 .. calls
  <2> HIDE DEF c, numbers
  <2>6. Once(<<fr>>) /\ TracedIn(<<fr>>) = {c}
    BY <2>3, <2>5, FewCalls DEF c
  <2>7. c \notin OpenCalls /\ c \notin SpanCalls /\ c \notin lost
    BY <1>3, <2>5 DEF c
  <2>8. TracedIn(active') = TracedIn(active) \cup {c} /\ Once(active')
    <3>1. TracedIn(active) \cap TracedIn(<<fr>>) = {}
      BY <1>4, <2>6, <2>7
    <3> QED
      BY <1>0, <1>1, <2>4, <2>6, <3>1, ConcatCalls
  <2>9. OpenCalls' = OpenCalls \cup {c}
    BY <1>0, <2>8 DEF OpenCalls
  <2>10. \A f \in Fiber : TracedIn(active') \cap TracedIn(parked'[f]) = {}
    BY <1>0, <1>1, <1>4, <2>7, <2>8
  <2>11. CallsInv'
    BY <1>0, <1>1, <1>2, <2>8, <2>10 DEF CallsInv
  <2>12. 1 .. calls' = numbers \cup {c} /\ numbers = SpanCalls \cup OpenCalls \cup lost
    BY <1>3, <2>5 DEF c, numbers
  <2>13. /\ 1 .. calls' = SpanCalls' \cup OpenCalls' \cup lost'
         /\ SpanCalls' \cap (OpenCalls' \cup lost') = {} /\ OpenCalls' \cap lost' = {}
         /\ Cardinality(CallSpans') = Cardinality(SpanCalls')
    BY <1>0, <1>2, <1>3, <2>7, <2>9, <2>12
  <2> QED
    BY <2>11, <2>13 DEF AccountInv, EveryCallAccountedFor, SpanCalls
<1>6. CASE ~ShouldTrace(k, m)
  <2>1. active' = Append(active, Untraced) /\ calls' = calls
    BY <1>6 DEF Call, CallUntraced
  <2>2. active' = active \o <<Untraced>> /\ <<Untraced>> \in Seq(Frame)
    BY <1>0, <2>1, UntracedFrame, CallStack
  <2>3. Once(<<Untraced>>) /\ TracedIn(<<Untraced>>) = {}
    BY FewCalls DEF Untraced
  <2>4. TracedIn(active') = TracedIn(active) /\ Once(active')
    <3>1. TracedIn(active) \cap TracedIn(<<Untraced>>) = {}
      BY <2>3
    <3>2. /\ TracedIn(active') = TracedIn(active) \cup TracedIn(<<Untraced>>)
          /\ Once(active') <=> Once(active) /\ Once(<<Untraced>>)
                                /\ TracedIn(active) \cap TracedIn(<<Untraced>>) = {}
      BY <1>0, <2>2, ConcatCalls
    <3> QED
      BY <1>1, <2>3, <3>1, <3>2
  <2>5. OpenCalls' = OpenCalls
    BY <1>0, <2>4 DEF OpenCalls
  <2>6. EveryCallAccountedFor' /\ IsFiniteSet(CallSpans)' /\ IsFiniteSet(SpanCalls)'
    BY <1>0, <1>2, <2>1, <2>5, AccountStays
  <2>7. CallsInv'
    BY <1>0, <1>1, <2>4, <2>6 DEF CallsInv
  <2> QED
    BY <2>6, <2>7 DEF AccountInv
<1> QED
  BY <1>5, <1>6

\* A traced call that returns is no longer open, and has its span; another changes nothing.
LEMMA ReturnAccount ==
  ASSUME BaseInv, AccountInv, Return
  PROVE  AccountInv'
<1>0. TypeInv /\ ChainInv /\ FrameInv /\ parked' = parked /\ lost' = lost /\ calls' = calls
  BY DEF BaseInv, Return, history_vars
<1>1. /\ Once(active) /\ \A f \in Fiber : Once(parked[f])
      /\ \A f \in Fiber : TracedIn(active) \cap TracedIn(parked[f]) = {}
      /\ \A f, g \in Fiber : f # g => TracedIn(parked[f]) \cap TracedIn(parked[g]) = {}
      /\ IsFiniteSet(CallSpans) /\ IsFiniteSet(SpanCalls)
  BY DEF AccountInv, CallsInv
<1>2. /\ 1 .. calls = SpanCalls \cup OpenCalls \cup lost
      /\ SpanCalls \cap (OpenCalls \cup lost) = {} /\ OpenCalls \cap lost = {}
      /\ Cardinality(CallSpans) = Cardinality(SpanCalls)
  BY Account DEF AccountInv
<1>3. active' \in Seq(Frame) /\ <<Top>> \in Seq(Frame) /\ active = active' \o <<Top>>
  BY <1>0, ReturnStack
<1>4. /\ TracedIn(active) = TracedIn(active') \cup TracedIn(<<Top>>)
      /\ Once(active') /\ TracedIn(active') \cap TracedIn(<<Top>>) = {}
  <2> DEFINE s == active'
             t == <<Top>>
  <2>1. s \in Seq(Frame) /\ t \in Seq(Frame) /\ active = s \o t
    BY <1>3
  <2> HIDE DEF s, t
  <2>2. /\ TracedIn(s \o t) = TracedIn(s) \cup TracedIn(t)
        /\ Once(s \o t) <=> Once(s) /\ Once(t) /\ TracedIn(s) \cap TracedIn(t) = {}
    BY <2>1, ConcatCalls
  <2>3. TracedIn(active) = TracedIn(s) \cup TracedIn(t)
        /\ Once(s) /\ TracedIn(s) \cap TracedIn(t) = {}
    BY <1>1, <2>1, <2>2
  <2> QED
    BY <2>3 DEF s, t
<1>5. CASE WasTraced
  <2>1. PICK s : s = Span(Top.span_parent)
    OBVIOUS
  <2>2. CallSpans' = CallSpans \cup {s} /\ s.call = Top.call
    BY <1>5, <2>1, PushedSpan
  <2> DEFINE c == Top.call
  <2>3. c # 0
    BY <1>0, <1>5, TopFrame DEF FrameOK, WasTraced
  <2>4. TracedIn(<<Top>>) = {c}
    BY <2>3, FewCalls
  <2> HIDE DEF c
  <2>5. SpanCalls' = SpanCalls \cup {c}
    BY <2>2 DEF SpanCalls, c
  <2>6. c \in OpenCalls /\ OpenCalls = OpenCalls' \cup {c} /\ c \notin OpenCalls'
    <3>1. OpenCalls = TracedIn(active) \cup UNION {TracedIn(parked[f]) : f \in Fiber}
      BY DEF OpenCalls
    <3>2. OpenCalls' = TracedIn(active') \cup UNION {TracedIn(parked[f]) : f \in Fiber}
      BY <1>0 DEF OpenCalls
    <3>3. TracedIn(active) = TracedIn(active') \cup {c} /\ c \notin TracedIn(active')
      BY <1>4, <2>4
    <3>4. \A f \in Fiber : c \notin TracedIn(parked[f])
      BY <1>1, <3>3
    <3> QED
      BY <3>1, <3>2, <3>3, <3>4
  <2>7. c \notin SpanCalls /\ c \notin lost
    BY <1>2, <2>6
  <2>8. s \notin CallSpans
    BY <2>2, <2>7 DEF SpanCalls, c
  <2>9. /\ IsFiniteSet(CallSpans') /\ IsFiniteSet(SpanCalls')
        /\ Cardinality(CallSpans') = Cardinality(SpanCalls')
    <3>1. IsFiniteSet(CallSpans') /\ Cardinality(CallSpans') = Cardinality(CallSpans) + 1
      BY <1>1, <2>2, <2>8, FS_AddElement
    <3>2. IsFiniteSet(SpanCalls') /\ Cardinality(SpanCalls') = Cardinality(SpanCalls) + 1
      BY <1>1, <2>5, <2>7, FS_AddElement
    <3> QED
      BY <1>2, <3>1, <3>2
  <2>10. CallsInv'
    <3>1. TracedIn(active') \subseteq TracedIn(active)
      BY <1>4
    <3>2. \A f \in Fiber : TracedIn(active') \cap TracedIn(parked'[f]) = {}
      BY <1>0, <1>1, <3>1
    <3> QED
      BY <1>0, <1>1, <1>4, <2>9, <3>2 DEF CallsInv
  <2> DEFINE numbers == 1 .. calls
  <2>11. 1 .. calls' = numbers /\ numbers = SpanCalls \cup OpenCalls \cup lost
    BY <1>0, <1>2
  <2> HIDE DEF numbers
  <2>12. /\ 1 .. calls' = SpanCalls' \cup OpenCalls' \cup lost'
         /\ SpanCalls' \cap (OpenCalls' \cup lost') = {} /\ OpenCalls' \cap lost' = {}
    BY <1>0, <1>2, <2>5, <2>6, <2>7, <2>11
  <2> QED
    BY <2>9, <2>10, <2>12 DEF AccountInv, EveryCallAccountedFor, SpanCalls
<1>6. CASE ~WasTraced
  <2>1. CallSpans' = CallSpans /\ Top.call = 0
    BY <1>0, <1>6, TopFrame DEF CallSpans, FrameOK, WasTraced
  <2>2. TracedIn(<<Top>>) = {}
    BY <2>1, FewCalls
  <2>3. TracedIn(active') = TracedIn(active)
    BY <1>4, <2>2
  <2>4. OpenCalls' = OpenCalls
    BY <1>0, <2>3 DEF OpenCalls
  <2>5. EveryCallAccountedFor' /\ IsFiniteSet(CallSpans)' /\ IsFiniteSet(SpanCalls)'
    BY <1>0, <2>1, <2>4, AccountStays
  <2>6. CallsInv'
    BY <1>0, <1>1, <1>4, <2>3, <2>5 DEF CallsInv
  <2> QED
    BY <2>5, <2>6 DEF AccountInv
<1> QED
  BY <1>5, <1>6

\* A fiber that suspends or is resumed moves its calls from one stack to another.
LEMMA SwitchAccount ==
  ASSUME BaseInv, AccountInv, Suspend \/ \E f \in Fiber : Resume(f)
  PROVE  AccountInv'
<1>0. TypeInv /\ ChainInv /\ parked \in [Fiber -> Seq(Frame)]
  BY DEF BaseInv, TypeInv
<1>1. /\ Once(active) /\ \A f \in Fiber : Once(parked[f])
      /\ \A f \in Fiber : TracedIn(active) \cap TracedIn(parked[f]) = {}
      /\ \A f, g \in Fiber : f # g => TracedIn(parked[f]) \cap TracedIn(parked[g]) = {}
  BY DEF AccountInv, CallsInv
<1>2. CallSpans' = CallSpans /\ calls' = calls /\ lost' = lost
  BY DEF Suspend, Resume, CallSpans, history_vars
<1>3. OpenCalls = TracedIn(active) \cup UNION {TracedIn(parked[f]) : f \in Fiber}
  BY DEF OpenCalls
<1>4. OpenCalls' = TracedIn(active') \cup UNION {TracedIn(parked'[f]) : f \in Fiber}
  BY DEF OpenCalls
<1>5. ASSUME NEW g \in Fiber, NEW lo, NEW hi,
             TracedIn(lo) \cap TracedIn(hi) = {}, Once(lo), Once(hi),
             \/ /\ active' = lo /\ parked' = [parked EXCEPT ![g] = hi]
                /\ TracedIn(active) = TracedIn(lo) \cup TracedIn(hi) /\ TracedIn(parked[g]) = {}
             \/ /\ active = lo /\ parked[g] = hi /\ parked' = [parked EXCEPT ![g] = <<>>]
                /\ TracedIn(active') = TracedIn(lo) \cup TracedIn(hi) /\ Once(active')
      PROVE  AccountInv'
  <2>1. Once(<<>>) /\ TracedIn(<<>>) = {}
    BY FewCalls
  <2>2. Once(active') /\ Once(parked'[g])
    BY <1>0, <1>5, <2>1
  <2>3. \A f \in Fiber : f # g => parked'[f] = parked[f]
    BY <1>0, <1>5
  <2>4. /\ TracedIn(active') \cup TracedIn(parked'[g]) = TracedIn(active) \cup TracedIn(parked[g])
        /\ TracedIn(active') \cap TracedIn(parked'[g]) = {}
    BY <1>0, <1>5, <2>1
  <2>5. OpenCalls' = OpenCalls
    <3>1. UNION {TracedIn(parked[f]) : f \in Fiber}
            = TracedIn(parked[g]) \cup UNION {TracedIn(parked[f]) : f \in Fiber \ {g}}
      OBVIOUS
    <3>2. UNION {TracedIn(parked'[f]) : f \in Fiber}
            = TracedIn(parked'[g]) \cup UNION {TracedIn(parked[f]) : f \in Fiber \ {g}}
      BY <2>3
    <3> QED
      BY <1>3, <1>4, <2>4, <3>1, <3>2
  <2>6. \A f \in Fiber : Once(parked'[f])
    BY <1>1, <2>2, <2>3
  <2>7. ASSUME NEW f \in Fiber PROVE TracedIn(active') \cap TracedIn(parked'[f]) = {}
    <3>1. CASE f = g
      BY <2>4, <3>1
    <3>2. CASE f # g
      <4>1. /\ TracedIn(active) \cap TracedIn(parked[f]) = {}
            /\ TracedIn(parked[g]) \cap TracedIn(parked[f]) = {}
        BY <1>1, <3>2
      <4>2. TracedIn(active') \subseteq TracedIn(active) \cup TracedIn(parked[g])
        BY <2>4
      <4> QED
        BY <2>3, <3>2, <4>1, <4>2
    <3> QED
      BY <3>1, <3>2
  <2>8. ASSUME NEW f \in Fiber, f # g PROVE TracedIn(parked'[g]) \cap TracedIn(parked'[f]) = {}
    <3>1. /\ TracedIn(active) \cap TracedIn(parked[f]) = {}
          /\ TracedIn(parked[g]) \cap TracedIn(parked[f]) = {}
      BY <1>1, <2>8
    <3>2. TracedIn(parked'[g]) \subseteq TracedIn(active) \cup TracedIn(parked[g])
      BY <2>4
    <3> QED
      BY <2>3, <2>8, <3>1, <3>2
  <2>9. ASSUME NEW e \in Fiber, NEW f \in Fiber, e # f
        PROVE  TracedIn(parked'[e]) \cap TracedIn(parked'[f]) = {}
    <3>1. CASE e # g /\ f # g
      BY <1>1, <2>3, <2>9, <3>1
    <3>2. CASE e = g
      BY <2>8, <2>9, <3>2
    <3>3. CASE f = g
      BY <2>8, <2>9, <3>3
    <3> QED
      BY <3>1, <3>2, <3>3
  <2>10. EveryCallAccountedFor' /\ IsFiniteSet(CallSpans)' /\ IsFiniteSet(SpanCalls)'
    BY <1>2, <2>5, AccountStays
  <2>11. CallsInv'
    BY <2>2, <2>6, <2>7, <2>9, <2>10 DEF CallsInv
  <2> QED
    BY <2>10, <2>11 DEF AccountInv
<1>6. CASE Suspend
  <2>1. /\ TopFiber \in Fiber /\ parked[TopFiber] = <<>>
        /\ Below \in Seq(Frame) /\ Above \in Seq(Frame) /\ active = Below \o Above
        /\ active' = Below /\ parked' = [parked EXCEPT ![TopFiber] = Above]
    BY <1>0, <1>6, SuspendStack
  <2>2. /\ TracedIn(active) = TracedIn(Below) \cup TracedIn(Above)
        /\ Once(Below) /\ Once(Above) /\ TracedIn(Below) \cap TracedIn(Above) = {}
    BY <1>1, <2>1, ConcatCalls
  <2>3. TracedIn(parked[TopFiber]) = {}
    BY <2>1, FewCalls
  <2> QED
    BY <1>5, <2>1, <2>2, <2>3
<1>7. ASSUME NEW g \in Fiber, Resume(g) PROVE AccountInv'
  <2>1. /\ active \in Seq(Frame) /\ parked[g] \in Seq(Frame) /\ active' = active \o parked[g]
        /\ parked' = [parked EXCEPT ![g] = <<>>]
    BY <1>0, <1>7, ResumeStack
  <2>2. TracedIn(active) \cap TracedIn(parked[g]) = {} /\ Once(active) /\ Once(parked[g])
    BY <1>1
  <2>3. TracedIn(active') = TracedIn(active) \cup TracedIn(parked[g]) /\ Once(active')
    BY <2>1, <2>2, ConcatCalls
  <2> QED
    BY <1>5, <2>1, <2>2, <2>3
<1> QED
  BY <1>6, <1>7

\* A fatal error or the end of the request loses the calls whose frames it discards.
LEMMA LossAccount ==
  ASSUME BaseInv, AccountInv, Bailout \/ RSHUTDOWN
  PROVE  AccountInv'
<1>1. /\ Once(active) /\ \A f \in Fiber : Once(parked[f])
      /\ \A f \in Fiber : TracedIn(active) \cap TracedIn(parked[f]) = {}
      /\ \A f, g \in Fiber : f # g => TracedIn(parked[f]) \cap TracedIn(parked[g]) = {}
      /\ IsFiniteSet(CallSpans) /\ IsFiniteSet(SpanCalls)
  BY DEF AccountInv, CallsInv
<1>2. /\ 1 .. calls = SpanCalls \cup OpenCalls \cup lost
      /\ SpanCalls \cap (OpenCalls \cup lost) = {} /\ OpenCalls \cap lost = {}
      /\ Cardinality(CallSpans) = Cardinality(SpanCalls)
  BY Account DEF AccountInv
<1>3. CallSpans' = CallSpans /\ SpanCalls' = SpanCalls /\ calls' = calls /\ active' = <<>>
  BY DEF Bailout, RSHUTDOWN, CallSpans, SpanCalls
<1>4. Once(<<>>) /\ TracedIn(<<>>) = {}
  BY FewCalls
<1>5. OpenCalls = TracedIn(active) \cup UNION {TracedIn(parked[f]) : f \in Fiber}
  BY DEF OpenCalls
<1>6. OpenCalls' = UNION {TracedIn(parked'[f]) : f \in Fiber}
  BY <1>3, <1>4 DEF OpenCalls
<1>7. /\ OpenCalls' \cup lost' = OpenCalls \cup lost /\ OpenCalls' \cap lost' = {}
      /\ \A f \in Fiber : Once(parked'[f])
      /\ \A f, g \in Fiber : f # g => TracedIn(parked'[f]) \cap TracedIn(parked'[g]) = {}
  <2>1. CASE Bailout
    <3>1. parked' = parked /\ lost' = lost \cup TracedIn(active)
      BY <2>1 DEF Bailout
    <3> QED
      BY <1>1, <1>2, <1>5, <1>6, <3>1
  <2>2. CASE RSHUTDOWN
    <3>1. /\ \A f \in Fiber : parked'[f] = <<>>
          /\ lost' = lost \cup UNION {TracedIn(parked[f]) : f \in Fiber} /\ active = <<>>
      BY <2>2 DEF RSHUTDOWN
    <3>2. OpenCalls' = {}
      BY <1>4, <1>6, <3>1
    <3>3. OpenCalls = UNION {TracedIn(parked[f]) : f \in Fiber}
      BY <1>4, <1>5, <3>1
    <3> QED
      BY <1>4, <3>1, <3>2, <3>3
  <2> QED
    BY <2>1, <2>2
<1>8. \A f \in Fiber : TracedIn(active') \cap TracedIn(parked'[f]) = {}
  BY <1>3, <1>4
<1>9. CallsInv'
  BY <1>1, <1>3, <1>4, <1>7, <1>8 DEF CallsInv
<1> DEFINE numbers == 1 .. calls
<1>10. 1 .. calls' = numbers /\ numbers = SpanCalls \cup OpenCalls \cup lost
  BY <1>2, <1>3
<1> HIDE DEF numbers
<1>11. /\ 1 .. calls' = SpanCalls' \cup OpenCalls' \cup lost'
       /\ SpanCalls' \cap (OpenCalls' \cup lost') = {} /\ OpenCalls' \cap lost' = {}
       /\ Cardinality(CallSpans') = Cardinality(SpanCalls')
  BY <1>2, <1>3, <1>7, <1>10
<1> QED
  BY <1>9, <1>11 DEF AccountInv, EveryCallAccountedFor, SpanCalls

\* Every step keeps the account.
LEMMA AccountStep == BaseInv /\ AccountInv /\ [Next]_vars => AccountInv'
<1> SUFFICES ASSUME BaseInv, AccountInv, [Next]_vars PROVE AccountInv'
  OBVIOUS
<1>1. CASE UNCHANGED <<active, parked, calls, lost>> /\ ~Return
  <2>1. CallSpans' = CallSpans
    BY <1>1, NoSpanOtherwise
  <2>2. OpenCalls' = OpenCalls
    BY <1>1 DEF OpenCalls
  <2>3. EveryCallAccountedFor' /\ IsFiniteSet(CallSpans)' /\ IsFiniteSet(SpanCalls)'
    BY <1>1, <2>1, <2>2, AccountStays
  <2>4. CallsInv'
    BY <1>1, <2>3 DEF CallsInv, AccountInv
  <2> QED
    BY <2>3, <2>4 DEF AccountInv
<1>2. \/ UNCHANGED <<active, parked, calls, lost>>
      \/ Bailout \/ RSHUTDOWN \/ Return \/ Suspend \/ (\E f \in Fiber : Resume(f))
      \/ \E k \in Kind, m \in BOOLEAN : Call(k, m)
  BY DEF Next, vars, RINIT, CreateSpan, FinalizeSpan, stack_vars, history_vars
<1> QED
  BY <1>1, <1>2, CallAccount, ReturnAccount, SwitchAccount, LossAccount

\* Every traced call has one span, or is still open, or was discarded by a fatal error: the
\* hook that began a span finishes it, once, whatever was called, suspended and resumed in
\* between (php_trace_execute_ex and php_trace_execute_internal from entry to exit).
THEOREM CallsAccounted == Spec => []EveryCallAccountedFor
<1>1. Init => AccountInv
  <2> SUFFICES ASSUME Init PROVE AccountInv
    OBVIOUS
  <2>1. /\ active = <<>> /\ (\A f \in Fiber : parked[f] = <<>>) /\ calls = 0
        /\ CallSpans = {} /\ SpanCalls = {} /\ lost = {}
    BY DEF Init, CallSpans, SpanCalls
  <2>2. OpenCalls = {}
    BY <2>1, FewCalls DEF OpenCalls
  <2>3. 1 .. calls = {}
    BY <2>1
  <2>4. CallsInv
    BY <2>1, FewCalls, FS_EmptySet DEF CallsInv
  <2>5. EveryCallAccountedFor
    BY <2>1, <2>2, <2>3, Account
  <2> QED
    BY <2>4, <2>5 DEF AccountInv
<1>2. BaseInv /\ AccountInv /\ [Next]_vars => AccountInv'
  BY AccountStep
<1>3. AccountInv => EveryCallAccountedFor
  BY DEF AccountInv
<1> QED
  BY <1>1, <1>2, <1>3, BaseInvariance, PTL DEF Spec
=============================================================================
