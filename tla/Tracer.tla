------------------------------- MODULE Tracer -------------------------------
(***************************************************************************)
(* One PHP thread serving requests with the hooks installed                *)
(* (php_trace.cpp): the TraceContext of the request, the calls that pass   *)
(* through php_trace_execute_ex and php_trace_execute_internal, and the    *)
(* spans they push.                                                        *)
(*                                                                         *)
(* What the interpreter does around the hooks is modelled as the hooks see *)
(* it.  Each call is a C++ frame of a hook; a Fiber carries its frames     *)
(* away when it suspends and puts them back on top of the caller's when it *)
(* is resumed; a fatal error longjmps over every running frame, after      *)
(* which shutdown functions are still called.  All clock readings and      *)
(* generated ids are distinct: a call's start time is its number.          *)
(***************************************************************************)
EXTENDS Integers, Sequences, FiniteSets

CONSTANTS
  Fiber,        \* the fibers PHP code uses
  TracedKinds,  \* those of "user" and "internal" that trace_user, trace_internal switch on
  MaxDepth,     \* max_depth, 0 for no limit
  MaxRequests,  \* bound: requests served
  MaxNesting,   \* bound: frames on the running stack
  MaxCalls,     \* bound: traced calls in a behaviour
  MaxIds,       \* bound: ids generated in a behaviour
  MaxManual     \* bound: manual spans created in a request; pushed in a behaviour

Kind == {"user", "internal"}

ASSUME TracerAssumption ==
  /\ TracedKinds \subseteq Kind
  /\ MaxDepth \in Nat /\ MaxRequests \in Nat /\ MaxNesting \in Nat
  /\ MaxCalls \in Nat /\ MaxIds \in Nat /\ MaxManual \in Nat

VARIABLES
  serving,       \* between RINIT and RSHUTDOWN
  requests,      \* requests begun
  ctx,           \* the thread's TraceContext, or NoCtx
  active,        \* hook frames of the running code, outermost first
  chain,         \* the fibers running, outermost first, and where their frames begin in active
  parked,        \* the frames of each fiber that is not running
  ids,           \* ids generated
  calls,         \* traced calls begun
  pushed,        \* spans given to try_push
  created,       \* history: ids returned by php_trace_create_span in this request
  chosen,        \* history: the trace id RINIT chose, Empty when the request is not sampled
  upset,         \* history: "bailout" and "switch" when they happened in this request
  lost           \* history: traced calls whose frame a fatal error discarded

stack_vars == <<active, chain, parked>>
history_vars == <<created, chosen, upset, lost>>
vars == <<serving, requests, ctx, stack_vars, ids, calls, pushed, history_vars>>

Empty == 0     \* the empty string
Remote == -1   \* an id the client sent in its traceparent header
Id == 1 .. MaxIds

NoCtx == [in_trace |-> "none"]
Blank == [in_trace |-> FALSE, trace_id |-> Empty, parent_span_id |-> Empty, depth |-> 0,
          span_stack |-> <<>>]
Ctx == [in_trace : BOOLEAN, trace_id : Id \cup {Empty, Remote},
        parent_span_id : Id \cup {Empty, Remote}, depth : Nat, span_stack : Seq(1 .. MaxCalls)]

\* The locals of a hook, and the number of the call.  An untraced call keeps nothing.
Frame == [kind : Kind, trace_this : BOOLEAN, span_parent : Id \cup {Empty, Remote},
          depth_before : Nat, call : 0 .. MaxCalls]
Untraced == [kind |-> "user", trace_this |-> FALSE, span_parent |-> Empty, depth_before |-> 0,
             call |-> 0]

Init ==
  /\ serving = FALSE /\ requests = 0
  /\ ctx = NoCtx
  /\ active = <<>> /\ chain = <<>> /\ parked = [f \in Fiber |-> <<>>]
  /\ ids = 0 /\ calls = 0 /\ pushed = {}
  /\ created = {} /\ chosen = Empty /\ upset = {} /\ lost = {}

\* The traced calls among some frames.
TracedIn(frames) == {frames[i].call : i \in DOMAIN frames} \ {0}

HasCtx == ctx # NoCtx
GetCtx == IF HasCtx THEN ctx ELSE Blank

(***************************************************************************)
(* Requests.                                                               *)
(***************************************************************************)
InitUnsampledInTrace ==
  /\ ctx' = [Blank EXCEPT !.in_trace = TRUE]
  /\ chosen' = Empty
  /\ UNCHANGED ids

InitUnsampled ==
  /\ ctx' = Blank
  /\ chosen' = Empty
  /\ UNCHANGED ids

\* A traceparent header with a trace id and a parent, either of them or none.
InitSampled(has_trace, has_parent) ==
  /\ ids < MaxIds
  /\ ids' = ids + IF has_trace THEN 0 ELSE 1
  /\ chosen' = IF has_trace THEN Remote ELSE ids'
  /\ ctx' = [Blank EXCEPT !.in_trace = TRUE, !.trace_id = chosen',
                          !.parent_span_id = IF has_parent THEN Remote ELSE Empty]

RINIT ==
  /\ ~serving
  /\ active = <<>>
  /\ requests < MaxRequests
  /\ serving' = TRUE /\ requests' = requests + 1
  /\ InitUnsampled \/ \E t, p \in BOOLEAN : InitSampled(t, p)
  /\ created' = {} /\ upset' = {}
  /\ UNCHANGED <<stack_vars, calls, pushed, lost>>

\* Every fiber has been unwound by then, unless a fatal error ended the script.
RSHUTDOWN ==
  /\ serving
  /\ active = <<>> /\ chain = <<>>
  /\ "bailout" \in upset \/ \A f \in Fiber : parked[f] = <<>>
  /\ serving' = FALSE
  /\ ctx' = NoCtx
  /\ lost' = lost \cup UNION {TracedIn(parked[f]) : f \in Fiber}
  /\ parked' = [f \in Fiber |-> <<>>]
  /\ UNCHANGED <<requests, active, chain, ids, calls, pushed, created, chosen, upset>>

(***************************************************************************)
(* Calls.  The two hooks differ in where they keep the start time: the     *)
(* hook for user functions on span_stack, the one for internal functions   *)
(* in a local.                                                             *)
(***************************************************************************)
DepthPassed(depth) == MaxDepth > 0 /\ depth > MaxDepth
DepthReached(depth) == MaxDepth > 0 /\ depth >= MaxDepth

\* php_trace_should_trace; `matches' is what the name patterns say.
ShouldTrace(k, matches) ==
  GetCtx.in_trace /\ k \in TracedKinds /\ matches /\ ~DepthReached(GetCtx.depth)

CallTraced(k) ==
  /\ calls < MaxCalls
  /\ calls' = calls + 1
  /\ active' = Append(active, [kind |-> k, trace_this |-> TRUE,
                               span_parent |-> ctx.parent_span_id,
                               depth_before |-> ctx.depth, call |-> calls'])
  /\ ctx' = [ctx EXCEPT !.depth = @ + 1,
                        !.span_stack = IF k = "user" THEN Append(@, calls') ELSE @]

CallUntraced ==
  /\ active' = Append(active, Untraced)
  /\ ctx' = GetCtx
  /\ UNCHANGED calls

\* User code also runs after RSHUTDOWN: session handlers that write on close.
Call(k, matches) ==
  /\ requests > 0
  /\ Len(active) < MaxNesting
  /\ IF ShouldTrace(k, matches) THEN CallTraced(k) ELSE CallUntraced
  /\ UNCHANGED <<serving, requests, chain, parked, ids, pushed, history_vars>>

Base == IF chain = <<>> THEN 0 ELSE chain[Len(chain)].base
Top == active[Len(active)]
WithoutLast(s) == SubSeq(s, 1, Len(s) - 1)

\* The start time the hook takes; 0 stands for a clock reading at the end.
Start == IF Top.kind = "internal" THEN Top.call
         ELSE IF ctx.span_stack = <<>> THEN 0
         ELSE ctx.span_stack[Len(ctx.span_stack)]

KeepStart == ctx.span_stack
PopStart == IF Top.kind = "internal" \/ ctx.span_stack = <<>> THEN ctx.span_stack
            ELSE WithoutLast(ctx.span_stack)

Span(parent) ==
  [kind |-> Top.kind, span_id |-> ids', trace_id |-> ctx.trace_id, parent_span_id |-> parent,
   start |-> Start, depth |-> Top.depth_before, call |-> Top.call, request |-> requests,
   chosen |-> chosen, upset |-> upset]

\* What the context holds when the call is over: the depth it found and its own id.
DepthBelow == Top.depth_before - 1
DepthKept == ctx.depth
DepthAfter == Top.depth_before
ParentFromTrace == ctx.trace_id
ParentAfter == ids'

FinishSpan ==
  /\ ids < MaxIds
  /\ ids' = ids + 1
  /\ pushed' = pushed \cup {Span(Top.span_parent)}
  /\ ctx' = [ctx EXCEPT !.parent_span_id = ParentAfter, !.depth = DepthAfter,
                        !.span_stack = PopStart]

TracedOnReturn == GetCtx.in_trace
WasTraced == Top.trace_this

\* A function returns or is left by an exception.
Return ==
  /\ Len(active) > Base
  /\ active' = WithoutLast(active)
  /\ IF WasTraced THEN FinishSpan ELSE UNCHANGED <<ids, pushed, ctx>>
  /\ UNCHANGED <<serving, requests, chain, parked, calls, history_vars>>

(***************************************************************************)
(* Control flow of the interpreter that is not a call or a return.         *)
(***************************************************************************)
Resume(f) ==
  /\ serving
  /\ \A i \in DOMAIN chain : chain[i].fiber # f
  /\ Len(active) + Len(parked[f]) <= MaxNesting
  /\ chain' = Append(chain, [fiber |-> f, base |-> Len(active)])
  /\ active' = active \o parked[f]
  /\ parked' = [parked EXCEPT ![f] = <<>>]
  /\ UNCHANGED <<serving, requests, ctx, ids, calls, pushed, history_vars>>

\* The running fiber suspends; or ends, when no frame of it is left.
Suspend ==
  /\ chain # <<>>
  /\ chain' = WithoutLast(chain)
  /\ parked' = [parked EXCEPT ![chain[Len(chain)].fiber] = SubSeq(active, Base + 1, Len(active))]
  /\ active' = SubSeq(active, 1, Base)
  /\ upset' = IF \E i \in Base + 1 .. Len(active) : active[i].trace_this
              THEN upset \cup {"switch"} ELSE upset
  /\ UNCHANGED <<serving, requests, ctx, ids, calls, pushed, created, chosen, lost>>

Bailout ==
  /\ active # <<>>
  /\ lost' = lost \cup TracedIn(active)
  /\ upset' = upset \cup {"bailout"}
  /\ active' = <<>> /\ chain' = <<>>
  /\ UNCHANGED <<serving, requests, ctx, parked, ids, calls, pushed, created, chosen>>

(***************************************************************************)
(* The functions PHP code can call.                                        *)
(***************************************************************************)
CreateSpanAsParent ==
  /\ requests > 0
  /\ HasCtx /\ ctx.in_trace
  /\ ids < MaxIds /\ Cardinality(created) < MaxManual
  /\ ids' = ids + 1
  /\ created' = created \cup {ids'}
  /\ ctx' = [ctx EXCEPT !.parent_span_id = ids']
  /\ UNCHANGED <<serving, requests, stack_vars, calls, pushed, chosen, upset, lost>>

\* php_trace_create_span: the span is built and forgotten, its id is returned.
CreateSpan ==
  /\ requests > 0
  /\ HasCtx /\ ctx.in_trace
  /\ ids < MaxIds /\ Cardinality(created) < MaxManual
  /\ ids' = ids + 1
  /\ created' = created \cup {ids'}
  /\ UNCHANGED <<serving, requests, ctx, stack_vars, calls, pushed, chosen, upset, lost>>

\* php_trace_finalize_span: pushes a new span under the id it is given, which is
\* empty when the caller passes on the null that php_trace_create_span returned.
FinalizeSpan(id) ==
  /\ requests > 0
  /\ HasCtx
  /\ Cardinality({s \in pushed : s.kind = "manual"}) < MaxManual
  /\ pushed' = pushed \cup
       {[kind |-> "manual", span_id |-> id, trace_id |-> ctx.trace_id,
         parent_span_id |-> ctx.parent_span_id, start |-> 0, depth |-> 0, call |-> 0,
         request |-> requests, chosen |-> chosen, upset |-> upset]}
  /\ UNCHANGED <<serving, requests, ctx, stack_vars, ids, calls, history_vars>>

Next ==
  \/ RINIT
  \/ RSHUTDOWN
  \/ \E k \in Kind, matches \in BOOLEAN : Call(k, matches)
  \/ Return
  \/ \E f \in Fiber : Resume(f)
  \/ Suspend
  \/ Bailout
  \/ CreateSpan
  \/ \E id \in created \cup {Empty} : FinalizeSpan(id)

Spec == Init /\ [][Next]_vars

-----------------------------------------------------------------------------
CallSpans == {s \in pushed : s.kind \in Kind}
TracedUpTo(i) == Cardinality({j \in 1 .. i : active[j].trace_this})
UserTracedUpTo(i) ==
  Cardinality({j \in 1 .. i : active[j].trace_this /\ active[j].kind = "user"})
OpenCalls == TracedIn(active) \cup UNION {TracedIn(parked[f]) : f \in Fiber}

\* Types: a context is the null pointer or a whole TraceContext; a frame lies on one stack.
TypeOK ==
  /\ serving \in BOOLEAN
  /\ requests \in 0 .. MaxRequests /\ ids \in 0 .. MaxIds /\ calls \in 0 .. MaxCalls
  /\ ctx = NoCtx \/ /\ ctx \in [in_trace : BOOLEAN, trace_id : Id \cup {Empty, Remote},
                               parent_span_id : Id \cup {Empty, Remote}, depth : Nat,
                               span_stack : Seq(1 .. MaxCalls)]
                    /\ ctx.depth <= MaxCalls
  /\ active \in Seq(Frame)
  /\ \A f \in Fiber : parked[f] \in Seq(Frame)
  /\ \A i \in DOMAIN chain : chain[i].fiber \in Fiber /\ chain[i].base \in 0 .. Len(active)
  /\ chosen \in Id \cup {Empty, Remote}

\* The context is a stack kept beside the real one: as long as no fatal error
\* and no suspended fiber came between in this request, whatever happened in
\* earlier ones, depth counts the open traced calls, each call remembers the
\* count below it, and span_stack holds the start times of the open user calls
\* and of no other, although internal calls between them keep theirs elsewhere.
ContextMatchesStack ==
  serving /\ upset = {} =>
    /\ ctx.depth = TracedUpTo(Len(active))
    /\ Len(ctx.span_stack) = UserTracedUpTo(Len(active))
    /\ \A i \in DOMAIN active :
         active[i].trace_this =>
           /\ active[i].depth_before = TracedUpTo(i - 1)
           /\ active[i].kind = "user" => ctx.span_stack[UserTracedUpTo(i)] = active[i].call

\* A span carries the start time of its own call.  A fatal error leaves start
\* times of discarded calls on span_stack, and what is called afterwards still
\* pops its own: only a suspended fiber can mix them up.
StartsMatch == \A s \in CallSpans : "switch" \notin s.upset => s.start = s.call

\* No call stack, however it was reached, has more than max_depth traced calls
\* open, unless a fiber took traced calls of it away and brought them back.
NestingIsLimited ==
  MaxDepth > 0 /\ "switch" \notin upset => TracedUpTo(Len(active)) <= MaxDepth

\* Every traced call has one span, or is still open, or its frame was discarded
\* by a fatal error: the hook that began a span finishes it, once, whatever
\* was called, suspended and resumed in between.
EveryCallAccountedFor ==
  /\ 1 .. calls = {s.call : s \in CallSpans} \cup OpenCalls \cup lost
  /\ {s.call : s \in CallSpans} \cap (OpenCalls \cup lost) = {}
  /\ OpenCalls \cap lost = {}
  /\ Cardinality(CallSpans) = Cardinality({s.call : s \in CallSpans})

\* A span of a call carries the trace id chosen when its request began, and an
\* unsampled request has none: no interleaving of requests, fibers and fatal
\* errors finishes a call under another context than it began under.
CallSpansHaveTrace ==
  \A s \in CallSpans : s.trace_id # Empty /\ s.trace_id = s.chosen

\* A parent that is not the client's is a span that was pushed, and earlier: a
\* fatal error cannot leave children of a span that never comes.
ParentsWerePushed ==
  \A s \in CallSpans :
    s.parent_span_id \notin {Empty, Remote} =>
      \E t \in CallSpans : t.span_id = s.parent_span_id /\ t.span_id < s.span_id
                           /\ t.request = s.request

\* php_trace.cpp:587, "Set this span as the parent for nested calls": of two
\* calls one of which was made by the other, the inner names the outer as its parent.
\* It does not: the parent is set when the outer call has returned.
ParentIsCaller ==
  \A s, t \in CallSpans :
    /\ s.upset = {} /\ s.request = t.request
    /\ s.call < t.call /\ t.span_id < s.span_id /\ t.depth = s.depth + 1
    => t.parent_span_id = s.span_id

\* php_trace.ini:54, "0.0 = disabled": a request that is not sampled pushes no
\* span.  php_trace_finalize_span does not ask, and pushes one without a trace id.
UnsampledPushesNothing == \A s \in pushed : s.trace_id # Empty
=============================================================================
