----------------------------- MODULE SpanContent -----------------------------
(***************************************************************************)
(* What a span says, from the call or the header it comes from to what a   *)
(* user of the backend reads: one input is taken, goes through the         *)
(* functions of Zval, SpanIds and Payload and of this module, and the      *)
(* result is kept beside it.                                               *)
(***************************************************************************)
EXTENDS Integers, Sequences, Zval, SpanIds, Payload

CONSTANTS
  MaxText,     \* bound: bytes of a text
  MaxHeader,   \* bound: characters of a header
  MaxCells,    \* bound: cells of a value
  MaxElements, \* bound: elements of an array in a value
  MaxString,   \* bound: bytes of a string in a value
  MaxArg,      \* max_arg_length
  ShortText,   \* texts of a value, and names of classes
  Parent,      \* ids of parent spans
  IniValue,    \* php_trace.service_name
  EnvValue     \* PHP_TRACE_SERVICE_NAME

ASSUME ContentAssumption ==
  /\ MaxText \in Nat /\ MaxHeader \in Nat /\ MaxString \in Nat /\ MaxArg \in Nat
  /\ MaxCells \in Nat \ {0} /\ MaxElements \in Nat
  /\ ShortText \cup Parent \cup IniValue \cup EnvValue \subseteq Seq(Byte)

VARIABLES topic, input, result
vars == <<topic, input, result>>

None == <<>>
Init == topic = "none" /\ input = None /\ result = None

Text == SeqOf(Byte, MaxText)

(***************************************************************************)
(* The service's name: php_trace.service_name, which spans are given, and  *)
(* what the exporter makes of it and of PHP_TRACE_SERVICE_NAME.            *)
(***************************************************************************)
ResolveStringValue(ini, env, fallback) ==
  IF env # <<>> THEN env ELSE IF ini # <<>> THEN ini ELSE fallback
ConfiguredService(ini, env) == ResolveStringValue(ini, env, php_app)

(***************************************************************************)
(* Spans: Span::create, what the hooks and php_trace_finalize_span set,    *)
(* and what the exporter makes of it.                                      *)
(***************************************************************************)
Created(parent, name, id, service) ==
  [trace_id |-> <<"n", "n">>, span_id |-> id, parent_span_id |-> parent,
   operation_name |-> name, service_name |-> service, kind |-> INTERNAL,
   start_time_ns |-> 1, end_time_ns |-> 0, status_code |-> UNSET, status_message |-> <<>>,
   attribute |-> <<>>, depth |-> 0]

\* An exception is shown by the name of its class only.
UserSpan(c) ==
  [Created(c.parent, c.name, <<"n">>, c.ini) EXCEPT
     !.end_time_ns = c.end, !.attribute = c.value, !.depth = c.depth,
     !.status_code = IF c.throws THEN ERROR ELSE OK,
     !.status_message = IF c.throws THEN c.class ELSE <<>>]

InternalSpan(c) ==
  [Created(c.parent, c.name, <<"n">>, c.ini) EXCEPT
     !.end_time_ns = c.end, !.attribute = c.value, !.kind = CLIENT, !.depth = c.depth,
     !.status_code = IF c.throws THEN ERROR ELSE OK]

ManualStatusUnchecked(status) == IF status >= 0 /\ status <= 2 THEN status ELSE 1
ManualStatus(status) == IF status >= 1 /\ status <= 2 THEN status ELSE 1

ManualSpan(m) ==
  [Created(m.parent, <<"n">>, m.id, m.ini) EXCEPT
     !.end_time_ns = 2, !.status_code = ManualStatus(m.status)]

\* The clock may be set back during a call, so that it ends before it starts.
Calls ==
  [name : Text, value : ShortText, class : ShortText, parent : Parent, end : {0, 2},
   throws : BOOLEAN, ini : IniValue, depth : {0, 1}]
Manuals == [id : Text, parent : Parent, status : -1 .. 3, ini : IniValue]

\* A hook's span, or the one of php_trace_finalize_span, is posted to one of the backends.
Post(span, failed) ==
  \E env \in EnvValue :
    LET service == ConfiguredService(span.service_name, env) IN
    /\ topic = "none"
    /\ input' = [span |-> span, failed |-> failed, env |-> env]
    /\ \/ topic' = "loki" /\ result' = BuildPayload(span, service)
       \/ topic' = "tempo" /\ result' = BuildTempoPayload(span, service)

PostCall == \E c \in Calls : Post(UserSpan(c), c.throws) \/ Post(InternalSpan(c), c.throws)
PostManual == \E m \in Manuals : Post(ManualSpan(m), m.status = 2)

(***************************************************************************)
(* The traceparent header: version-traceid-parentid-flags.  find() counts  *)
(* from 0 and returns npos, the largest number there is: npos + 1 is 0.    *)
(***************************************************************************)
npos == -1
Find(text, from) ==
  LET found == {i \in from .. Len(text) - 1 : text[i + 1] = "-"}
  IN  IF found = {} THEN npos ELSE Min(found)

Dashes(text) ==
  LET first == Find(text, 0)
      second == Find(text, first + 1)
  IN  <<first, second, Find(text, second + 1)>>

MalformedIfThirdMissing(d) == d[3] = npos
Malformed(d) == npos \in {d[1], d[2], d[3]}

FieldsFromDash(text) ==
  LET d == Dashes(text) IN
  IF Malformed(d) THEN None
  ELSE [trace_id |-> SubSeq(text, d[1] + 1, d[2]), parent_span_id |-> SubSeq(text, d[2] + 1, d[3])]
ExtractTraceContext(text) ==
  LET d == Dashes(text) IN
  IF Malformed(d) THEN None
  ELSE [trace_id |-> SubSeq(text, d[1] + 2, d[2]), parent_span_id |-> SubSeq(text, d[2] + 2, d[3])]

ParseHeader ==
  /\ topic = "none" /\ topic' = "header"
  /\ \E text \in SeqOf({"-", "1", "2"}, MaxHeader) :
       input' = text /\ result' = ExtractTraceContext(text)

\* php_trace_capture_args and php_trace_capture_return, of a value in cell 1.
CaptureValue ==
  /\ topic = "none" /\ topic' = "value"
  /\ \E h \in Heaps(MaxCells, MaxElements, SeqOf({"byte"}, MaxString)) :
       input' = h /\ result' = ZvalToString(h, 1, MaxArg)

GenerateId ==
  /\ topic = "none" /\ topic' = "id"
  /\ \E ns, counter \in Word :
       input' = <<ns, counter>> /\ result' = [trace |-> TraceId(ns, counter),
                                              span |-> SpanId(ns, counter)]

Next == PostCall \/ PostManual \/ ParseHeader \/ CaptureValue \/ GenerateId
Spec == Init /\ [][Next]_vars

-----------------------------------------------------------------------------
\* Types: each topic has its input and its result.
TypeOK ==
  /\ topic \in {"none", "loki", "tempo", "header", "value", "id"}
  /\ topic = "id" => result.span \in Word /\ result.trace \in Word \X Word
  /\ topic = "header" /\ result # None => result.trace_id \in Seq({"1", "2"})

Posted == topic \in {"loki", "tempo"}
Shown == IF topic = "loki" THEN LokiShows(result) ELSE TempoShows(result)

\* The service a user searches by is never empty: Tempo's is the configuration's, and so is
\* Loki's label, unless the INI file gave the span a name of its own.
ServiceIsShown ==
  LET ini == input.span.service_name IN
  /\ Shown.service # <<>>
  /\ Shown.service = IF topic = "loki" /\ ini # <<>> THEN ini ELSE ConfiguredService(ini, input.env)

\* Both backends show the span that was pushed: any bytes in a name, an argument or an id come
\* back as they were, through one escaping for Tempo and two, a JSON object inside a JSON
\* string, for Loki.  Loki's line has the span's depth and its own service name besides, which
\* may be empty where the label is not; only Tempo gives a span without an id one.
BackendsShowSpan ==
  Posted =>
    LET s == input.span IN
    /\ topic = "loki" => Shown.text = LineTexts(s) /\ Shown.depth = s.depth
    /\ topic = "tempo" /\ s.span_id # <<>> => Shown.text = Texts(s)
    /\ Shown.text.span_id = <<>> => topic = "loki"
    /\ Shown.operation = s.operation_name
    /\ Shown.start = s.start_time_ns /\ Shown.end = s.end_time_ns
    /\ Shown.client = (s.kind = CLIENT)
    /\ ServiceIsShown

\* "Resolve a config value from environment first, then INI, then fallback."
\* (php_trace.cpp:115): the service a backend shows is the environment's, if that names one.
EnvironmentComesFirst ==
  Posted /\ input.env # <<>> => Shown.service = input.env

\* A backend shows an error exactly when the call was left by an exception, or the user
\* finalized the span as one; no third status reaches it, which the two would show differently.
OutcomeIsShown ==
  Posted =>
    /\ Shown.error = input.failed
    /\ topic = "loki" => result.line.number.status # "UNSET"

\* A header is adopted when it has four fields or more, and then the second and the third,
\* although find() goes on from the beginning after a dash it did not find.
Fields(text) ==
  LET bounds == {0, Len(text) + 1} \cup {i \in DOMAIN text : text[i] = "-"}
      Bound(n) == CHOOSE b \in bounds : Cardinality({c \in bounds : c < b}) = n
  IN  [i \in 1 .. Cardinality(bounds) - 1 |-> SubSeq(text, Bound(i - 1) + 1, Bound(i) - 1)]
HeaderIsParsed ==
  topic = "header" =>
    LET fields == Fields(input) IN
    result = IF Len(fields) < 4 THEN None
             ELSE [trace_id |-> fields[2], parent_span_id |-> fields[3]]

\* A text is cut where strings are converted and again at the end; the two come to one cut of
\* the whole text, whatever arrays and references the value is made of.
CutOnce ==
  topic = "value" => result = Cut(ZvalToStringImpl(input, 1, 0, 0), MaxArg, "truncated")

\* A value that contains itself is converted with five calls on the stack at most.
RecursionIsBounded ==
  topic = "value" => Activations(input, 1, 0) <= 5

\* Trace ids differ whenever the clock or the counter does, with no help from chance: the
\* multiplier is odd and the counter enters the two halves at different places.  A span id has
\* half the bits, and two that share neither the reading nor the counter may coincide; those of
\* one reading differ, so that a clock that stands still repeats none, and so do those of one
\* counter, so that a forked child, which inherits it, repeats none of its parent's unless
\* the two read the same time.
IdsDiffer ==
  topic = "id" =>
    /\ \A ns, counter \in Word :
         TraceId(ns, counter) = result.trace => <<ns, counter>> = input
    /\ \A counter \in Word : SpanId(input[1], counter) = result.span => counter = input[2]
    /\ \A ns \in Word : SpanId(ns, input[2]) = result.span => ns = input[1]
=============================================================================
