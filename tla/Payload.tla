------------------------------- MODULE Payload -------------------------------
(***************************************************************************)
(* Spans as Loki and Tempo get them (loki_exporter.cpp), and as the two    *)
(* read them.  A text is a sequence of bytes, of which one of each kind    *)
(* that json_escape tells apart stands for all.  A JSON object is a record *)
(* with its strings under `text', which is what escaping is about, and     *)
(* its numbers and Booleans under `number'.                                *)
(***************************************************************************)
EXTENDS Naturals, Sequences, SequencesExt

Byte == {"n", "quote", "backslash", "newline", "control", "high"}

\* One byte inside a JSON string.  "u0001" and "u00c3" are the digits of \u0001 and \u00c3.
EscapeSignedByte(b) ==
  CASE b = "high" -> <<"backslash", "u00c3">> [] b = "control" -> <<"backslash", "u0001">>
    [] b \in {"quote", "backslash"} -> <<"backslash", b>>
    [] b = "newline" -> <<"backslash", "n">> [] OTHER -> <<b>>
EscapeByte(b) ==
  CASE b \in {"quote", "backslash"} -> <<"backslash", b>>
    [] b = "newline" -> <<"backslash", "n">>
    [] b = "control" -> <<"backslash", "u0001">>
    [] OTHER -> <<b>>      \* chars are compared as unsigned, so bytes from 0x80 stay

JsonEscape(t) == FlattenSeq([i \in DOMAIN t |-> EscapeByte(t[i])])
EscapeTexts(object) ==
  [object EXCEPT !.text = [f \in DOMAIN object.text |-> JsonEscape(object.text[f])]]

\* What a JSON parser makes of the inside of a string; a byte that may not stand there, an
\* unescaped quote among them, leaves a "malformed" in the text.
Meaning(b) == CASE b = "n" -> "newline" [] b = "u0001" -> "control"
                [] b \in {"quote", "backslash"} -> b [] OTHER -> "unknown"
\* One byte after what was read: a backslash takes the byte behind it away from the text.
ReadByte(r, b) ==
  CASE r.mode = "escaped" -> [text |-> Append(r.text, Meaning(b)), mode |-> "plain"]
    [] r.mode = "plain" /\ b = "backslash" -> [r EXCEPT !.mode = "escaped"]
    [] r.mode = "plain" /\ b \in {"quote", "newline", "control"} ->
         [r EXCEPT !.text = Append(r.text, "malformed")]
    [] OTHER -> [r EXCEPT !.text = Append(r.text, b)]

Unescape(t) ==
  LET read[i \in 0 .. Len(t)] ==
        IF i = 0 THEN [text |-> <<>>, mode |-> "plain"] ELSE ReadByte(read[i - 1], t[i])
      all == read[Len(t)]
  IN  IF all.mode = "plain" THEN all.text ELSE Append(all.text, "malformed")
UnescapeTexts(object) ==
  [object EXCEPT !.text = [f \in DOMAIN object.text |-> Unescape(object.text[f])]]

-----------------------------------------------------------------------------
UNSET == 0
OK == 1
ERROR == 2
INTERNAL == 0
CLIENT == 2

StatusCodeName(code) == CASE code = OK -> "OK" [] code = ERROR -> "ERROR" [] OTHER -> "UNSET"
DurationNs(s) == IF s.end_time_ns > s.start_time_ns THEN s.end_time_ns - s.start_time_ns ELSE 0

\* The strings both backends get of a span; one that the code leaves out when it is empty is
\* read as empty.
Texts(s) ==
  [trace_id |-> s.trace_id, span_id |-> s.span_id, parent_span_id |-> s.parent_span_id,
   name |-> s.operation_name, message |-> s.status_message, attribute |-> s.attribute]

\* Loki's line repeats the span's own service name too, with nothing in place of an empty one.
LineTexts(s) ==
  [trace_id |-> s.trace_id, span_id |-> s.span_id, parent_span_id |-> s.parent_span_id,
   name |-> s.operation_name, message |-> s.status_message, attribute |-> s.attribute,
   service_name |-> s.service_name]

php_app == <<"n">>
LokiServiceOfSpan(s, service) == s.service_name
LokiService(s, service) == IF s.service_name = <<>> THEN service ELSE s.service_name

\* One stream: its labels (job, kind and the configured extra ones left out), the timestamp of
\* its only entry and, escaped once more, the entry, itself a JSON object.
BuildPayload(s, service) ==
  [labels |-> EscapeTexts([text |-> [service |-> LokiService(s, service),
                                     operation |-> s.operation_name]]),
   timestamp |-> s.start_time_ns,
   line |-> EscapeTexts(EscapeTexts(
     [text |-> LineTexts(s),
      number |-> [kind |-> s.kind, start |-> s.start_time_ns, end |-> s.end_time_ns,
                  duration |-> DurationNs(s), status |-> StatusCodeName(s.status_code),
                  depth |-> s.depth, is_root |-> s.parent_span_id = <<>>]]))]

\* A span of Tempo has an id in any case, the first half of the trace's if need be, and a
\* status that is an error or not.  Its depth is not sent.
TempoCode(code) == IF code = ERROR THEN 2 ELSE 1
BuildTempoPayload(s, service) ==
  [resource |-> JsonEscape(IF service = <<>> THEN php_app ELSE service),
   span |-> EscapeTexts(
     [text |-> [Texts(s) EXCEPT !.span_id = IF s.span_id = <<>> THEN SubSeq(s.trace_id, 1, 1)
                                              ELSE s.span_id],
      number |-> [kind |-> IF s.kind = CLIENT THEN 3 ELSE 1, start |-> s.start_time_ns,
                  end |-> s.end_time_ns, code |-> TempoCode(s.status_code)]])]

\* What a user of the backend sees of the span.
LokiShows(payload) ==
  LET line == UnescapeTexts(UnescapeTexts(payload.line)) IN
  [service |-> UnescapeTexts(payload.labels).text.service,
   operation |-> UnescapeTexts(payload.labels).text.operation,
   text |-> line.text, start |-> line.number.start, end |-> line.number.end,
   error |-> line.number.status = "ERROR", client |-> line.number.kind = CLIENT,
   depth |-> line.number.depth]

TempoShows(payload) ==
  LET span == UnescapeTexts(payload.span) IN
  [service |-> Unescape(payload.resource), operation |-> span.text.name,
   text |-> span.text, start |-> span.number.start, end |-> span.number.end,
   error |-> span.number.code = 2, client |-> span.number.kind = 3]
=============================================================================
