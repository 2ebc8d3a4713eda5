------------------------- MODULE SpanContentProofs -------------------------
(***************************************************************************)
(* All invariants of SpanContent, for texts, headers and values of any     *)
(* size.  The result of a topic is what the code's functions make of its   *)
(* input; what that is, is shown by induction over the data: the bytes of  *)
(* a text, the ends of a header's fields, the levels of a value.           *)
(***************************************************************************)
EXTENDS SpanContent, SpanIdsProofs, FiniteSetTheorems

(***************************************************************************)
(* Escaping and reading back                                               *)
(***************************************************************************)

\* What escaped texts consist of.
Symbol == Byte \cup {"u0001"}

\* A byte is escaped by itself, where a parser takes it for itself, or by two bytes that mean it.
LEMMA EscapeByteCases ==
  ASSUME NEW b \in Symbol
  PROVE  \/ /\ EscapeByte(b) = <<b>>
            /\ b \notin {"backslash", "quote", "newline", "control"}
         \/ \E e \in Symbol : EscapeByte(b) = <<"backslash", e>> /\ Meaning(e) = b
<1>1. CASE b \in {"n", "high", "u0001"}
  BY <1>1 DEF EscapeByte
<1>2. CASE b \in {"quote", "backslash"}
  BY <1>2 DEF EscapeByte, Meaning
<1>3. CASE b = "newline"
  <2>1. EscapeByte(b) = <<"backslash", "n">> /\ Meaning("n") = b /\ "n" \in Symbol
    BY <1>3 DEF EscapeByte, Meaning, Symbol, Byte
  <2> QED
    BY <2>1
<1>4. CASE b = "control"
  <2>1. EscapeByte(b) = <<"backslash", "u0001">> /\ Meaning("u0001") = b /\ "u0001" \in Symbol
    BY <1>4 DEF EscapeByte, Meaning, Symbol
  <2> QED
    BY <2>1
<1> QED
  BY <1>1, <1>2, <1>3, <1>4 DEF Symbol, Byte

LEMMA EscapeByteType ==
  ASSUME NEW b \in Symbol
  PROVE  EscapeByte(b) \in Seq(Symbol)
<1>1. "backslash" \in Symbol
  BY DEF Symbol, Byte
<1>2. \A e \in Symbol : <<e>> \in Seq(Symbol) /\ <<"backslash", e>> \in Seq(Symbol)
  BY <1>1
<1> QED
  BY <1>2, EscapeByteCases

LEMMA EscapeProperties ==
  /\ JsonEscape(<<>>) = <<>>
  /\ \A t \in Seq(Symbol) :
       /\ JsonEscape(t) \in Seq(Symbol)
       /\ \A b \in Symbol : JsonEscape(Append(t, b)) = JsonEscape(t) \o EscapeByte(b)
<1> DEFINE E(t) == [i \in DOMAIN t |-> EscapeByte(t[i])]
<1>1. ASSUME NEW t \in Seq(Symbol) PROVE E(t) \in Seq(Seq(Symbol)) /\ Len(E(t)) = Len(t)
  <2>1. \A i \in 1 .. Len(t) : EscapeByte(t[i]) \in Seq(Symbol)
    BY EscapeByteType
  <2> QED
    BY <2>1
<1>2. JsonEscape(<<>>) = <<>>
  <2>1. E(<<>>) = <<>>
    OBVIOUS
  <2>2. <<>> \in Seq(Seq(Symbol))
    OBVIOUS
  <2>3. FlattenSeq(<<>>) = <<>>
    BY <2>2, FlattenProperties
  <2> QED
    BY <2>1, <2>3 DEF JsonEscape
<1>3. ASSUME NEW t \in Seq(Symbol)
      PROVE  /\ JsonEscape(t) \in Seq(Symbol)
             /\ \A b \in Symbol : JsonEscape(Append(t, b)) = JsonEscape(t) \o EscapeByte(b)
  <2>1. JsonEscape(t) \in Seq(Symbol)
    <3> HIDE DEF E
    <3>1. FlattenSeq(E(t)) \in Seq(Symbol)
      BY <1>1, FlattenProperties
    <3> QED
      BY <3>1 DEF JsonEscape, E
  <2>2. ASSUME NEW b \in Symbol
        PROVE  JsonEscape(Append(t, b)) = JsonEscape(t) \o EscapeByte(b)
    <3>1. E(Append(t, b)) = Append(E(t), EscapeByte(b))
      <4>1. /\ DOMAIN Append(t, b) = 1 .. Len(t) + 1 /\ Len(t) \in Nat
            /\ \A i \in 1 .. Len(t) : Append(t, b)[i] = t[i]
            /\ Append(t, b)[Len(t) + 1] = b
        OBVIOUS
      <4>2. \A i \in 1 .. Len(t) + 1 : i \in 1 .. Len(t) \/ i = Len(t) + 1
        OBVIOUS
      <4> QED
        BY <1>1, <4>1, <4>2, EscapeByteType
    <3>2. E(t) \in Seq(Seq(Symbol)) /\ EscapeByte(b) \in Seq(Symbol)
      BY <1>1, EscapeByteType
    <3> HIDE DEF E
    <3>3. FlattenSeq(Append(E(t), EscapeByte(b))) = FlattenSeq(E(t)) \o EscapeByte(b)
      BY <3>2, FlattenProperties
    <3> QED
      BY <3>1, <3>3 DEF JsonEscape, E
  <2> QED
    BY <2>1, <2>2
<1> QED
  BY <1>2, <1>3

\* What a parser has after some bytes.
ReadState == [text : Seq(Symbol \cup {"unknown", "malformed"}), mode : {"plain", "escaped"}]
NothingRead == [text |-> <<>>, mode |-> "plain"]
ReadStep == [p \in ReadState \X Symbol |-> ReadByte(p[1], p[2])]

LEMMA ReadByteType ==
  ASSUME NEW r \in ReadState, NEW b \in Symbol
  PROVE  ReadByte(r, b) \in ReadState
<1>1. Meaning(b) \in Symbol \cup {"unknown", "malformed"}
  BY DEF Meaning, Symbol, Byte
<1>2. r.text \in Seq(Symbol \cup {"unknown", "malformed"}) /\ r.mode \in {"plain", "escaped"}
  BY DEF ReadState
<1>3. CASE r.mode = "escaped"
  BY <1>1, <1>2, <1>3 DEF ReadByte, ReadState
<1>4. CASE r.mode = "plain"
  <2>1. CASE b = "backslash"
    <3>1. ReadByte(r, b) = [r EXCEPT !.mode = "escaped"]
      BY <1>4, <2>1 DEF ReadByte
    <3> QED
      BY <3>1 DEF ReadState
  <2>2. CASE b # "backslash"
    <3>1. PICK e \in Symbol \cup {"unknown", "malformed"} :
            ReadByte(r, b) = [r EXCEPT !.text = Append(r.text, e)]
      BY <1>4, <2>2 DEF ReadByte
    <3>2. Append(r.text, e) \in Seq(Symbol \cup {"unknown", "malformed"})
      BY <1>2
    <3> QED
      BY <3>1, <3>2 DEF ReadState
  <2> QED
    BY <2>1, <2>2
<1> QED
  BY <1>2, <1>3, <1>4

LEMMA UnescapeFold ==
  ASSUME NEW t \in Seq(Symbol)
  PROVE  \E f : /\ IsFold(f, Len(t), NothingRead, ReadStep, t)
                /\ Unescape(t) = IF f[Len(t)].mode = "plain" THEN f[Len(t)].text
                                 ELSE Append(f[Len(t)].text, "malformed")
<1> DEFINE L == Len(t)
           IsRead(g) == g = [i \in 0 .. L |-> IF i = 0 THEN [text |-> <<>>, mode |-> "plain"]
                                              ELSE ReadByte(g[i - 1], t[i])]
<1>0. L \in Nat /\ \A i \in 1 .. L : t[i] \in Symbol /\ i - 1 \in 0 .. L
  OBVIOUS
<1>1. NothingRead \in ReadState /\ ReadStep \in [ReadState \X Symbol -> ReadState]
  <2>1. NothingRead \in ReadState
    BY DEF NothingRead, ReadState
  <2>2. ReadStep \in [ReadState \X Symbol -> ReadState]
    BY ReadByteType DEF ReadStep
  <2> QED
    BY <2>1, <2>2
<1>2. PICK f \in [0 .. L -> ReadState] : IsFold(f, L, NothingRead, ReadStep, t)
  BY <1>1, FoldExists, Zenon
<1>3. IsRead(f)
  <2> SUFFICES ASSUME NEW i \in 0 .. L
               PROVE  f[i] = IF i = 0 THEN [text |-> <<>>, mode |-> "plain"]
                             ELSE ReadByte(f[i - 1], t[i])
    OBVIOUS
  <2>1. CASE i = 0
    BY <1>2, <2>1 DEF IsFold, NothingRead
  <2>2. CASE i # 0
    <3>1. i \in 1 .. L
      BY <2>2
    <3>2. f[i] = ReadStep[<<f[i - 1], t[i]>>]
      BY <1>2, <3>1, Zenon DEF IsFold
    <3>3. f[i - 1] \in ReadState /\ t[i] \in Symbol
      BY <1>0, <3>1
    <3> QED
      BY <2>2, <3>2, <3>3 DEF ReadStep
  <2> QED
    BY <2>1, <2>2
<1> DEFINE g == CHOOSE h : IsRead(h)
<1>4. IsRead(g)
  <2> HIDE DEF IsRead
  <2> QED
    BY <1>3, Zenon
<1>5. Unescape(t) = IF g[L].mode = "plain" THEN g[L].text ELSE Append(g[L].text, "malformed")
  BY DEF Unescape
<1> HIDE DEF g
<1> DEFINE P(i) == i <= L => g[i] \in ReadState
           U == {i \in Nat : P(i)}
<1>6. g[0] = NothingRead
  BY <1>0, <1>4 DEF NothingRead
<1>7. \A i \in 1 .. L : g[i] = ReadByte(g[i - 1], t[i])
  BY <1>0, <1>4
<1> HIDE DEF IsRead
<1>8. ASSUME NEW i \in Nat, P(i) PROVE P(i + 1)
  <2> HAVE i + 1 <= L
  <2>1. i + 1 \in 1 .. L /\ (i + 1) - 1 = i /\ t[i + 1] \in Symbol
    BY <1>0
  <2>2. g[i + 1] = ReadByte(g[i], t[i + 1])
    BY <1>7, <2>1
  <2> QED
    BY <1>8, <2>1, <2>2, ReadByteType
<1>9. P(0)
  BY <1>1, <1>6
<1> HIDE DEF P
<1>10. 0 \in U /\ \A i \in Nat : i \in U => i + 1 \in U
  BY <1>8, <1>9
<1> HIDE DEF U
<1>11. Nat \subseteq U
  BY <1>10, SetInduction
<1>12. ASSUME NEW i \in 1 .. L PROVE g[i] = ReadStep[<<g[i - 1], t[i]>>]
  <2>1. i - 1 \in Nat /\ i - 1 <= L /\ t[i] \in Symbol
    BY <1>0
  <2>2. g[i - 1] \in ReadState
    BY <1>11, <2>1 DEF U, P
  <2> QED
    BY <1>7, <2>1, <2>2 DEF ReadStep
<1> QED
  BY <1>5, <1>6, <1>12 DEF IsFold

\* A parser that has read an escaped text has the text, and the next byte is not escaped.
LEMMA ReadEscaped ==
  \A t \in Seq(Symbol) : \A f :
    IsFold(f, Len(JsonEscape(t)), NothingRead, ReadStep, JsonEscape(t)) =>
      f[Len(JsonEscape(t))] = [text |-> t, mode |-> "plain"]
<1> DEFINE Plain(t) == [text |-> t, mode |-> "plain"]
           P(t) == \A f : IsFold(f, Len(JsonEscape(t)), NothingRead, ReadStep, JsonEscape(t)) =>
                     f[Len(JsonEscape(t))] = Plain(t)
           T == {t \in Seq(Symbol) : P(t)}
<1>1. P(<<>>)
  <2>1. JsonEscape(<<>>) = <<>> /\ Len(<<>>) = 0
    BY EscapeProperties
  <2>2. \A f : IsFold(f, 0, NothingRead, ReadStep, <<>>) => f[0] = Plain(<<>>)
    BY DEF IsFold, NothingRead
  <2> QED
    BY <2>1, <2>2
<1>2. ASSUME NEW t \in Seq(Symbol), P(t), NEW b \in Symbol PROVE P(Append(t, b))
  <2> DEFINE s == JsonEscape(t)
             e == EscapeByte(b)
             u == s \o e
             m == Len(s)
  <2>1. JsonEscape(Append(t, b)) = u
    BY EscapeProperties
  <2>2. s \in Seq(Symbol) /\ e \in Seq(Symbol) /\ m \in Nat
    BY EscapeProperties, EscapeByteType
  <2>3. /\ Len(u) = m + Len(e) /\ \A i \in 1 .. m : u[i] = s[i]
        /\ \A i \in 1 .. Len(e) : u[m + i] = e[i]
    <3> HIDE DEF s, e
    <3> QED
      BY <2>2, ConcatProperties
  <2>4. P(t)
    BY <1>2
  <2> SUFFICES ASSUME NEW f, IsFold(f, Len(u), NothingRead, ReadStep, u)
               PROVE  f[Len(u)] = Plain(Append(t, b))
    BY <2>1
  <2>5. f[m] = Plain(t)
    <3> HIDE DEF s, e, u
    <3>1. Len(e) \in Nat
      BY <2>2
    <3>2. IsFold(f, m, NothingRead, ReadStep, s)
      BY <2>2, <2>3, <3>1 DEF IsFold
    <3> QED
      BY <2>4, <3>2 DEF s
  <2> HIDE DEF s, u, e
  <2>6. Plain(t) \in ReadState
    <3>1. t \in Seq(Symbol \cup {"unknown", "malformed"})
      OBVIOUS
    <3> QED
      BY <3>1 DEF ReadState
  <2>7. CASE e = <<b>> /\ b \notin {"backslash", "quote", "newline", "control"}
    <3>1. Len(u) = m + 1 /\ u[m + 1] = b
      BY <2>2, <2>3, <2>7
    <3>2. f[m + 1] = ReadStep[<<f[m], b>>]
      <4>1. m + 1 \in 1 .. Len(u) /\ (m + 1) - 1 = m
        BY <2>2, <3>1
      <4>2. f[m + 1] = ReadStep[<<f[(m + 1) - 1], u[m + 1]>>]
        BY <4>1, Zenon DEF IsFold
      <4> QED
        BY <3>1, <4>1, <4>2
    <3>3. f[m + 1] = ReadByte(Plain(t), b)
      BY <2>5, <2>6, <3>2 DEF ReadStep
    <3>4. ReadByte(Plain(t), b) = Plain(Append(t, b))
      BY <2>7 DEF ReadByte
    <3> QED
      BY <3>1, <3>3, <3>4
  <2>8. ASSUME NEW c \in Symbol, e = <<"backslash", c>>, Meaning(c) = b
        PROVE  f[Len(u)] = Plain(Append(t, b))
    <3> DEFINE Escaped == [text |-> t, mode |-> "escaped"]
    <3>1. Len(u) = m + 2 /\ u[m + 1] = "backslash" /\ u[m + 2] = c /\ "backslash" \in Symbol
      BY <2>2, <2>3, <2>8 DEF Symbol, Byte
    <3>2. f[m + 1] = ReadStep[<<f[m], "backslash">>] /\ f[m + 2] = ReadStep[<<f[m + 1], c>>]
      <4>1. /\ m + 1 \in 1 .. Len(u) /\ (m + 1) - 1 = m
            /\ m + 2 \in 1 .. Len(u) /\ (m + 2) - 1 = m + 1
        BY <2>2, <3>1
      <4>2. /\ f[m + 1] = ReadStep[<<f[(m + 1) - 1], u[m + 1]>>]
            /\ f[m + 2] = ReadStep[<<f[(m + 2) - 1], u[m + 2]>>]
        BY <4>1, Zenon DEF IsFold
      <4> QED
        BY <3>1, <4>1, <4>2
    <3>3. f[m + 1] = ReadByte(Plain(t), "backslash")
      BY <2>5, <2>6, <3>1, <3>2 DEF ReadStep
    <3>4. ReadByte(Plain(t), "backslash") = Escaped
      BY DEF ReadByte
    <3>5. Escaped \in ReadState
      BY <2>6 DEF ReadState
    <3>6. f[m + 2] = ReadByte(Escaped, c)
      BY <3>2, <3>3, <3>4, <3>5 DEF ReadStep
    <3>7. ReadByte(Escaped, c) = Plain(Append(t, b))
      BY <2>8 DEF ReadByte
    <3> QED
      BY <3>1, <3>6, <3>7
  <2> QED
    BY <2>7, <2>8, EscapeByteCases DEF e
<1> HIDE DEF P
<1>3. <<>> \in T /\ \A t \in Seq(Symbol), b \in Symbol : t \in T => Append(t, b) \in T
  BY <1>1, <1>2
<1> HIDE DEF T
<1>4. Seq(Symbol) \subseteq T
  BY <1>3, SequenceInduction
<1> QED
  BY <1>4 DEF T, P

\* Any text comes back from the inside of a JSON string as it was.
THEOREM EscapeRoundTrip ==
  ASSUME NEW t \in Seq(Symbol)
  PROVE  Unescape(JsonEscape(t)) = t
<1> DEFINE s == JsonEscape(t)
<1>1. s \in Seq(Symbol)
  BY EscapeProperties
<1> HIDE DEF s
<1>2. PICK f : /\ IsFold(f, Len(s), NothingRead, ReadStep, s)
               /\ Unescape(s) = IF f[Len(s)].mode = "plain" THEN f[Len(s)].text
                                ELSE Append(f[Len(s)].text, "malformed")
  BY <1>1, UnescapeFold
<1>3. f[Len(s)] = [text |-> t, mode |-> "plain"]
  BY <1>2, ReadEscaped DEF s
<1> QED
  BY <1>2, <1>3 DEF s

(***************************************************************************)
(* Payloads and what the backends show                                     *)
(***************************************************************************)

\* All texts of an object come back, and only the texts change on the way.
LEMMA TextsRoundTrip ==
  ASSUME NEW D, NEW text \in [D -> Seq(Symbol)], NEW object,
         object = [object EXCEPT !.text = text], "text" \in DOMAIN object
  PROVE  /\ UnescapeTexts(EscapeTexts(object)) = object
         /\ \E text2 \in [D -> Seq(Symbol)] : EscapeTexts(object) = [object EXCEPT !.text = text2]
<1> DEFINE e == [f \in D |-> JsonEscape(text[f])]
<1>1. object.text = text /\ DOMAIN text = D
  OBVIOUS
<1>2. EscapeTexts(object) = [object EXCEPT !.text = e]
  BY <1>1 DEF EscapeTexts
<1>3. e \in [D -> Seq(Symbol)]
  BY EscapeProperties
<1>4. EscapeTexts(object).text = e
  BY <1>2
<1>5. [f \in D |-> Unescape(e[f])] = text
  <2> SUFFICES ASSUME NEW f \in D PROVE Unescape(e[f]) = text[f]
    OBVIOUS
  <2>1. e[f] = JsonEscape(text[f]) /\ text[f] \in Seq(Symbol)
    OBVIOUS
  <2> QED
    BY <2>1, EscapeRoundTrip
<1>6. DOMAIN e = D
  OBVIOUS
<1> HIDE DEF e
<1>7. UnescapeTexts(EscapeTexts(object)) = [[object EXCEPT !.text = e] EXCEPT !.text = text]
  BY <1>2, <1>4, <1>5, <1>6 DEF UnescapeTexts
<1>8. [[object EXCEPT !.text = e] EXCEPT !.text = text] = [object EXCEPT !.text = text]
  OBVIOUS
<1> QED
  BY <1>2, <1>3, <1>7, <1>8

\* The spans that are posted.
SpanText == Seq(Byte)
Spans ==
  [trace_id : {<<"n", "n">>}, span_id : SpanText, parent_span_id : SpanText,
   operation_name : SpanText, service_name : IniValue, kind : {INTERNAL, CLIENT},
   start_time_ns : {1}, end_time_ns : {0, 2}, status_code : {OK, ERROR},
   status_message : SpanText, attribute : SpanText, depth : Nat]

LEMMA SymbolsOfText ==
  /\ SpanText \subseteq Seq(Symbol)
  /\ IniValue \cup EnvValue \cup {php_app} \subseteq Seq(Symbol)
  /\ <<"n", "n">> \in SpanText /\ <<>> \in SpanText /\ <<"n">> \in SpanText
  /\ Text \subseteq SpanText /\ ShortText \subseteq SpanText /\ Parent \subseteq SpanText
<1>1. SpanText \subseteq Seq(Symbol)
  <2>1. Byte \subseteq Symbol
    BY DEF Symbol
  <2> QED
    BY <2>1 DEF SpanText
<1>2. \A b \in Byte : <<b>> \in SpanText /\ <<b, b>> \in SpanText
  BY DEF SpanText
<1>3. "n" \in Byte /\ "high" \in Byte /\ "quote" \in Byte
  BY DEF Byte
<1>4. <<>> \in SpanText
  BY DEF SpanText
<1>5. Text \subseteq SpanText
  <2> SUFFICES ASSUME NEW n \in 0 .. MaxText, NEW t \in [1 .. n -> Byte] PROVE t \in Seq(Byte)
    BY DEF Text, SeqOf, SpanText
  <2> QED
    BY ContentAssumption
<1> QED
  BY <1>1, <1>2, <1>3, <1>4, <1>5, ContentAssumption DEF SpanText, php_app

LEMMA PushedSpans ==
  /\ \A c \in Calls : /\ UserSpan(c) \in Spans /\ InternalSpan(c) \in Spans
                      /\ (UserSpan(c).status_code = ERROR) = c.throws
                      /\ (InternalSpan(c).status_code = ERROR) = c.throws
  /\ \A m \in Manuals : /\ ManualSpan(m) \in Spans
                        /\ (ManualSpan(m).status_code = ERROR) = (m.status = 2)
<1>1. ASSUME NEW c \in Calls
      PROVE  /\ UserSpan(c) \in Spans /\ InternalSpan(c) \in Spans
             /\ (UserSpan(c).status_code = ERROR) = c.throws
             /\ (InternalSpan(c).status_code = ERROR) = c.throws
  <2>1. /\ c.name \in SpanText /\ c.value \in SpanText /\ c.class \in SpanText
        /\ c.parent \in SpanText /\ c.end \in {0, 2} /\ c.throws \in BOOLEAN /\ c.ini \in IniValue
        /\ c.depth \in Nat
    BY SymbolsOfText DEF Calls
  <2> DEFINE code == IF c.throws THEN ERROR ELSE OK
             message == IF c.throws THEN c.class ELSE <<>>
  <2>2. code \in {OK, ERROR} /\ message \in SpanText /\ (code = ERROR) = c.throws
    BY <2>1, SymbolsOfText DEF OK, ERROR
  <2> HIDE DEF code, message
  <2>3. UserSpan(c) =
          [trace_id |-> <<"n", "n">>, span_id |-> <<"n">>, parent_span_id |-> c.parent,
           operation_name |-> c.name, service_name |-> c.ini, kind |-> INTERNAL,
           start_time_ns |-> 1, end_time_ns |-> c.end, status_code |-> code,
           status_message |-> message, attribute |-> c.value, depth |-> c.depth]
    <3>1. UserSpan(c) =
            [Created(c.parent, c.name, <<"n">>, c.ini) EXCEPT
               !.end_time_ns = c.end, !.attribute = c.value, !.depth = c.depth,
               !.status_code = code, !.status_message = message]
      BY Zenon DEF UserSpan, code, message
    <3> QED
      BY <3>1 DEF Created
  <2>4. InternalSpan(c) =
          [trace_id |-> <<"n", "n">>, span_id |-> <<"n">>, parent_span_id |-> c.parent,
           operation_name |-> c.name, service_name |-> c.ini, kind |-> CLIENT,
           start_time_ns |-> 1, end_time_ns |-> c.end, status_code |-> code,
           status_message |-> <<>>, attribute |-> c.value, depth |-> c.depth]
    <3>1. InternalSpan(c) =
            [Created(c.parent, c.name, <<"n">>, c.ini) EXCEPT
               !.end_time_ns = c.end, !.attribute = c.value, !.kind = CLIENT,
               !.depth = c.depth, !.status_code = code]
      BY Zenon DEF InternalSpan, code
    <3> QED
      BY <3>1 DEF Created
  <2> QED
    BY <2>1, <2>2, <2>3, <2>4, SymbolsOfText DEF Spans
<1>2. ASSUME NEW m \in Manuals
      PROVE  /\ ManualSpan(m) \in Spans
             /\ (ManualSpan(m).status_code = ERROR) = (m.status = 2)
  <2>1. m.id \in SpanText /\ m.parent \in SpanText /\ m.status \in -1 .. 3 /\ m.ini \in IniValue
    BY SymbolsOfText DEF Manuals
  <2>2. ManualStatus(m.status) \in {OK, ERROR} /\ (ManualStatus(m.status) = ERROR) = (m.status = 2)
    BY <2>1 DEF ManualStatus, OK, ERROR
  <2>3. ManualSpan(m).status_code = ManualStatus(m.status)
    BY DEF ManualSpan, Created
  <2>4. ManualSpan(m) \in Spans
    BY <2>1, <2>2, SymbolsOfText DEF ManualSpan, Created, Spans, INTERNAL, CLIENT
  <2> QED
    BY <2>2, <2>3, <2>4
<1> QED
  BY <1>1, <1>2

\* The texts of a span are those a parser gives back.
TextFields == {"trace_id", "span_id", "parent_span_id", "name", "message", "attribute"}
LineFields == TextFields \cup {"service_name"}

LEMMA TextsOfSpan ==
  ASSUME NEW s \in Spans
  PROVE  /\ Texts(s) \in [TextFields -> Seq(Symbol)]
         /\ [Texts(s) EXCEPT !.span_id = <<"n">>] \in [TextFields -> Seq(Symbol)]
         /\ Texts(s).name = s.operation_name /\ Texts(s).span_id = s.span_id
         /\ LineTexts(s) \in [LineFields -> Seq(Symbol)]
<1>1. /\ s.trace_id \in Seq(Symbol) /\ s.span_id \in Seq(Symbol)
      /\ s.parent_span_id \in Seq(Symbol) /\ s.operation_name \in Seq(Symbol)
      /\ s.status_message \in Seq(Symbol) /\ s.attribute \in Seq(Symbol)
      /\ <<"n">> \in Seq(Symbol) /\ s.service_name \in Seq(Symbol)
  BY SymbolsOfText DEF Spans
<1>2. ASSUME NEW id \in Seq(Symbol)
      PROVE  [Texts(s) EXCEPT !.span_id = id] \in [TextFields -> Seq(Symbol)]
  <2>1. [Texts(s) EXCEPT !.span_id = id] =
          [trace_id |-> s.trace_id, span_id |-> id, parent_span_id |-> s.parent_span_id,
           name |-> s.operation_name, message |-> s.status_message, attribute |-> s.attribute]
    BY DEF Texts
  <2> QED
    BY <1>1, <2>1 DEF TextFields
<1>3. [Texts(s) EXCEPT !.span_id = s.span_id] = Texts(s)
  BY DEF Texts
<1>4. Texts(s).name = s.operation_name /\ Texts(s).span_id = s.span_id
  BY DEF Texts
<1>5. LineTexts(s) \in [LineFields -> Seq(Symbol)]
  BY <1>1 DEF LineTexts, LineFields, TextFields
<1> QED
  BY <1>1, <1>2, <1>3, <1>4, <1>5

\* What Loki shows of a span.
LEMMA LokiShowsSpan ==
  ASSUME NEW s \in Spans, NEW service \in Seq(Symbol)
  PROVE  /\ LokiShows(BuildPayload(s, service)) =
              [service |-> LokiService(s, service), operation |-> s.operation_name,
               text |-> LineTexts(s), start |-> s.start_time_ns, end |-> s.end_time_ns,
               error |-> s.status_code = ERROR, client |-> s.kind = CLIENT, depth |-> s.depth]
         /\ BuildPayload(s, service).line.number.status # "UNSET"
<1> DEFINE number == [kind |-> s.kind, start |-> s.start_time_ns, end |-> s.end_time_ns,
                      duration |-> DurationNs(s), status |-> StatusCodeName(s.status_code),
                      depth |-> s.depth, is_root |-> s.parent_span_id = <<>>]
           line == [text |-> LineTexts(s), number |-> number]
           names == [service |-> LokiService(s, service), operation |-> s.operation_name]
           labels == [text |-> names]
<1>1. LineTexts(s) \in [LineFields -> Seq(Symbol)]
  BY TextsOfSpan
<1>2. names \in [{"service", "operation"} -> Seq(Symbol)]
  <2>1. LokiService(s, service) \in Seq(Symbol) /\ s.operation_name \in Seq(Symbol)
    BY SymbolsOfText DEF LokiService, Spans
  <2> QED
    BY <2>1
<1>3. /\ number.start = s.start_time_ns /\ number.end = s.end_time_ns
      /\ number.status = StatusCodeName(s.status_code) /\ number.kind = s.kind
      /\ number.depth = s.depth
  OBVIOUS
<1>4. /\ StatusCodeName(s.status_code) # "UNSET"
      /\ (StatusCodeName(s.status_code) = "ERROR") = (s.status_code = ERROR)
  <2>1. s.status_code \in {OK, ERROR}
    BY DEF Spans
  <2> QED
    BY <2>1 DEF StatusCodeName, OK, ERROR
<1>5. /\ BuildPayload(s, service).labels = EscapeTexts(labels)
      /\ BuildPayload(s, service).line = EscapeTexts(EscapeTexts(line))
  BY DEF BuildPayload
<1> HIDE DEF number, names
<1>6. UnescapeTexts(EscapeTexts(labels)) = labels
  <2>1. labels = [labels EXCEPT !.text = names] /\ "text" \in DOMAIN labels
    OBVIOUS
  <2> HIDE DEF labels
  <2> QED
    BY <1>2, <2>1, TextsRoundTrip
<1>7. PICK text2 \in [LineFields -> Seq(Symbol)] :
        /\ EscapeTexts(line) = [line EXCEPT !.text = text2]
        /\ UnescapeTexts(EscapeTexts(line)) = line
  <2>1. line = [line EXCEPT !.text = LineTexts(s)] /\ "text" \in DOMAIN line
    OBVIOUS
  <2> HIDE DEF line
  <2> QED
    BY <1>1, <2>1, TextsRoundTrip
<1> DEFINE line2 == [text |-> text2, number |-> number]
<1>8. EscapeTexts(line) = line2
  BY <1>7
<1>9. PICK text3 \in [LineFields -> Seq(Symbol)] :
        /\ EscapeTexts(line2) = [line2 EXCEPT !.text = text3]
        /\ UnescapeTexts(EscapeTexts(line2)) = line2
  <2>1. line2 = [line2 EXCEPT !.text = text2] /\ "text" \in DOMAIN line2
    OBVIOUS
  <2> HIDE DEF line2
  <2> QED
    BY <2>1, TextsRoundTrip
<1>10. EscapeTexts(line2).number = number
  BY <1>9
<1>11. UnescapeTexts(UnescapeTexts(EscapeTexts(EscapeTexts(line)))) = line
  <2> HIDE DEF line, line2
  <2> QED
    BY <1>7, <1>8, <1>9
<1>12. /\ line.text = LineTexts(s) /\ line.number = number
       /\ labels.text.service = LokiService(s, service)
       /\ labels.text.operation = s.operation_name
  BY DEF names
<1> HIDE DEF line, line2, labels
<1> QED
  BY <1>3, <1>4, <1>5, <1>6, <1>8, <1>10, <1>11, <1>12 DEF LokiShows

\* What Tempo shows of it: an id in any case, and an error or not.
LEMMA TempoShowsSpan ==
  ASSUME NEW s \in Spans, NEW service \in Seq(Symbol)
  PROVE  TempoShows(BuildTempoPayload(s, service)) =
           [service |-> IF service = <<>> THEN php_app ELSE service,
            operation |-> s.operation_name,
            text |-> IF s.span_id = <<>> THEN [Texts(s) EXCEPT !.span_id = <<"n">>] ELSE Texts(s),
            start |-> s.start_time_ns, end |-> s.end_time_ns,
            error |-> s.status_code = ERROR, client |-> s.kind = CLIENT]
<1> DEFINE id == IF s.span_id = <<>> THEN <<"n">> ELSE s.span_id
           text == [Texts(s) EXCEPT !.span_id = id]
           number == [kind |-> IF s.kind = CLIENT THEN 3 ELSE 1, start |-> s.start_time_ns,
                      end |-> s.end_time_ns, code |-> TempoCode(s.status_code)]
           span == [text |-> text, number |-> number]
           name == IF service = <<>> THEN php_app ELSE service
<1>1. name \in Seq(Symbol)
  BY SymbolsOfText
<1>2. /\ text = IF s.span_id = <<>> THEN [Texts(s) EXCEPT !.span_id = <<"n">>] ELSE Texts(s)
      /\ text \in [TextFields -> Seq(Symbol)] /\ text.name = s.operation_name
  BY TextsOfSpan DEF Texts
<1>3. /\ number.start = s.start_time_ns /\ number.end = s.end_time_ns
      /\ (number.code = 2) = (s.status_code = ERROR) /\ (number.kind = 3) = (s.kind = CLIENT)
  BY DEF TempoCode
<1>4. /\ BuildTempoPayload(s, service).resource = JsonEscape(name)
      /\ BuildTempoPayload(s, service).span = EscapeTexts(span)
  <2>1. SubSeq(s.trace_id, 1, 1) = <<"n">>
    <3>1. s.trace_id = <<"n", "n">>
      BY DEF Spans
    <3> DEFINE nn == <<"n", "n">>
               half == SubSeq(nn, 1, 1)
    <3>2. \A i \in 1 .. 1 : nn[i] \in {"n"}
      OBVIOUS
    <3>3. half \in Seq({"n"}) /\ Len(half) = 1
      <4> HIDE DEF nn
      <4> QED
        BY <3>2, SubSeqProperties
    <3> HIDE DEF half
    <3>4. half = <<"n">>
      BY <3>3
    <3> QED
      BY <3>1, <3>4 DEF half
  <2>2. id = IF s.span_id = <<>> THEN SubSeq(s.trace_id, 1, 1) ELSE s.span_id
    BY <2>1
  <2> HIDE DEF id
  <2> DEFINE b == BuildTempoPayload(s, service)
  <2>3. b = [resource |-> JsonEscape(name), span |-> EscapeTexts(span)]
    BY <2>2, Zenon DEF BuildTempoPayload
  <2> HIDE DEF span, name
  <2> QED
    BY <2>3
<1> HIDE DEF text, number, name
<1>5. UnescapeTexts(EscapeTexts(span)) = span
  <2>1. span = [span EXCEPT !.text = text] /\ "text" \in DOMAIN span
    OBVIOUS
  <2>2. text \in [TextFields -> Seq(Symbol)]
    BY <1>2, Zenon
  <2> HIDE DEF span
  <2> QED
    BY <2>1, <2>2, TextsRoundTrip
<1>6. Unescape(JsonEscape(name)) = name
  BY <1>1, EscapeRoundTrip
<1>7. span.text = text /\ span.number = number
  OBVIOUS
<1> HIDE DEF span
<1>8. TempoShows(BuildTempoPayload(s, service)) =
        [service |-> name, operation |-> text.name, text |-> text, start |-> number.start,
         end |-> number.end, error |-> number.code = 2, client |-> number.kind = 3]
  BY <1>4, <1>5, <1>6, <1>7 DEF TempoShows
<1> QED
  BY <1>2, <1>3, <1>8 DEF name

(***************************************************************************)
(* The inductive invariant: how the result comes from the input.           *)
(***************************************************************************)
Name(s, env) == ConfiguredService(s.service_name, env)
PostedInv ==
  Posted =>
    \E s \in Spans, env \in EnvValue :
      /\ input = [span |-> s, failed |-> s.status_code = ERROR, env |-> env]
      /\ result = IF topic = "loki" THEN BuildPayload(s, Name(s, env))
                  ELSE BuildTempoPayload(s, Name(s, env))

HeaderText == Seq({"-", "1", "2"})
HeaderInv == topic = "header" => input \in HeaderText /\ result = ExtractTraceContext(input)

Values == Heaps(MaxCells, MaxElements, SeqOf({"byte"}, MaxString))
ValueInv == topic = "value" => input \in Values /\ result = ZvalToString(input, 1, MaxArg)

IdInv ==
  topic = "id" =>
    \E ns, counter \in Word :
      input = <<ns, counter>> /\ result = [trace |-> TraceId(ns, counter), span |-> SpanId(ns, counter)]

ContentInv ==
  /\ topic \in {"none", "loki", "tempo", "header", "value", "id"}
  /\ PostedInv /\ HeaderInv /\ ValueInv /\ IdInv

LEMMA PostStep ==
  ASSUME NEW s \in Spans, NEW failed, failed = (s.status_code = ERROR), Post(s, failed)
  PROVE  ContentInv'
<1>1. PICK env \in EnvValue :
        /\ input' = [span |-> s, failed |-> failed, env |-> env]
        /\ \/ topic' = "loki" /\ result' = BuildPayload(s, Name(s, env))
           \/ topic' = "tempo" /\ result' = BuildTempoPayload(s, Name(s, env))
  BY DEF Post, Name
<1>2. input' = [span |-> s, failed |-> s.status_code = ERROR, env |-> env]
  BY <1>1
<1>3. PostedInv'
  BY <1>1, <1>2 DEF PostedInv
<1> QED
  BY <1>1, <1>3 DEF ContentInv, HeaderInv, ValueInv, IdInv

\* The invariant: every topic's result is what the code's functions make of an input it can have.
THEOREM Invariance == Spec => []ContentInv
<1>1. Init => ContentInv
  BY DEF Init, ContentInv, PostedInv, Posted, HeaderInv, ValueInv, IdInv
<1>2. ASSUME ContentInv, [Next]_vars PROVE ContentInv'
  <2>1. CASE UNCHANGED vars
    BY <1>2, <2>1 DEF vars, ContentInv, PostedInv, Posted, HeaderInv, ValueInv, IdInv
  <2>2. CASE PostCall
    <3>1. PICK c \in Calls : Post(UserSpan(c), c.throws) \/ Post(InternalSpan(c), c.throws)
      BY <2>2 DEF PostCall
    <3>2. c.throws = (UserSpan(c).status_code = ERROR) /\ UserSpan(c) \in Spans
      BY PushedSpans
    <3>3. c.throws = (InternalSpan(c).status_code = ERROR) /\ InternalSpan(c) \in Spans
      BY PushedSpans
    <3> QED
      BY <3>1, <3>2, <3>3, PostStep
  <2>3. CASE PostManual
    <3>1. PICK m \in Manuals : Post(ManualSpan(m), m.status = 2)
      BY <2>3 DEF PostManual
    <3>2. (m.status = 2) = (ManualSpan(m).status_code = ERROR) /\ ManualSpan(m) \in Spans
      BY PushedSpans
    <3> QED
      BY <3>1, <3>2, PostStep
  <2>4. CASE ParseHeader
    <3>1. SeqOf({"-", "1", "2"}, MaxHeader) \subseteq HeaderText
      BY ContentAssumption DEF SeqOf, HeaderText
    <3> QED
      BY <2>4, <3>1 DEF ParseHeader, ContentInv, PostedInv, Posted, HeaderInv, ValueInv, IdInv
  <2>5. CASE CaptureValue
    BY <2>5 DEF CaptureValue, Values, ContentInv, PostedInv, Posted, HeaderInv, ValueInv, IdInv
  <2>6. CASE GenerateId
    BY <2>6 DEF GenerateId, ContentInv, PostedInv, Posted, HeaderInv, ValueInv, IdInv
  <2> QED
    BY <1>2, <2>1, <2>2, <2>3, <2>4, <2>5, <2>6 DEF Next
<1> QED
  BY <1>1, <1>2, PTL DEF Spec

(***************************************************************************)
(* What the backends show                                                  *)
(***************************************************************************)

\* The service a span is posted with has a name.
LEMMA NameProperties ==
  ASSUME NEW s \in Spans, NEW env \in EnvValue
  PROVE  /\ Name(s, env) \in Seq(Symbol) /\ Name(s, env) # <<>>
<1>1. s.service_name \in IniValue
  BY DEF Spans
<1>2. Name(s, env) \in {env, s.service_name, php_app} \ {<<>>}
  BY <1>1 DEF Name, ConfiguredService, ResolveStringValue, php_app
<1> QED
  BY <1>1, <1>2, SymbolsOfText DEF Name, ConfiguredService, ResolveStringValue

LEMMA PostedIsShown ==
  ASSUME ContentInv, Posted
  PROVE  BackendsShowSpan /\ OutcomeIsShown
<1>1. PICK s \in Spans, env \in EnvValue :
        /\ input = [span |-> s, failed |-> s.status_code = ERROR, env |-> env]
        /\ result = IF topic = "loki" THEN BuildPayload(s, Name(s, env))
                    ELSE BuildTempoPayload(s, Name(s, env))
  BY DEF ContentInv, PostedInv
<1>2. /\ input.span = s /\ input.failed = (s.status_code = ERROR) /\ input.env = env
      /\ Name(s, env) \in Seq(Symbol) /\ Name(s, env) # <<>>
      /\ ConfiguredService(s.service_name, env) = Name(s, env)
  BY <1>1, NameProperties DEF Name
<1>3. CASE topic = "loki"
  <2>1. /\ Shown = [service |-> LokiService(s, Name(s, env)), operation |-> s.operation_name,
                    text |-> LineTexts(s), start |-> s.start_time_ns, end |-> s.end_time_ns,
                    error |-> s.status_code = ERROR, client |-> s.kind = CLIENT,
                    depth |-> s.depth]
        /\ result.line.number.status # "UNSET"
    BY <1>1, <1>2, <1>3, LokiShowsSpan DEF Shown
  <2>2. OutcomeIsShown
    BY <1>2, <1>3, <2>1 DEF OutcomeIsShown
  <2>3. ServiceIsShown
    BY <1>2, <1>3, <2>1 DEF ServiceIsShown, LokiService
  <2> QED
    BY <1>2, <1>3, <2>1, <2>2, <2>3 DEF BackendsShowSpan
<1>4. CASE topic = "tempo"
  <2>1. Shown =
          [service |-> IF Name(s, env) = <<>> THEN php_app ELSE Name(s, env),
           operation |-> s.operation_name,
           text |-> IF s.span_id = <<>> THEN [Texts(s) EXCEPT !.span_id = <<"n">>] ELSE Texts(s),
           start |-> s.start_time_ns, end |-> s.end_time_ns,
           error |-> s.status_code = ERROR, client |-> s.kind = CLIENT]
    BY <1>1, <1>2, <1>4, TempoShowsSpan DEF Shown
  <2>2. OutcomeIsShown
    BY <1>2, <1>4, <2>1 DEF OutcomeIsShown
  <2>3. ServiceIsShown
    BY <1>2, <1>4, <2>1 DEF ServiceIsShown
  <2>4. Shown.text.span_id # <<>>
    BY <2>1 DEF Texts
  <2> QED
    BY <1>2, <1>4, <2>1, <2>2, <2>3, <2>4 DEF BackendsShowSpan
<1> QED
  BY <1>3, <1>4 DEF Posted

\* Whatever the bytes of a span's names, ids and values, both backends show them as they were
\* (json_escape and the two payloads, loki_exporter.cpp:37-61, 217-357).
THEOREM BackendsShow == Spec => []BackendsShowSpan
<1>1. ContentInv => BackendsShowSpan
  BY PostedIsShown DEF BackendsShowSpan
<1> QED
  BY <1>1, Invariance, PTL

\* An error is shown exactly for a call left by an exception or a span finalized as one
\* (php_trace.cpp:560-585, 645-664, 939-941; loki_exporter.cpp:241).
THEOREM OutcomeShown == Spec => []OutcomeIsShown
<1>1. ContentInv => OutcomeIsShown
  BY PostedIsShown DEF OutcomeIsShown
<1> QED
  BY <1>1, Invariance, PTL

(***************************************************************************)
(* Ids                                                                     *)
(***************************************************************************)

\* Two readings or two counters give two trace ids; two counters at one time, and two times
\* with one counter, two span ids (generate_id, span.h:136-163).
THEOREM NoIdTwice == Spec => []IdsDiffer
<1>1. ContentInv => IdsDiffer
  <2> SUFFICES ASSUME ContentInv, topic = "id" PROVE IdsDiffer
    BY DEF IdsDiffer
  <2>1. PICK ns \in Word, counter \in Word :
          /\ input = <<ns, counter>>
          /\ result = [trace |-> TraceId(ns, counter), span |-> SpanId(ns, counter)]
    BY DEF ContentInv, IdInv
  <2>2. result.trace = TraceId(ns, counter) /\ result.span = SpanId(ns, counter)
    BY <2>1
  <2>3. ASSUME NEW ns2 \in Word, NEW counter2 \in Word, TraceId(ns2, counter2) = result.trace
        PROVE  <<ns2, counter2>> = input
    BY <2>1, <2>2, <2>3, TraceIdsDiffer
  <2>4. ASSUME NEW counter2 \in Word, SpanId(input[1], counter2) = result.span
        PROVE  counter2 = input[2]
    BY <2>1, <2>2, <2>4, SpanIdsDiffer
  <2>5. ASSUME NEW ns2 \in Word, SpanId(ns2, input[2]) = result.span
        PROVE  ns2 = input[1]
    BY <2>1, <2>2, <2>5, SpanIdsDifferByClock
  <2> QED
    BY <2>3, <2>4, <2>5 DEF IdsDiffer
<1> QED
  BY <1>1, Invariance, PTL

(***************************************************************************)
(* Headers                                                                 *)
(***************************************************************************)
DashIn(text, from, to) == \E i \in from .. to : text[i + 1] = "-"

\* find() returns the first dash there is from a place on, or npos.
LEMMA FindProperties ==
  ASSUME NEW text \in HeaderText, NEW from \in Nat
  PROVE  \/ Find(text, from) = npos /\ ~DashIn(text, from, Len(text) - 1)
         \/ /\ Find(text, from) \in from .. Len(text) - 1
            /\ text[Find(text, from) + 1] = "-"
            /\ ~DashIn(text, from, Find(text, from) - 1)
<1> DEFINE found == {i \in from .. Len(text) - 1 : text[i + 1] = "-"}
<1>1. CASE found = {}
  BY <1>1 DEF Find, DashIn
<1>2. CASE found # {}
  <2>1. Find(text, from) = Min(found)
    BY <1>2 DEF Find
  <2>2. \E x \in found : \A y \in found : x <= y
    <3>1. found \subseteq Nat
      OBVIOUS
    <3> HIDE DEF found
    <3> QED
      BY <1>2, <3>1, LeastElement
  <2>3. Min(found) \in found /\ \A y \in found : Min(found) <= y
    <3> HIDE DEF found
    <3> QED
      BY <2>2 DEF Min
  <2> DEFINE m == Min(found)
  <2>4. m \in from .. Len(text) - 1 /\ text[m + 1] = "-"
    BY <2>3
  <2>5. ~DashIn(text, from, m - 1)
    <3> SUFFICES ASSUME NEW i \in from .. m - 1, text[i + 1] = "-" PROVE FALSE
      BY DEF DashIn
    <3>1. i \in found
      BY <2>4
    <3> QED
      BY <2>3, <2>4, <3>1
  <2> QED
    BY <2>1, <2>4, <2>5
<1> QED
  BY <1>1, <1>2

\* The ends of the fields, and the header's end.
Ends(text) == {0, Len(text) + 1} \cup {i \in DOMAIN text : text[i] = "-"}
Before(text, b) == {c \in Ends(text) : c < b}

LEMMA EndsAreFinite ==
  ASSUME NEW text \in HeaderText
  PROVE  /\ Ends(text) \subseteq 0 .. Len(text) + 1 /\ IsFiniteSet(Ends(text))
         /\ Cardinality(Ends(text)) \in Nat
         /\ \A b : IsFiniteSet(Before(text, b)) /\ Cardinality(Before(text, b)) \in Nat
<1>1. Ends(text) \subseteq 0 .. Len(text) + 1
  BY DEF Ends, HeaderText
<1>2. IsFiniteSet(0 .. Len(text) + 1)
  BY FS_Interval DEF HeaderText
<1>3. IsFiniteSet(Ends(text))
  BY <1>1, <1>2, FS_Subset
<1>4. ASSUME NEW b PROVE IsFiniteSet(Before(text, b))
  BY <1>3, FS_Subset DEF Before
<1> QED
  BY <1>1, <1>3, <1>4, FS_CardinalityType

\* Two ends have different numbers of ends before them.
LEMMA EndsAreOrdered ==
  ASSUME NEW text \in HeaderText, NEW a \in Ends(text), NEW b \in Ends(text),
         Cardinality(Before(text, a)) = Cardinality(Before(text, b))
  PROVE  a = b
<1>1. ASSUME NEW c \in Ends(text), NEW d \in Ends(text), c < d,
             Cardinality(Before(text, c)) = Cardinality(Before(text, d))
      PROVE  FALSE
  <2>1. c \in Nat /\ d \in Nat /\ \A e \in Ends(text) : e \in Nat
    BY EndsAreFinite DEF HeaderText
  <2>2. Before(text, c) \subseteq Before(text, d)
    <3> SUFFICES ASSUME NEW e \in Ends(text), e < c PROVE e < d
      BY DEF Before
    <3>1. c < d
      BY <1>1
    <3> QED
      BY <2>1, <3>1
  <2>3. c \in Before(text, d) /\ c \notin Before(text, c)
    BY <1>1, <2>1 DEF Before
  <2>4. IsFiniteSet(Before(text, d))
    BY EndsAreFinite
  <2> QED
    BY <1>1, <2>2, <2>3, <2>4, FS_Subset
<1>2. a \in Nat /\ b \in Nat
  BY EndsAreFinite DEF HeaderText
<1> QED
  BY <1>1, <1>2

End(text, n) == CHOOSE b \in Ends(text) : Cardinality(Before(text, b)) = n

LEMMA FieldsOfEnds ==
  ASSUME NEW text \in HeaderText
  PROVE  /\ Len(Fields(text)) = Cardinality(Ends(text)) - 1
         /\ \A i \in 1 .. Cardinality(Ends(text)) - 1 :
              Fields(text)[i] = SubSeq(text, End(text, i - 1) + 1, End(text, i) - 1)
<1>1. Fields(text) = [i \in 1 .. Cardinality(Ends(text)) - 1 |->
                        SubSeq(text, End(text, i - 1) + 1, End(text, i) - 1)]
  BY DEF Fields, Ends, End, Before
<1>2. Cardinality(Ends(text)) \in Nat /\ Cardinality(Ends(text)) # 0
  <2>1. 0 \in Ends(text)
    BY DEF Ends
  <2> QED
    BY <2>1, EndsAreFinite, FS_EmptySet
<1> DEFINE k == Cardinality(Ends(text)) - 1
           F == [i \in 1 .. k |-> SubSeq(text, End(text, i - 1) + 1, End(text, i) - 1)]
<1>3. k \in Nat
  BY <1>2
<1> HIDE DEF k
<1> DEFINE S == {SubSeq(text, End(text, i - 1) + 1, End(text, i) - 1) : i \in 1 .. k}
<1>4. F \in [1 .. k -> S]
  OBVIOUS
<1>5. Len(F) = k
  <2> HIDE DEF F, S
  <2> QED
    BY <1>3, <1>4
<1> QED
  BY <1>1, <1>5 DEF k

LEMMA EndIs ==
  ASSUME NEW text \in HeaderText, NEW n \in Nat, NEW b \in Ends(text),
         Cardinality(Before(text, b)) = n
  PROVE  End(text, n) = b
<1>1. End(text, n) \in Ends(text) /\ Cardinality(Before(text, End(text, n))) = n
  BY DEF End
<1> QED
  BY <1>1, EndsAreOrdered

LEMMA FourAtMost ==
  ASSUME NEW a, NEW b, NEW c, NEW d
  PROVE  IsFiniteSet({a, b, c, d}) /\ Cardinality({a, b, c, d}) <= 4
<1>1. IsFiniteSet({a}) /\ Cardinality({a}) = 1
  BY FS_Singleton
<1>2. IsFiniteSet({a, b}) /\ Cardinality({a, b}) \in 1 .. 2
  <2>1. {a, b} = {a} \cup {b}
    OBVIOUS
  <2> QED
    BY <1>1, <2>1, FS_AddElement
<1>3. IsFiniteSet({a, b, c}) /\ Cardinality({a, b, c}) \in 1 .. 3
  <2>1. {a, b, c} = {a, b} \cup {c}
    OBVIOUS
  <2> QED
    BY <1>2, <2>1, FS_AddElement
<1>4. {a, b, c, d} = {a, b, c} \cup {d}
  OBVIOUS
<1> QED
  BY <1>3, <1>4, FS_AddElement

\* A header with fewer than three dashes is malformed, although a search that starts over
\* from the beginning may find a dash again.
LEMMA MalformedHeader ==
  ASSUME NEW text \in HeaderText, Malformed(Dashes(text))
  PROVE  Cardinality(Ends(text)) <= 4
<1> DEFINE n == Len(text)
           x == Find(text, 0)
           y == Find(text, x + 1)
           z == Find(text, y + 1)
<1>1. npos \in {x, y, z} /\ n \in Nat
  BY DEF Malformed, Dashes, HeaderText
<1>2. \A e \in Ends(text) : e = 0 \/ e = n + 1 \/ (e - 1 \in 0 .. n - 1 /\ text[(e - 1) + 1] = "-")
  BY DEF Ends, HeaderText
<1>3. PICK p, q \in Nat : \A i \in 0 .. n - 1 : text[i + 1] = "-" => i = p \/ i = q
  <2>1. CASE x = npos
    <3>1. ~DashIn(text, 0, n - 1)
      BY <2>1, FindProperties DEF npos
    <3> QED
      BY <3>1 DEF DashIn
  <2>2. CASE x # npos /\ y = npos
    <3>1. x \in 0 .. n - 1 /\ ~DashIn(text, 0, x - 1)
      BY <2>2, FindProperties
    <3>2. x + 1 \in Nat
      BY <3>1
    <3>3. ~DashIn(text, x + 1, n - 1)
      BY <2>2, <3>2, FindProperties DEF npos
    <3>4. \A i \in 0 .. n - 1 : i \in 0 .. x - 1 \/ i = x \/ i \in x + 1 .. n - 1
      BY <1>1, <3>1
    <3> HIDE DEF x, n
    <3>5. \A i \in 0 .. n - 1 : text[i + 1] = "-" => i = x
      BY <3>1, <3>3, <3>4 DEF DashIn
    <3> QED
      BY <3>1, <3>5
  <2>3. CASE x # npos /\ y # npos /\ z = npos
    <3>1. x \in 0 .. n - 1 /\ ~DashIn(text, 0, x - 1)
      BY <2>3, FindProperties
    <3>2. x + 1 \in Nat
      BY <3>1
    <3>3. y \in x + 1 .. n - 1 /\ ~DashIn(text, x + 1, y - 1)
      BY <2>3, <3>2, FindProperties
    <3>4. y + 1 \in Nat
      BY <3>2, <3>3
    <3>5. ~DashIn(text, y + 1, n - 1)
      BY <2>3, <3>4, FindProperties DEF npos
    <3>6. \A i \in 0 .. n - 1 : \/ i \in 0 .. x - 1 \/ i = x \/ i \in x + 1 .. y - 1 \/ i = y
                                \/ i \in y + 1 .. n - 1
      BY <1>1, <3>1, <3>3
    <3> HIDE DEF x, y, n
    <3>7. \A i \in 0 .. n - 1 : text[i + 1] = "-" => i = x \/ i = y
      BY <3>1, <3>3, <3>5, <3>6 DEF DashIn
    <3> QED
      BY <3>1, <3>2, <3>3, <3>7
  <2> QED
    BY <1>1, <2>1, <2>2, <2>3
<1> HIDE DEF n
<1>4. Ends(text) \subseteq {0, n + 1, p + 1, q + 1}
  <2> SUFFICES ASSUME NEW e \in Ends(text) PROVE e \in {0, n + 1, p + 1, q + 1}
    OBVIOUS
  <2>1. e = 0 \/ e = n + 1 \/ e - 1 = p \/ e - 1 = q
    BY <1>2, <1>3
  <2>2. e \in Nat
    BY EndsAreFinite DEF HeaderText
  <2> QED
    BY <2>1, <2>2
<1> DEFINE S == {0, n + 1, p + 1, q + 1}
<1>5. IsFiniteSet(S) /\ Cardinality(S) <= 4
  BY FourAtMost
<1>6. Cardinality(S) \in Nat /\ Cardinality(Ends(text)) \in Nat
  BY <1>5, FS_CardinalityType, EndsAreFinite
<1> HIDE DEF S
<1>7. Cardinality(Ends(text)) <= Cardinality(S)
  BY <1>4, <1>5, FS_Subset DEF S
<1> QED
  BY <1>5, <1>6, <1>7

LEMMA OneMore ==
  ASSUME NEW S, NEW x, IsFiniteSet(S), x \notin S
  PROVE  IsFiniteSet(S \cup {x}) /\ Cardinality(S \cup {x}) = Cardinality(S) + 1
BY FS_AddElement

\* In any other header the three dashes end the first three fields.
LEMMA CompleteHeader ==
  ASSUME NEW text \in HeaderText, ~Malformed(Dashes(text))
  PROVE  LET d == Dashes(text) IN
         /\ Cardinality(Ends(text)) >= 5
         /\ End(text, 1) = d[1] + 1 /\ End(text, 2) = d[2] + 1 /\ End(text, 3) = d[3] + 1
         /\ d[1] \in Nat /\ d[2] \in Nat /\ d[1] < d[2] /\ d[2] < Len(text)
         /\ ~DashIn(text, d[1] + 1, d[2] - 1)
<1> DEFINE n == Len(text)
           x == Find(text, 0)
           y == Find(text, x + 1)
           z == Find(text, y + 1)
<1>1. Dashes(text) = <<x, y, z>> /\ x # npos /\ y # npos /\ z # npos /\ n \in Nat
  BY DEF Malformed, Dashes, HeaderText
<1>2. x \in 0 .. n - 1 /\ text[x + 1] = "-" /\ ~DashIn(text, 0, x - 1)
  BY <1>1, FindProperties
<1>3. y \in x + 1 .. n - 1 /\ text[y + 1] = "-" /\ ~DashIn(text, x + 1, y - 1)
  <2>1. x + 1 \in Nat
    BY <1>2
  <2> QED
    BY <1>1, <2>1, FindProperties
<1>4. z \in y + 1 .. n - 1 /\ text[z + 1] = "-" /\ ~DashIn(text, y + 1, z - 1)
  <2>1. y + 1 \in Nat
    BY <1>2, <1>3
  <2> QED
    BY <1>1, <2>1, FindProperties
<1> DEFINE a == x + 1
           b == y + 1
           c == z + 1
           e == n + 1
<1>5. a \in Nat /\ b \in Nat /\ c \in Nat /\ e \in Nat /\ 0 < a /\ a < b /\ b < c /\ c < e
  <2> HIDE DEF x, y, z, n
  <2>1. n \in Nat /\ x \in 0 .. n - 1 /\ y \in x + 1 .. n - 1 /\ z \in y + 1 .. n - 1
    BY <1>1, <1>2, <1>3, <1>4
  <2> QED
    BY <2>1
<1>6. {0, a, b, c, e} \subseteq Ends(text)
  BY <1>1, <1>2, <1>3, <1>4 DEF Ends, HeaderText
<1>7. \A i \in Ends(text) : i = 0 \/ i = e \/ (i - 1 \in 0 .. n - 1 /\ text[(i - 1) + 1] = "-")
  BY DEF Ends, HeaderText
<1> HIDE DEF x, y, z, n
<1>8. \A i \in Ends(text) : i < c => i \in {0, a, b}
  <2> SUFFICES ASSUME NEW i \in Ends(text), i < c, i # 0 PROVE i \in {a, b}
    OBVIOUS
  <2>1. i - 1 \in 0 .. n - 1 /\ text[(i - 1) + 1] = "-" /\ i \in Nat
    <3>1. i \in Nat
      BY EndsAreFinite DEF HeaderText
    <3> QED
      BY <1>5, <1>7, <3>1
  <2>2. i - 1 \notin 0 .. x - 1 /\ i - 1 \notin x + 1 .. y - 1 /\ i - 1 \notin y + 1 .. z - 1
    BY <1>2, <1>3, <1>4, <2>1 DEF DashIn
  <2>3. i - 1 = x \/ i - 1 = y
    BY <1>2, <1>3, <1>4, <2>1, <2>2
  <2> QED
    BY <2>1, <2>3
<1>9. Before(text, a) = {0} /\ Before(text, b) = {0, a} /\ Before(text, c) = {0, a, b}
  <2> HIDE DEF a, b, c, e
  <2>1. \A i \in Ends(text) : i \in Nat
    BY EndsAreFinite DEF HeaderText
  <2>2. Before(text, c) = {0, a, b}
    BY <1>5, <1>6, <1>8 DEF Before
  <2>3. Before(text, b) = {0, a}
    BY <1>5, <1>6, <1>8, <2>1 DEF Before
  <2>4. Before(text, a) = {0}
    BY <1>5, <1>6, <1>8, <2>1 DEF Before
  <2> QED
    BY <2>2, <2>3, <2>4
<1> HIDE DEF a, b, c, e
<1>10. /\ Cardinality(Before(text, a)) = 1 /\ Cardinality(Before(text, b)) = 2
       /\ Cardinality(Before(text, c)) = 3 /\ Cardinality({0, a, b, c, e}) = 5
  <2>1. IsFiniteSet({0}) /\ Cardinality({0}) = 1
    BY FS_Singleton
  <2>2. IsFiniteSet({0, a}) /\ Cardinality({0, a}) = 2
    <3>1. {0, a} = {0} \cup {a} /\ a \notin {0}
      BY <1>5
    <3>2. /\ IsFiniteSet({0} \cup {a})
          /\ Cardinality({0} \cup {a}) = Cardinality({0}) + 1
      BY <2>1, <3>1, OneMore, Zenon
    <3> QED
      BY <2>1, <3>1, <3>2
  <2>3. IsFiniteSet({0, a, b}) /\ Cardinality({0, a, b}) = 3
    <3>1. {0, a, b} = {0, a} \cup {b} /\ b \notin {0, a}
      BY <1>5
    <3>2. /\ IsFiniteSet({0, a} \cup {b})
          /\ Cardinality({0, a} \cup {b}) = Cardinality({0, a}) + 1
      BY <2>2, <3>1, OneMore, Zenon
    <3> QED
      BY <2>2, <3>1, <3>2
  <2>4. IsFiniteSet({0, a, b, c}) /\ Cardinality({0, a, b, c}) = 4
    <3>1. {0, a, b, c} = {0, a, b} \cup {c} /\ c \notin {0, a, b}
      BY <1>5
    <3>2. /\ IsFiniteSet({0, a, b} \cup {c})
          /\ Cardinality({0, a, b} \cup {c}) = Cardinality({0, a, b}) + 1
      BY <2>3, <3>1, OneMore, Zenon
    <3> QED
      BY <2>3, <3>1, <3>2
  <2>5. Cardinality({0, a, b, c, e}) = 5
    <3>1. {0, a, b, c, e} = {0, a, b, c} \cup {e} /\ e \notin {0, a, b, c}
      BY <1>5
    <3>2. /\ IsFiniteSet({0, a, b, c} \cup {e})
          /\ Cardinality({0, a, b, c} \cup {e}) = Cardinality({0, a, b, c}) + 1
      BY <2>4, <3>1, OneMore, Zenon
    <3> QED
      BY <2>4, <3>1, <3>2
  <2> QED
    BY <1>9, <2>1, <2>2, <2>3, <2>5
<1>11. Cardinality(Ends(text)) >= 5
  <2>1. /\ IsFiniteSet(Ends(text)) /\ Cardinality(Ends(text)) \in Nat
        /\ {0, a, b, c, e} \in SUBSET Ends(text)
    BY <1>6, EndsAreFinite
  <2>2. Cardinality({0, a, b, c, e}) <= Cardinality(Ends(text))
    BY <2>1, FS_Subset
  <2> QED
    BY <1>10, <2>1, <2>2
<1>12. End(text, 1) = a /\ End(text, 2) = b /\ End(text, 3) = c
  BY <1>6, <1>10, EndIs
<1> QED
  BY <1>1, <1>2, <1>3, <1>11, <1>12 DEF a, b, c, n

LEMMA HeaderResult ==
  ASSUME NEW text \in HeaderText
  PROVE  /\ ExtractTraceContext(text) =
              IF Len(Fields(text)) < 4 THEN None
              ELSE [trace_id |-> Fields(text)[2], parent_span_id |-> Fields(text)[3]]
         /\ ExtractTraceContext(text) # None =>
              ExtractTraceContext(text).trace_id \in Seq({"1", "2"})
<1>1. /\ Len(Fields(text)) = Cardinality(Ends(text)) - 1 /\ Cardinality(Ends(text)) \in Nat
      /\ \A i \in 1 .. Cardinality(Ends(text)) - 1 :
           Fields(text)[i] = SubSeq(text, End(text, i - 1) + 1, End(text, i) - 1)
  BY FieldsOfEnds, EndsAreFinite
<1>2. CASE Malformed(Dashes(text))
  <2>1. ExtractTraceContext(text) = None
    BY <1>2 DEF ExtractTraceContext
  <2>2. Len(Fields(text)) < 4
    BY <1>1, <1>2, MalformedHeader
  <2> QED
    BY <2>1, <2>2
<1>3. CASE ~Malformed(Dashes(text))
  <2> DEFINE d == Dashes(text)
  <2>1. /\ Cardinality(Ends(text)) >= 5
        /\ End(text, 1) = d[1] + 1 /\ End(text, 2) = d[2] + 1 /\ End(text, 3) = d[3] + 1
        /\ d[1] \in Nat /\ d[2] \in Nat /\ d[1] < d[2] /\ d[2] < Len(text)
        /\ ~DashIn(text, d[1] + 1, d[2] - 1)
    BY <1>3, CompleteHeader
  <2>2. ExtractTraceContext(text) =
          [trace_id |-> SubSeq(text, d[1] + 2, d[2]),
           parent_span_id |-> SubSeq(text, d[2] + 2, d[3])]
    BY <1>3 DEF ExtractTraceContext
  <2> HIDE DEF d
  <2>3. d[3] \in Int
    BY FindProperties DEF d, Dashes, npos
  <2>4. Fields(text)[2] = SubSeq(text, d[1] + 2, d[2]) /\ ~(Len(Fields(text)) < 4)
    <3>1. 2 \in 1 .. Cardinality(Ends(text)) - 1
      BY <1>1, <2>1
    <3>2. Fields(text)[2] = SubSeq(text, End(text, 1) + 1, End(text, 2) - 1)
      BY <1>1, <3>1
    <3>3. (d[1] + 1) + 1 = d[1] + 2 /\ (d[2] + 1) - 1 = d[2]
      BY <2>1
    <3>4. ~(Len(Fields(text)) < 4)
      BY <1>1, <2>1
    <3> QED
      BY <2>1, <3>2, <3>3, <3>4
  <2>5. Fields(text)[3] = SubSeq(text, d[2] + 2, d[3])
    <3>1. 3 \in 1 .. Cardinality(Ends(text)) - 1
      BY <1>1, <2>1
    <3>2. Fields(text)[3] = SubSeq(text, End(text, 2) + 1, End(text, 3) - 1)
      BY <1>1, <3>1
    <3>3. (d[2] + 1) + 1 = d[2] + 2 /\ (d[3] + 1) - 1 = d[3]
      BY <2>1, <2>3
    <3> QED
      BY <2>1, <3>2, <3>3
  <2>6. SubSeq(text, d[1] + 2, d[2]) \in Seq({"1", "2"})
    <3>1. ASSUME NEW i \in d[1] + 2 .. d[2] PROVE text[i] \in {"1", "2"}
      <4>1. i \in 1 .. Len(text) /\ i - 1 \in d[1] + 1 .. d[2] - 1 /\ (i - 1) + 1 = i
        BY <2>1 DEF HeaderText
      <4>2. text[i] # "-"
        BY <2>1, <4>1 DEF DashIn
      <4>3. text[i] \in {"-", "1", "2"}
        BY <4>1 DEF HeaderText
      <4> QED
        BY <4>2, <4>3
    <3>2. d[1] + 2 \in Int /\ d[2] \in Int
      BY <2>1
    <3> QED
      BY <3>1, <3>2, SubSeqProperties
  <2> QED
    BY <2>2, <2>4, <2>5, <2>6
<1> QED
  BY <1>2, <1>3

\* The fields adopted are the second and the third of a header that has four or more, although
\* the search starts over after npos (extract_trace_context, php_trace.cpp:458-472).
THEOREM HeaderParsed == Spec => []HeaderIsParsed
<1>1. ContentInv => HeaderIsParsed
  BY HeaderResult DEF ContentInv, HeaderInv, HeaderIsParsed
<1> QED
  BY <1>1, Invariance, PTL

\* Ids are words of the width the code formats (generate_id, span.h:151-161), and a trace id
\* adopted from a header has no dash in it (php_trace.cpp:458-472).
THEOREM Typed == Spec => []TypeOK
<1>1. ASSUME ContentInv, topic = "id"
      PROVE  result.span \in Word /\ result.trace \in Word \X Word
  <2>1. PICK ns \in Word, counter \in Word :
          result = [trace |-> TraceId(ns, counter), span |-> SpanId(ns, counter)]
    BY <1>1 DEF ContentInv, IdInv
  <2> QED
    BY <2>1, IdsAreWords
<1>2. ASSUME ContentInv, topic = "header", result # None
      PROVE  result.trace_id \in Seq({"1", "2"})
  BY <1>2, HeaderResult DEF ContentInv, HeaderInv
<1>3. ContentInv => TypeOK
  BY <1>1, <1>2 DEF ContentInv, TypeOK
<1> QED
  BY <1>3, Invariance, PTL

(***************************************************************************)
(* Values                                                                  *)
(***************************************************************************)
Cells == 1 .. MaxCells

\* What a cell holds is one of four things.
LEMMA HeapProperties ==
  ASSUME NEW h \in Values
  PROVE  /\ DOMAIN h = Cells /\ 1 \in Cells
         /\ \A c \in Cells :
              \/ h[c].type = "scalar"
              \/ h[c].type = "string" /\ h[c].text \in Seq({"byte"})
              \/ h[c].type = "reference" /\ h[c].to \in Cells
              \/ h[c].type = "array" /\ h[c].elements \in Seq(Cells)
<1> DEFINE texts == SeqOf({"byte"}, MaxString)
           value == {Scalar} \cup {String(t) : t \in texts} \cup {Reference(c) : c \in Cells}
                      \cup {Array(es) : es \in SeqOf(Cells, MaxElements)}
<1>1. h \in [Cells -> value]
  BY DEF Values, Heaps, Cells
<1>2. texts \subseteq Seq({"byte"}) /\ SeqOf(Cells, MaxElements) \subseteq Seq(Cells)
  <2>1. \A n \in Nat : \A k \in 0 .. n : [1 .. k -> {"byte"}] \subseteq Seq({"byte"})
    OBVIOUS
  <2>2. \A n \in Nat : \A k \in 0 .. n : [1 .. k -> Cells] \subseteq Seq(Cells)
    OBVIOUS
  <2> QED
    BY <2>1, <2>2, ContentAssumption DEF SeqOf
<1>3. 1 \in Cells
  BY ContentAssumption DEF Cells
<1>4. ASSUME NEW v \in value
      PROVE  \/ v.type = "scalar"
             \/ v.type = "string" /\ v.text \in Seq({"byte"})
             \/ v.type = "reference" /\ v.to \in Cells
             \/ v.type = "array" /\ v.elements \in Seq(Cells)
  <2> HIDE DEF texts
  <2>1. CASE v = Scalar
    BY <2>1 DEF Scalar
  <2>2. ASSUME NEW t \in texts, v = String(t) PROVE v.type = "string" /\ v.text \in Seq({"byte"})
    BY <1>2, <2>2 DEF String
  <2>3. ASSUME NEW c \in Cells, v = Reference(c) PROVE v.type = "reference" /\ v.to \in Cells
    BY <2>3 DEF Reference
  <2>4. ASSUME NEW es \in SeqOf(Cells, MaxElements), v = Array(es)
        PROVE  v.type = "array" /\ v.elements \in Seq(Cells)
    BY <1>2, <2>4 DEF Array
  <2> QED
    BY <2>1, <2>2, <2>3, <2>4
<1> HIDE DEF value
<1> QED
  BY <1>1, <1>3, <1>4

\* A call looks one level down only.
LEMMA TextOfNext ==
  ASSUME NEW h, NEW c, NEW m, NEW d, NEW t, NEW u, t[d + 1] = u[d + 1]
  PROVE  TextOf(h, c, m, d, t) = TextOf(h, c, m, d, u)
<1>1. \A e : ElementText(h, e, d, t) = ElementText(h, e, d, u)
  BY DEF ElementText
<1> DEFINE es == h[c].elements
           T == [i \in DOMAIN es |-> <<"key">> \o ElementText(h, es[i], d, t)]
           U == [i \in DOMAIN es |-> <<"key">> \o ElementText(h, es[i], d, u)]
<1>2. T = U
  BY <1>1
<1>3. FlattenSeq(T) = FlattenSeq(U)
  BY <1>2
<1> QED
  BY <1>3 DEF TextOf, DepthOfTarget

\* The calls' results, from the deepest level up.
IsTexts(h, m, text) == \A d \in Nat : \A e \in DOMAIN h : text[d][e] = TextOf(h, e, m, d, text)

LEMMA TextsExist ==
  ASSUME NEW h, NEW m
  PROVE  \E text : IsTexts(h, m, text) /\ \A c, d : ZvalToStringImpl(h, c, m, d) = text[d][c]
<1> DEFINE Row(d, next) == [e \in DOMAIN h |-> TextOf(h, e, m, d, [k \in Nat |-> next])]
           r4 == [e \in DOMAIN h |-> <<"max depth">>]
           r3 == Row(3, r4)
           r2 == Row(2, r3)
           r1 == Row(1, r2)
           r0 == Row(0, r1)
           f == [d \in Nat |-> IF d = 0 THEN r0 ELSE IF d = 1 THEN r1 ELSE IF d = 2 THEN r2
                               ELSE IF d = 3 THEN r3 ELSE r4]
           IsText(text) == text = [d \in Nat |-> [e \in DOMAIN h |-> TextOf(h, e, m, d, text)]]
<1>1. ASSUME NEW d \in Nat, d <= 3 PROVE f[d] = Row(d, f[d + 1])
  <2>1. d = 0 \/ d = 1 \/ d = 2 \/ d = 3
    BY <1>1
  <2>2. r0 = Row(0, r1) /\ r1 = Row(1, r2) /\ r2 = Row(2, r3) /\ r3 = Row(3, r4)
    OBVIOUS
  <2> HIDE DEF Row, r0, r1, r2, r3, r4
  <2>3. f[0] = r0 /\ f[1] = r1 /\ f[2] = r2 /\ f[3] = r3 /\ f[4] = r4
    OBVIOUS
  <2> HIDE DEF f
  <2> QED
    BY <2>1, <2>2, <2>3
<1>2. \A d \in Nat : d > 3 => f[d] = r4
  <2> HIDE DEF r0, r1, r2, r3, r4
  <2> QED
    OBVIOUS
<1>3. f = [d \in Nat |-> f[d]]
  <2> HIDE DEF r0, r1, r2, r3, r4
  <2> QED
    OBVIOUS
<1> HIDE DEF f
<1>4. ASSUME NEW d \in Nat PROVE f[d] = [e \in DOMAIN h |-> TextOf(h, e, m, d, f)]
  <2>1. CASE d > 3
    <3>1. \A e : TextOf(h, e, m, d, f) = <<"max depth">>
      BY <2>1 DEF TextOf
    <3> QED
      BY <1>2, <2>1, <3>1
  <2>2. CASE d <= 3
    <3> DEFINE g == [k \in Nat |-> f[d + 1]]
    <3>1. g[d + 1] = f[d + 1]
      OBVIOUS
    <3> HIDE DEF g
    <3>2. \A e : TextOf(h, e, m, d, g) = TextOf(h, e, m, d, f)
      BY <3>1, TextOfNext
    <3>3. f[d] = [e \in DOMAIN h |-> TextOf(h, e, m, d, g)]
      BY <1>1, <2>2 DEF g
    <3> QED
      BY <3>2, <3>3
  <2> QED
    BY <2>1, <2>2
<1>5. IsText(f)
  BY <1>3, <1>4
<1> DEFINE text == CHOOSE g : IsText(g)
<1>6. IsText(text)
  <2> HIDE DEF IsText
  <2> QED
    BY <1>5, Zenon
<1>7. \A c, d : ZvalToStringImpl(h, c, m, d) = text[d][c]
  BY Zenon DEF ZvalToStringImpl
<1> HIDE DEF text
<1>8. IsTexts(h, m, text)
  BY <1>6 DEF IsTexts
<1> QED
  BY <1>7, <1>8

\* What the texts of values consist of.
ValueSymbol == {"max depth", "scalar", "byte", "bytes", "array", "{", "key", "}"}
ValueText == Seq(ValueSymbol)

\* Two texts that a cut to m symbols makes equal.
Alike(m, t, u) ==
  \/ t = u
  \/ Len(t) > m /\ Len(u) > m /\ \A i \in 1 .. m : t[i] = u[i]

LEMMA AlikeTextsAreCutAlike ==
  ASSUME NEW m \in Nat, m > 0, NEW t \in ValueText, NEW u \in ValueText, Alike(m, t, u)
  PROVE  Cut(t, m, "truncated") = Cut(u, m, "truncated")
<1>1. CASE t = u
  BY <1>1
<1>2. CASE Len(t) > m /\ Len(u) > m /\ \A i \in 1 .. m : t[i] = u[i]
  <2>1. \A i \in 1 .. m : t[i] \in ValueSymbol /\ u[i] \in ValueSymbol
    BY <1>2 DEF ValueText
  <2> DEFINE ct == SubSeq(t, 1, m)
             cu == SubSeq(u, 1, m)
  <2>2. /\ ct \in Seq(ValueSymbol) /\ cu \in Seq(ValueSymbol) /\ Len(ct) = m /\ Len(cu) = m
        /\ \A i \in 1 .. m : ct[i] = t[i] /\ cu[i] = u[i]
    BY <2>1, SubSeqProperties
  <2> HIDE DEF ct, cu
  <2>3. ct = cu
    BY <1>2, <2>2, SeqEqual
  <2> QED
    BY <1>2, <2>3 DEF Cut, ct, cu
<1> QED
  BY <1>1, <1>2 DEF Alike

LEMMA CutStringIsAlike ==
  ASSUME NEW m \in Nat, m > 0, NEW t \in ValueText
  PROVE  CutString(t, m) \in ValueText /\ Alike(m, CutString(t, m), t)
<1>1. CASE Len(t) <= m
  BY <1>1 DEF CutString, Cut, Alike, ValueText
<1>2. CASE Len(t) > m
  <2> DEFINE c == SubSeq(t, 1, m)
  <2>1. \A i \in 1 .. m : t[i] \in ValueSymbol
    BY <1>2 DEF ValueText
  <2>2. c \in Seq(ValueSymbol) /\ Len(c) = m /\ \A i \in 1 .. m : c[i] = t[i]
    BY <2>1, SubSeqProperties
  <2>3. CutString(t, m) = c \o <<"bytes">>
    BY <1>2 DEF CutString, Cut
  <2> HIDE DEF c
  <2>4. <<"bytes">> \in Seq(ValueSymbol)
    BY DEF ValueSymbol
  <2>5. /\ c \o <<"bytes">> \in Seq(ValueSymbol) /\ Len(c \o <<"bytes">>) = m + 1
        /\ \A i \in 1 .. m : (c \o <<"bytes">>)[i] = t[i]
    BY <2>2, <2>4
  <2> QED
    BY <1>2, <2>3, <2>5 DEF Alike, ValueText
<1> QED
  BY <1>1, <1>2 DEF ValueText

LEMMA AlikeConcat ==
  ASSUME NEW m \in Nat,
         NEW t \in ValueText, NEW u \in ValueText, NEW t2 \in ValueText, NEW u2 \in ValueText,
         Alike(m, t, u), Alike(m, t2, u2)
  PROVE  t \o t2 \in ValueText /\ u \o u2 \in ValueText /\ Alike(m, t \o t2, u \o u2)
<1>1. /\ t \o t2 \in ValueText /\ Len(t \o t2) = Len(t) + Len(t2)
      /\ \A i \in 1 .. Len(t) + Len(t2) :
           (t \o t2)[i] = IF i <= Len(t) THEN t[i] ELSE t2[i - Len(t)]
  BY DEF ValueText
<1>2. /\ u \o u2 \in ValueText /\ Len(u \o u2) = Len(u) + Len(u2)
      /\ \A i \in 1 .. Len(u) + Len(u2) :
           (u \o u2)[i] = IF i <= Len(u) THEN u[i] ELSE u2[i - Len(u)]
  BY DEF ValueText
<1>3. Len(t) \in Nat /\ Len(t2) \in Nat /\ Len(u) \in Nat /\ Len(u2) \in Nat
  BY DEF ValueText
<1>4. CASE t = u /\ t2 = u2
  BY <1>1, <1>2, <1>4 DEF Alike
<1>5. CASE t = u /\ Len(t2) > m /\ Len(u2) > m /\ \A i \in 1 .. m : t2[i] = u2[i]
  <2>1. Len(t \o t2) > m /\ Len(u \o u2) > m
    BY <1>1, <1>2, <1>3, <1>5
  <2>2. ASSUME NEW i \in 1 .. m PROVE (t \o t2)[i] = (u \o u2)[i]
    <3>1. i > Len(t) => i - Len(t) \in 1 .. m
      BY <1>3
    <3>2. i \in 1 .. Len(t) + Len(t2) /\ i \in 1 .. Len(u) + Len(u2)
      BY <1>3, <1>5
    <3> QED
      BY <1>1, <1>2, <1>3, <1>5, <3>1, <3>2
  <2> QED
    BY <1>1, <1>2, <2>1, <2>2 DEF Alike
<1>6. CASE Len(t) > m /\ Len(u) > m /\ \A i \in 1 .. m : t[i] = u[i]
  <2>1. Len(t \o t2) > m /\ Len(u \o u2) > m
    BY <1>1, <1>2, <1>3, <1>6
  <2>2. ASSUME NEW i \in 1 .. m PROVE (t \o t2)[i] = (u \o u2)[i]
    <3>1. /\ i \in 1 .. Len(t) + Len(t2) /\ i \in 1 .. Len(u) + Len(u2)
          /\ i <= Len(t) /\ i <= Len(u)
      BY <1>3, <1>6
    <3> QED
      BY <1>1, <1>2, <1>6, <3>1
  <2> QED
    BY <1>1, <1>2, <2>1, <2>2 DEF Alike
<1> QED
  BY <1>4, <1>5, <1>6 DEF Alike

LEMMA AlikeFlatten ==
  ASSUME NEW m \in Nat
  PROVE  \A n \in Nat : \A ts, us \in Seq(ValueText) :
           Len(ts) = n /\ Len(us) = n /\ (\A i \in 1 .. n : Alike(m, ts[i], us[i])) =>
             /\ FlattenSeq(ts) \in ValueText /\ FlattenSeq(us) \in ValueText
             /\ Alike(m, FlattenSeq(ts), FlattenSeq(us))
<1> DEFINE P(n) == \A ts, us \in Seq(ValueText) :
              Len(ts) = n /\ Len(us) = n /\ (\A i \in 1 .. n : Alike(m, ts[i], us[i])) =>
                Alike(m, FlattenSeq(ts), FlattenSeq(us))
           U == {n \in Nat : P(n)}
<1>1. P(0)
  <2>1. \A ts \in Seq(ValueText) : Len(ts) = 0 => ts = <<>>
    OBVIOUS
  <2> QED
    BY <2>1 DEF Alike
<1>2. ASSUME NEW n \in Nat, P(n) PROVE P(n + 1)
  <2> SUFFICES ASSUME NEW ts \in Seq(ValueText), NEW us \in Seq(ValueText),
                      Len(ts) = n + 1, Len(us) = n + 1,
                      \A i \in 1 .. n + 1 : Alike(m, ts[i], us[i])
               PROVE  Alike(m, FlattenSeq(ts), FlattenSeq(us))
    OBVIOUS
  <2>1. ts # <<>> /\ us # <<>>
    OBVIOUS
  <2>2. PICK t2 \in Seq(ValueText), t \in ValueText : ts = Append(t2, t)
    BY <2>1, SequenceEmptyOrAppend
  <2>3. PICK u2 \in Seq(ValueText), u \in ValueText : us = Append(u2, u)
    BY <2>1, SequenceEmptyOrAppend
  <2>4. /\ Len(t2) = n /\ Len(u2) = n /\ ts[n + 1] = t /\ us[n + 1] = u
        /\ \A i \in 1 .. n : ts[i] = t2[i] /\ us[i] = u2[i]
    BY <2>2, <2>3
  <2>5. Alike(m, FlattenSeq(t2), FlattenSeq(u2))
    <3>1. \A i \in 1 .. n : Alike(m, t2[i], u2[i])
      BY <2>4
    <3> QED
      BY <1>2, <2>4, <3>1
  <2>6. Alike(m, t, u)
    BY <2>4
  <2>7. /\ FlattenSeq(t2) \in ValueText /\ FlattenSeq(u2) \in ValueText
        /\ FlattenSeq(ts) = FlattenSeq(t2) \o t /\ FlattenSeq(us) = FlattenSeq(u2) \o u
    BY <2>2, <2>3, FlattenProperties DEF ValueText
  <2> QED
    BY <2>5, <2>6, <2>7, AlikeConcat
<1> HIDE DEF P
<1>3. 0 \in U /\ \A n \in Nat : n \in U => n + 1 \in U
  BY <1>1, <1>2
<1> HIDE DEF U
<1>4. Nat \subseteq U
  BY <1>3, SetInduction
<1>5. \A ts \in Seq(ValueText) : FlattenSeq(ts) \in ValueText
  BY FlattenProperties DEF ValueText
<1> QED
  BY <1>4, <1>5 DEF U, P

LEMMA TextOfCases ==
  ASSUME NEW h, NEW c, NEW m, NEW d \in Nat, d <= 3, NEW t
  PROVE  /\ h[c].type = "scalar" => TextOf(h, c, m, d, t) = <<"scalar">>
         /\ h[c].type = "string" => TextOf(h, c, m, d, t) = CutString(h[c].text, m)
         /\ h[c].type = "reference" => TextOf(h, c, m, d, t) = t[d + 1][h[c].to]
<1>1. ~(d > 3)
  OBVIOUS
<1> DEFINE array == <<"{">> \o FlattenSeq([i \in DOMAIN h[c].elements |->
                      <<"key">> \o ElementText(h, h[c].elements[i], d, t)]) \o <<"}">>
<1>2. TextOf(h, c, m, d, t) =
        CASE h[c].type = "scalar" -> <<"scalar">>
          [] h[c].type = "string" -> CutString(h[c].text, m)
          [] h[c].type = "reference" -> t[d + 1][h[c].to]
          [] h[c].type = "array" -> array
  BY <1>1, Zenon DEF TextOf, DepthOfTarget
<1> HIDE DEF array
<1> QED
  BY <1>2

\* What one call returns with the limit and without it, if that is so one level down.
LEMMA TextOfIsAlike ==
  ASSUME NEW m \in Nat, m > 0, NEW h \in Values, NEW d \in Nat, NEW t, NEW u, NEW c \in Cells,
         d <= 3 => \A e \in Cells : /\ t[d + 1][e] \in ValueText /\ u[d + 1][e] \in ValueText
                                    /\ Alike(m, t[d + 1][e], u[d + 1][e])
  PROVE  /\ TextOf(h, c, m, d, t) \in ValueText /\ TextOf(h, c, 0, d, u) \in ValueText
         /\ Alike(m, TextOf(h, c, m, d, t), TextOf(h, c, 0, d, u))
<1> DEFINE none == 0
<1>0. none = 0
  OBVIOUS
<1> HIDE DEF none
<1> SUFFICES /\ TextOf(h, c, m, d, t) \in ValueText /\ TextOf(h, c, none, d, u) \in ValueText
             /\ Alike(m, TextOf(h, c, m, d, t), TextOf(h, c, none, d, u))
  BY DEF none
<1>1. \A s \in ValueSymbol : <<s>> \in ValueText
  BY DEF ValueText
<1>2. CASE d > 3
  <2>1. TextOf(h, c, m, d, t) = <<"max depth">> /\ TextOf(h, c, none, d, u) = <<"max depth">>
    BY <1>2 DEF TextOf
  <2> QED
    BY <1>1, <2>1 DEF Alike, ValueSymbol
<1>3. CASE d <= 3 /\ h[c].type = "scalar"
  <2>1. TextOf(h, c, m, d, t) = <<"scalar">> /\ TextOf(h, c, none, d, u) = <<"scalar">>
    BY <1>3, TextOfCases
  <2> QED
    BY <1>1, <2>1 DEF Alike, ValueSymbol
<1>4. CASE d <= 3 /\ h[c].type = "string"
  <2>1. h[c].text \in ValueText
    <3>1. h[c].text \in Seq({"byte"})
      BY <1>4, HeapProperties
    <3>2. {"byte"} \subseteq ValueSymbol
      BY DEF ValueSymbol
    <3> QED
      BY <3>1, <3>2 DEF ValueText
  <2>2. TextOf(h, c, m, d, t) = CutString(h[c].text, m) /\ TextOf(h, c, none, d, u) = h[c].text
    <3>1. CutString(h[c].text, none) = h[c].text
      BY <1>0 DEF CutString, Cut
    <3> QED
      BY <1>4, <3>1, TextOfCases
  <2> QED
    BY <2>1, <2>2, CutStringIsAlike
<1>5. CASE d <= 3 /\ h[c].type = "reference"
  <2>1. TextOf(h, c, m, d, t) = t[d + 1][h[c].to] /\ TextOf(h, c, none, d, u) = u[d + 1][h[c].to]
    BY <1>5, TextOfCases
  <2>2. h[c].to \in Cells
    BY <1>5, HeapProperties
  <2> QED
    BY <1>5, <2>1, <2>2
<1>6. CASE d <= 3 /\ h[c].type = "array"
  <2> DEFINE es == h[c].elements
             n == Len(es)
             ts == [i \in DOMAIN es |-> <<"key">> \o ElementText(h, es[i], d, t)]
             us == [i \in DOMAIN es |-> <<"key">> \o ElementText(h, es[i], d, u)]
  <2>1. es \in Seq(Cells) /\ n \in Nat
    BY <1>6, HeapProperties
  <2>2. ASSUME NEW e \in Cells
        PROVE  /\ ElementText(h, e, d, t) \in ValueText /\ ElementText(h, e, d, u) \in ValueText
               /\ Alike(m, ElementText(h, e, d, t), ElementText(h, e, d, u))
    <3>1. <<"array">> \in ValueText
      BY <1>1 DEF ValueSymbol
    <3>2. CASE h[e].type = "array" /\ d >= 2
      BY <3>1, <3>2 DEF ElementText, Alike
    <3>3. CASE ~(h[e].type = "array" /\ d >= 2)
      BY <1>6, <3>3 DEF ElementText
    <3> QED
      BY <3>2, <3>3
  <2>3. \A k \in {"key", "{", "}"} : <<k>> \in ValueText /\ Alike(m, <<k>>, <<k>>)
    BY <1>1 DEF Alike, ValueSymbol
  <2>4. \A i \in 1 .. n : /\ ts[i] \in ValueText /\ us[i] \in ValueText
                          /\ Alike(m, ts[i], us[i])
    <3> SUFFICES ASSUME NEW i \in 1 .. n
                 PROVE  ts[i] \in ValueText /\ us[i] \in ValueText /\ Alike(m, ts[i], us[i])
      OBVIOUS
    <3>1. es[i] \in Cells /\ i \in DOMAIN es
      BY <2>1
    <3>2. /\ ts[i] = <<"key">> \o ElementText(h, es[i], d, t)
          /\ us[i] = <<"key">> \o ElementText(h, es[i], d, u)
      BY <3>1
    <3> DEFINE a == ElementText(h, es[i], d, t)
               b == ElementText(h, es[i], d, u)
               key == <<"key">>
    <3>3. /\ a \in ValueText /\ b \in ValueText /\ Alike(m, a, b)
          /\ key \in ValueText /\ Alike(m, key, key)
      BY <2>2, <2>3, <3>1
    <3>4. ts[i] = key \o a /\ us[i] = key \o b
      BY <3>2
    <3> HIDE DEF ts, us, es, a, b, key
    <3> QED
      BY <3>3, <3>4, AlikeConcat
  <2>5. ts \in Seq(ValueText) /\ us \in Seq(ValueText) /\ Len(ts) = n /\ Len(us) = n
    <3>1. DOMAIN es = 1 .. n
      BY <2>1
    <3>2. ts \in [1 .. n -> ValueText] /\ us \in [1 .. n -> ValueText]
      BY <2>4, <3>1
    <3> HIDE DEF ts, us
    <3> QED
      BY <2>1, <3>2
  <2>6. /\ TextOf(h, c, m, d, t) = (<<"{">> \o FlattenSeq(ts)) \o <<"}">>
        /\ TextOf(h, c, none, d, u) = (<<"{">> \o FlattenSeq(us)) \o <<"}">>
    <3>1. ~(d > 3) /\ h[c].type = "array"
      BY <1>6
    <3>2. /\ TextOf(h, c, m, d, t) =
               CASE h[c].type = "scalar" -> <<"scalar">>
                 [] h[c].type = "string" -> CutString(h[c].text, m)
                 [] h[c].type = "reference" -> t[d + 1][h[c].to]
                 [] h[c].type = "array" -> <<"{">> \o FlattenSeq(ts) \o <<"}">>
          /\ TextOf(h, c, none, d, u) =
               CASE h[c].type = "scalar" -> <<"scalar">>
                 [] h[c].type = "string" -> CutString(h[c].text, none)
                 [] h[c].type = "reference" -> u[d + 1][h[c].to]
                 [] h[c].type = "array" -> <<"{">> \o FlattenSeq(us) \o <<"}">>
      BY <3>1, Zenon DEF TextOf, DepthOfTarget
    <3> HIDE DEF ts, us
    <3> QED
      BY <3>1, <3>2
  <2> HIDE DEF ts, us, n
  <2>7. /\ FlattenSeq(ts) \in ValueText /\ FlattenSeq(us) \in ValueText
        /\ Alike(m, FlattenSeq(ts), FlattenSeq(us))
    BY <2>1, <2>4, <2>5, AlikeFlatten
  <2> DEFINE open == <<"{">>
             close == <<"}">>
  <2>8. open \in ValueText /\ close \in ValueText /\ Alike(m, open, open) /\ Alike(m, close, close)
    BY <2>3
  <2> HIDE DEF open, close
  <2>9. /\ open \o FlattenSeq(ts) \in ValueText /\ open \o FlattenSeq(us) \in ValueText
        /\ Alike(m, open \o FlattenSeq(ts), open \o FlattenSeq(us))
    BY <2>7, <2>8, AlikeConcat
  <2>10. /\ TextOf(h, c, m, d, t) = (open \o FlattenSeq(ts)) \o close
         /\ TextOf(h, c, none, d, u) = (open \o FlattenSeq(us)) \o close
    BY <2>6 DEF open, close
  <2> DEFINE tt == open \o FlattenSeq(ts)
             uu == open \o FlattenSeq(us)
  <2>11. tt \in ValueText /\ uu \in ValueText /\ Alike(m, tt, uu)
    BY <2>9
  <2> HIDE DEF tt, uu
  <2>12. /\ tt \o close \in ValueText /\ uu \o close \in ValueText
         /\ Alike(m, tt \o close, uu \o close)
    BY <2>8, <2>11, AlikeConcat
  <2> QED
    BY <2>10, <2>12 DEF tt, uu
<1> QED
  BY <1>2, <1>3, <1>4, <1>5, <1>6, HeapProperties

LEMMA ValueIsCutOnce ==
  ASSUME NEW h \in Values
  PROVE  ZvalToString(h, 1, MaxArg) = Cut(ZvalToStringImpl(h, 1, 0, 0), MaxArg, "truncated")
<1>1. CASE MaxArg = 0
  BY <1>1 DEF ZvalToString
<1>2. CASE MaxArg # 0
  <2>1. MaxArg \in Nat /\ MaxArg > 0
    BY <1>2, ContentAssumption
  <2>2. PICK t : /\ IsTexts(h, MaxArg, t)
                 /\ \A c, d : ZvalToStringImpl(h, c, MaxArg, d) = t[d][c]
    BY TextsExist
  <2>3. PICK u : /\ IsTexts(h, 0, u)
                 /\ \A c, d : ZvalToStringImpl(h, c, 0, d) = u[d][c]
    BY TextsExist
  <2> DEFINE Q(d) == \A e \in Cells : /\ t[d][e] \in ValueText /\ u[d][e] \in ValueText
                                      /\ Alike(MaxArg, t[d][e], u[d][e])
  <2>4. ASSUME NEW d \in Nat, d <= 3 => Q(d + 1) PROVE Q(d)
    <3> SUFFICES ASSUME NEW e \in Cells
                 PROVE  /\ t[d][e] \in ValueText /\ u[d][e] \in ValueText
                        /\ Alike(MaxArg, t[d][e], u[d][e])
      OBVIOUS
    <3>1. t[d][e] = TextOf(h, e, MaxArg, d, t) /\ u[d][e] = TextOf(h, e, 0, d, u)
      BY <2>2, <2>3, HeapProperties DEF IsTexts
    <3> QED
      BY <2>1, <2>4, <3>1, TextOfIsAlike
  <2> HIDE DEF Q
  <2>5. Q(4)
    BY <2>4
  <2>6. Q(3)
    BY <2>4, <2>5
  <2>7. Q(2)
    BY <2>4, <2>6
  <2>8. Q(1)
    BY <2>4, <2>7
  <2>9. Q(0)
    BY <2>4, <2>8
  <2>10. /\ t[0][1] \in ValueText /\ u[0][1] \in ValueText /\ Alike(MaxArg, t[0][1], u[0][1])
    BY <2>9, HeapProperties DEF Q
  <2> QED
    BY <2>1, <2>2, <2>3, <2>10, AlikeTextsAreCutAlike DEF ZvalToString
<1> QED
  BY <1>1, <1>2

\* Cutting strings on the way and the whole text at the end is cutting the whole text once,
\* for any value and any max_arg_length (php_trace.cpp:157-254).
THEOREM ValuesCutOnce == Spec => []CutOnce
<1>1. ContentInv => CutOnce
  BY ValueIsCutOnce DEF ContentInv, ValueInv, CutOnce
<1> QED
  BY <1>1, Invariance, PTL

\* The calls under a cell, too, look one level down only.
LEMMA ActiveInNext ==
  ASSUME NEW h, NEW c, NEW d, NEW a, NEW b, a[d + 1] = b[d + 1]
  PROVE  ActiveIn(h, c, d, a) = ActiveIn(h, c, d, b)
<1> DEFINE es == {e \in ToSet(h[c].elements) : h[e].type # "array" \/ d < 2}
<1>1. {0} \cup {a[d + 1][e] : e \in es} = {0} \cup {b[d + 1][e] : e \in es}
  OBVIOUS
<1> HIDE DEF es
<1>2. Max({0} \cup {a[d + 1][e] : e \in es}) = Max({0} \cup {b[d + 1][e] : e \in es})
  BY <1>1
<1> QED
  BY <1>2 DEF ActiveIn, DepthOfTarget, es

IsActive(h, active) == \A d \in Nat : \A e \in DOMAIN h : active[d][e] = ActiveIn(h, e, d, active)

LEMMA ActiveExist ==
  ASSUME NEW h
  PROVE  \E active : IsActive(h, active) /\ \A c, d : Activations(h, c, d) = active[d][c]
<1> DEFINE Row(d, next) == [e \in DOMAIN h |-> ActiveIn(h, e, d, [k \in Nat |-> next])]
           r4 == [e \in DOMAIN h |-> 1]
           r3 == Row(3, r4)
           r2 == Row(2, r3)
           r1 == Row(1, r2)
           r0 == Row(0, r1)
           f == [d \in Nat |-> IF d = 0 THEN r0 ELSE IF d = 1 THEN r1 ELSE IF d = 2 THEN r2
                               ELSE IF d = 3 THEN r3 ELSE r4]
           IsFixed(g) == g = [d \in Nat |-> [e \in DOMAIN h |-> ActiveIn(h, e, d, g)]]
<1>1. ASSUME NEW d \in Nat, d <= 3 PROVE f[d] = Row(d, f[d + 1])
  <2>1. d = 0 \/ d = 1 \/ d = 2 \/ d = 3
    BY <1>1
  <2>2. r0 = Row(0, r1) /\ r1 = Row(1, r2) /\ r2 = Row(2, r3) /\ r3 = Row(3, r4)
    OBVIOUS
  <2> HIDE DEF Row, r0, r1, r2, r3, r4
  <2>3. f[0] = r0 /\ f[1] = r1 /\ f[2] = r2 /\ f[3] = r3 /\ f[4] = r4
    OBVIOUS
  <2> HIDE DEF f
  <2> QED
    BY <2>1, <2>2, <2>3
<1>2. \A d \in Nat : d > 3 => f[d] = r4
  <2> HIDE DEF r0, r1, r2, r3, r4
  <2> QED
    OBVIOUS
<1>3. f = [d \in Nat |-> f[d]]
  <2> HIDE DEF r0, r1, r2, r3, r4
  <2> QED
    OBVIOUS
<1> HIDE DEF f
<1>4. ASSUME NEW d \in Nat PROVE f[d] = [e \in DOMAIN h |-> ActiveIn(h, e, d, f)]
  <2>1. CASE d > 3
    <3>1. \A e : ActiveIn(h, e, d, f) = 1
      BY <2>1 DEF ActiveIn
    <3> QED
      BY <1>2, <2>1, <3>1
  <2>2. CASE d <= 3
    <3> DEFINE g == [k \in Nat |-> f[d + 1]]
    <3>1. g[d + 1] = f[d + 1]
      OBVIOUS
    <3> HIDE DEF g
    <3>2. \A e : ActiveIn(h, e, d, g) = ActiveIn(h, e, d, f)
      BY <3>1, ActiveInNext
    <3>3. f[d] = [e \in DOMAIN h |-> ActiveIn(h, e, d, g)]
      BY <1>1, <2>2 DEF g
    <3> QED
      BY <3>2, <3>3
  <2> QED
    BY <2>1, <2>2
<1>5. IsFixed(f)
  BY <1>3, <1>4
<1> DEFINE active == CHOOSE g : IsFixed(g)
<1>6. IsFixed(active)
  <2> HIDE DEF IsFixed
  <2> QED
    BY <1>5, Zenon
<1>7. \A c, d : Activations(h, c, d) = active[d][c]
  BY Zenon DEF Activations
<1> HIDE DEF active
<1>8. IsActive(h, active)
  BY <1>6 DEF IsActive
<1> QED
  BY <1>7, <1>8

\* A level adds one call to those of the level below it.
LEMMA ActiveInBounded ==
  ASSUME NEW h \in Values, NEW d \in 0 .. 4, NEW a, NEW c \in Cells,
         d <= 3 => \A e \in Cells : a[d + 1][e] \in 1 .. 4 - d
  PROVE  ActiveIn(h, c, d, a) \in 1 .. 5 - d
<1>1. CASE d > 3
  BY <1>1 DEF ActiveIn
<1>2. CASE d <= 3 /\ h[c].type = "reference"
  <2>1. h[c].to \in Cells
    BY <1>2, HeapProperties
  <2>2. ActiveIn(h, c, d, a) = 1 + a[d + 1][h[c].to]
    BY <1>2 DEF ActiveIn, DepthOfTarget
  <2>3. a[d + 1][h[c].to] \in 1 .. 4 - d
    BY <1>2, <2>1
  <2> QED
    BY <2>2, <2>3
<1>3. CASE d <= 3 /\ h[c].type = "array"
  <2> DEFINE es == {e \in ToSet(h[c].elements) : h[e].type # "array" \/ d < 2}
             under == {0} \cup {a[d + 1][e] : e \in es}
  <2>1. es \subseteq Cells
    <3>1. h[c].elements \in Seq(Cells)
      BY <1>3, HeapProperties
    <3> QED
      BY <3>1 DEF ToSet
  <2>2. ActiveIn(h, c, d, a) = 1 + Max(under)
    BY <1>3 DEF ActiveIn
  <2>3. under \subseteq 0 .. 4 - d /\ under # {} /\ 4 - d \in Nat
    <3> HIDE DEF es
    <3> QED
      BY <1>3, <2>1
  <2> HIDE DEF under
  <2>4. \E x \in under : \A y \in under : x >= y
    BY <2>3, GreatestElement
  <2> DEFINE top == Max(under)
  <2>5. top \in under
    BY <2>4 DEF Max
  <2>6. ActiveIn(h, c, d, a) = 1 + top
    BY <2>2
  <2> HIDE DEF top
  <2>7. top \in 0 .. 4 - d
    BY <2>3, <2>5
  <2> QED
    BY <2>6, <2>7
<1>4. CASE d <= 3 /\ h[c].type \notin {"reference", "array"}
  <2>1. ActiveIn(h, c, d, a) = 1
    BY <1>4 DEF ActiveIn
  <2> QED
    BY <1>4, <2>1
<1> QED
  BY <1>1, <1>2, <1>3, <1>4

LEMMA ActivationsBounded ==
  ASSUME NEW h \in Values
  PROVE  Activations(h, 1, 0) <= 5
<1>1. PICK a : IsActive(h, a) /\ \A c, d : Activations(h, c, d) = a[d][c]
  BY ActiveExist
<1> DEFINE Q(d) == \A e \in Cells : a[d][e] \in 1 .. 5 - d
<1>2. ASSUME NEW d \in 0 .. 4, d <= 3 => Q(d + 1) PROVE Q(d)
  <2> SUFFICES ASSUME NEW e \in Cells PROVE a[d][e] \in 1 .. 5 - d
    OBVIOUS
  <2>1. a[d][e] = ActiveIn(h, e, d, a)
    BY <1>1, HeapProperties DEF IsActive
  <2>2. d <= 3 => \A c \in Cells : a[d + 1][c] \in 1 .. 4 - d
    <3>1. 5 - (d + 1) = 4 - d
      OBVIOUS
    <3> QED
      BY <1>2, <3>1
  <2> QED
    BY <2>1, <2>2, ActiveInBounded
<1> HIDE DEF Q
<1>3. Q(4)
  BY <1>2
<1>4. Q(3)
  BY <1>2, <1>3
<1>5. Q(2)
  BY <1>2, <1>4
<1>6. Q(1)
  BY <1>2, <1>5
<1>7. Q(0)
  BY <1>2, <1>6
<1> QED
  BY <1>1, <1>7, HeapProperties DEF Q

\* The limit on depth ends a conversion within five nested calls, even of a value whose
\* references lead back into it (php_trace.cpp:160, 237-238).
THEOREM BoundedRecursion == Spec => []RecursionIsBounded
<1>1. ContentInv => RecursionIsBounded
  BY ActivationsBounded DEF ContentInv, ValueInv, RecursionIsBounded
<1> QED
  BY <1>1, Invariance, PTL
=============================================================================
