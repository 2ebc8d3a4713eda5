-------------------------------- MODULE Zval --------------------------------
(***************************************************************************)
(* The text of a PHP value in a span (php_trace_zval_to_string).  Values   *)
(* lie in a heap: an array's elements come after it, so that only a        *)
(* reference leads back and makes a value contain itself.  A text is a     *)
(* sequence of symbols; what the code writes for a scalar, and each marker *)
(* it leaves, is one symbol.                                               *)
(***************************************************************************)
EXTENDS Integers, Sequences, SequencesExt, FiniteSetsExt

Scalar == [type |-> "scalar"]
String(t) == [type |-> "string", text |-> t]
Array(es) == [type |-> "array", elements |-> es]
Reference(c) == [type |-> "reference", to |-> c]

\* The heaps with n cells, arrays of up to k elements and some texts; a reference leads to a
\* cell that is none.
Heaps(n, k, texts) ==
  LET cells == 1 .. n
      value == {Scalar} \cup {String(t) : t \in texts} \cup {Reference(c) : c \in cells}
                 \cup {Array(es) : es \in SeqOf(cells, k)}
  IN  {h \in [cells -> value] :
        \A c \in cells :
          /\ h[c].type = "reference" => h[h[c].to].type # "reference"
          /\ h[c].type = "array" => \A i \in DOMAIN h[c].elements :
               h[c].elements[i] > c \/ h[h[c].elements[i]].type = "reference"}

\* The first max_len symbols, and a marker, of a text that is longer.
Cut(t, max_len, marker) ==
  IF max_len > 0 /\ Len(t) > max_len THEN SubSeq(t, 1, max_len) \o <<marker>> ELSE t
CutStringShorter(t, max_len) == Cut(t, max_len - 1, "bytes")
CutString(t, max_len) == Cut(t, max_len, "bytes")

DepthKept(depth) == depth
DepthOfTarget(depth) == depth + 1

\* What one call returns; text[d][e] is what a call for cell e at depth d does.  An array
\* below depth 2 is shown by its size.
ElementText(h, e, depth, text) ==
  IF h[e].type = "array" /\ depth >= 2 THEN <<"array">> ELSE text[depth + 1][e]

TextOf(h, c, max_len, depth, text) ==
  IF depth > 3 THEN <<"max depth">>
  ELSE CASE h[c].type = "scalar" -> <<"scalar">>
         [] h[c].type = "string" -> CutString(h[c].text, max_len)
         [] h[c].type = "reference" -> text[DepthOfTarget(depth)][h[c].to]
         [] h[c].type = "array" ->
              LET es == h[c].elements
              IN  <<"{">> \o FlattenSeq([i \in DOMAIN es |->
                               <<"key">> \o ElementText(h, es[i], depth, text)]) \o <<"}">>

ZvalToStringImpl(h, c, max_len, depth) ==
  LET text[d \in Nat] == [e \in DOMAIN h |-> TextOf(h, e, max_len, d, text)]
  IN  text[depth][c]

ZvalToString(h, c, max_len) == Cut(ZvalToStringImpl(h, c, max_len, 0), max_len, "truncated")

\* How many calls of ZvalToStringImpl are active at once.
ActiveIn(h, c, depth, active) ==
  IF depth > 3 THEN 1
  ELSE CASE h[c].type = "reference" -> 1 + active[DepthOfTarget(depth)][h[c].to]
         [] h[c].type = "array" ->
              1 + Max({0} \cup {active[depth + 1][e] :
                 e \in {e \in ToSet(h[c].elements) : h[e].type # "array" \/ depth < 2}})
         [] OTHER -> 1

Activations(h, c, depth) ==
  LET active[d \in Nat] == [e \in DOMAIN h |-> ActiveIn(h, e, d, active)]
  IN  active[depth][c]
=============================================================================
