------------------------------- MODULE SpanIds -------------------------------
(***************************************************************************)
(* Span::generate_id (span.h) on words of Width bits: a clock reading and  *)
(* the thread's counter, mixed into the two halves of a trace id, or       *)
(* folded into a span id.  The program has Width = 64, ShiftHi = 17,       *)
(* ShiftLo = 23 and an odd Multiplier.  Powers and bits are recursive      *)
(* functions on the naturals, about which the proofs reason by induction.  *)
(***************************************************************************)
EXTENDS Naturals

CONSTANTS Width, ShiftHi, ShiftLo, Multiplier

ASSUME IdAssumption ==
  /\ Width \in Nat \ {0} /\ ShiftHi \in Nat \ {0} /\ ShiftLo \in Nat \ {0}
  /\ Multiplier \in Nat /\ Multiplier % 2 = 1

TwoTo[n \in Nat] == IF n = 0 THEN 1 ELSE 2 * TwoTo[n - 1]
Word == 0 .. TwoTo[Width] - 1
ShiftLeft(x, n) == (x * TwoTo[n]) % TwoTo[Width]

\* The exclusive or of the n lowest bits of two numbers.
XorBits[n \in Nat] ==
  [p \in Nat \X Nat |->
     IF n = 0 THEN 0
     ELSE 2 * XorBits[n - 1][<<p[1] \div 2, p[2] \div 2>>] + ((p[1] + p[2]) % 2)]
x ^^ y == XorBits[Width][<<x, y>>]

Hi(ns, counter) == ShiftLeft(ns, ShiftHi) ^^ counter
LoUnshifted(ns, counter) == ((ns * Multiplier) % TwoTo[Width]) ^^ counter
Lo(ns, counter) == ((ns * Multiplier) % TwoTo[Width]) ^^ ShiftLeft(counter, ShiftLo)

TraceId(ns, counter) == <<Hi(ns, counter), Lo(ns, counter)>>   \* generate_id(16)
SpanId(ns, counter) == Hi(ns, counter) ^^ Lo(ns, counter)      \* generate_id(8)
=============================================================================
