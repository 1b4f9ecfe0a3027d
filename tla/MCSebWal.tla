------------------------------ MODULE MCSebWal ------------------------------
(***************************************************************************)
(* A small WAL kernel: polynomials of degree 3, header size 1, footer size *)
(* 2, uint32 arithmetic modulo 8 and a segment of 5 units, so that         *)
(* declared sizes 0..2 fit, 3..4 do not, and 5..7 wrap.                    *)
(***************************************************************************)
EXTENDS SebWal

\* A header is a pair (offset, declared payload size): one that does not fit, one
\* that does, and one whose size wraps, so that it passes for a small one.
MCHeader == {<<0, 4>>, <<1, 0>>, <<2, 6>>}
MCOffsetOf == [h \in Header |-> h[1]]
MCSizeOf == [h \in Header |-> h[2]]

Bits(n) == {k \in Exponents : (n \div 2^k) % 2 = 1}
MCWordsOf == [h \in Header |-> <<Bits(h[1]), Bits(h[2])>>]

MCForeignHash == {{0, 2}}
=============================================================================
