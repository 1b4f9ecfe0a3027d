--------------------------- MODULE LatticeCircuit ---------------------------
(***************************************************************************)
(* The commitment circuit of seb_lattice.c over R = GF(2^8)[x]/(x^32 + 1). *)
(*                                                                         *)
(* The key polynomials are K0 = 1, K1 = x and K2 = x^2: every coefficient  *)
(* the circuit multiplies by is 0 or 1, so the eight bit planes of a       *)
(* 32-byte string never mix.  A Poly is one bit plane: the set of the      *)
(* exponents whose coefficient is 1.  Nothing else is abstracted; Degree   *)
(* is 32 in the code and smaller in the model-checked instances.           *)
(***************************************************************************)
EXTENDS Integers, FiniteSets

CONSTANT Degree

ASSUME DegreeAssumption == Degree \in Nat /\ Degree >= 3

Exponents == 0 .. Degree - 1
Poly == SUBSET Exponents

\* The all-zero string: the genesis tip.
Zero == {}

\* Two halves of a 64-byte payload (or of header[0:64]).
Words64 == Poly \X Poly

Xor(p, q) == (p \ q) \cup (q \ p)

\* c[k] is the parity of the products a[i]*b[k-i].
CyclicConvolve(a, b) ==
  {k \in Exponents : Cardinality({i \in a : (k - i) % Degree \in b}) % 2 = 1}

K0 == {0}
K1 == {1}
K2 == {2}

\* seb_lattice_commit: next = K0*prev XOR K1*payload[0:32] XOR K2*payload[32:64].
Commit(prev, payload) ==
  Xor(Xor(CyclicConvolve(K0, prev), CyclicConvolve(K1, payload[1])),
      CyclicConvolve(K2, payload[2]))
=============================================================================
