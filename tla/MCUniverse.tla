----------------------------- MODULE MCUniverse ------------------------------
(* One id, in many forms, proposed or core, through gate, mark, promotion,    *)
(* file and restart: three builder calls pass the gate, the fourth marks, and *)
(* one is left.  Indexes keep ids apart; the theorems are for any number.     *)
EXTENDS Universe, TLC

\* Ids and languages are only compared.
MCSymmetry == Permutations(Ids) \cup Permutations(Languages)
=============================================================================
