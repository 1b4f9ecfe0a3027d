---------------------------- MODULE MCHumanTouch ----------------------------
(* Two ids, so that a third change reuses one, and room for two changes or  *)
(* for one.                                                                 *)
EXTENDS HumanTouch, TLC

\* Ids are only compared.
MCSymmetry == Permutations(Ids)
=============================================================================
