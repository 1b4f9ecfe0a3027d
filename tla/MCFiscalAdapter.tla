-------------------------- MODULE MCFiscalAdapter ---------------------------
(* Two jobs that settle the same hash or two hashes, and retry.             *)
EXTENDS FiscalAdapter, TLC

\* Jobs and hashes are only compared.
MCSymmetry == Permutations(Jobs) \cup Permutations(Hashes)
=============================================================================
