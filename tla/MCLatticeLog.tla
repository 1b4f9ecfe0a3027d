---------------------------- MODULE MCLatticeLog ----------------------------
(* Two threads, two payloads that commit differently, a file of two records *)
(* and a torn one.                                                          *)
EXTENDS LatticeLog

MCPayload == {<<{0}, {}>>, <<{0, 1}, {2}>>}
=============================================================================
