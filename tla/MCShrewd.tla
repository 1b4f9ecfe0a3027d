------------------------------ MODULE MCShrewd -------------------------------
(* A window of five ticks, so that four of them are exactly four fifths, of   *)
(* a feed of seven.                                                           *)
EXTENDS Shrewd
=============================================================================
