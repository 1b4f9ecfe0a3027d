------------------------- MODULE MCConvergenceChain -------------------------
(* One problem, solved and attacked at two times and at an unknown one.      *)
EXTENDS ConvergenceChain

MCDeltas == {-1, 1}

\* An event type, a time and a problem end up in bytes of their own.
MCEncode ==
  [e \in Stamped(Times \cup {Now}) |->
     <<(IF e.delta < 0 THEN {0} ELSE {1})
         \cup (IF e.timestamp = Now THEN {2} ELSE {}),
       IF e.timestamp = "t1" THEN {0} ELSE {1, 2}>>]

MCSymmetry == Permutations(Procs)
=============================================================================
