----------------------------- MODULE MCReasoning -----------------------------
(* One agent that may take up stored traces again, so that it stands for     *)
(* several; and the same beside two tasks that call the hooks.               *)
EXTENDS ReasoningEvents

\* Tasks are only compared.
MCSymmetry == Permutations(Tasks)
=============================================================================
