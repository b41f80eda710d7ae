--------------------------- MODULE MCSessionStore ---------------------------
(* The session store for TLC: symmetry of its sets of model values.        *)
EXTENDS SessionStore, TLC

(* No action reads answer, so two states that differ in it alone have the   *)
(* same future; of the properties checked under this view only TypeOK reads *)
(* it, to say what it may be.                                               *)
StateButAnswer == <<storeVars, k8sVars, bootVars, proc, faults>>

Symmetry == Permutations(Users) \cup Permutations(Ids) \cup Permutations(Procs)

=============================================================================
