-------------------------- MODULE MCNodeOnboarding --------------------------
(* Host onboarding for TLC: symmetry of its sets of model values.           *)
EXTENDS NodeOnboarding, TLC

(* No action reads answer, so two states that differ in it alone have the   *)
(* same future; the properties checked under this view do not read it.      *)
StateButAnswer ==
  <<storeVars, k8sVars, proc, watcher, up, env, now, faults>>

ByOperator == [autoApprove |-> FALSE, joinURL |-> TRUE, inCluster |-> TRUE]
Automatic  == [autoApprove |-> TRUE, joinURL |-> TRUE, inCluster |-> TRUE]

OnlyByOperator == {ByOperator}
OnlyAutomatic  == {Automatic}

Symmetry == Permutations(Laptops) \cup Permutations(Ids) \cup Permutations(Tokens)
              \cup Permutations(Procs)

=============================================================================
