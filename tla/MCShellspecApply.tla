-------------------------- MODULE MCShellspecApply --------------------------
(* Small instances of ShellspecApply for TLC.                              *)
EXTENDS ShellspecApply, TLC

\* Shells are interchangeable, specs too, and so are the threads that apply.
ApplySymmetry == Permutations(Shell) \cup Permutations(SpecId) \cup Permutations(Applier)

\* Bound: the last call overlaps no other.
LastAlone ==
  calls = MaxCalls => Cardinality({a \in Applier : apc[a] # "idle"}) <= 1
=============================================================================
