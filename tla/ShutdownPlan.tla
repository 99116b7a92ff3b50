---------------------------- MODULE ShutdownPlan ----------------------------
(***************************************************************************)
(* Which processes a shutdown signals, and in which order: the plan that   *)
(* shutdown_process_tree_blocking (src/native_runtime.rs) makes of the     *)
(* requested roots and of one snapshot of /proc, before its first signal.  *)
(*                                                                         *)
(* A snapshot is a function from the pids that were seen, zombies left     *)
(* out, to their parents' pids; 0 is no process.  A parent need not have   *)
(* been seen, and neither need a root.                                     *)
(***************************************************************************)
EXTENDS Naturals, SequencesExt

\* What a loop has after n rounds of step, from x on.
Rounds(step, x, n) ==
  LET After[k \in 0..n] == IF k = 0 THEN x ELSE step[After[k-1]] IN After[n]

\* One round of shutdown_plan_pids: the children of what is selected join it.
Select(roots, parent) ==
  [pids \in SUBSET (roots \cup DOMAIN parent) |->
     pids \cup {p \in DOMAIN parent : parent[p] \in pids}]

\* shutdown_plan_pids: the roots, and round after round the children of what
\* is selected.
Selected(roots, parent) ==
  Rounds(Select(roots, parent), roots, Cardinality(DOMAIN parent))

\* From a process to its parent, if it was seen.
Climb(parent) ==
  [p \in Nat |-> IF p \in DOMAIN parent THEN parent[p] ELSE p]

\* The n-th process on the way up from p.
Forebear(p, parent, n) == Rounds(Climb(parent), p, n)

\* The way ends with a process in `top', one not seen, or one met before.
Ends(p, parent, top, n) ==
  LET q == Forebear(p, parent, n) IN
  q \in top \/ q \notin DOMAIN parent \/ \E m \in 0..(n-1) : q = Forebear(p, parent, m)

\* How many steps up it is to there.
Ascent(p, parent, top) ==
  CHOOSE n \in 0..Cardinality(DOMAIN parent) :
    Ends(p, parent, top, n) /\ \A m \in 0..(n-1) : ~Ends(p, parent, top, m)

\* process_depth
Depth(p, roots, parent) == Ascent(p, parent, roots)

\* protected_process_pids: the manager's process and those it descends from.
Protected(self, parent) ==
  {Forebear(self, parent, n) : n \in 0..Ascent(self, parent, {0})} \ {0}

\* Mistake: parents before their children.
ParentsFirst(p, q, roots, parent) ==
  LET d == Depth(p, roots, parent)
      e == Depth(q, roots, parent) IN
  d < e \/ (d = e /\ p > q)

\* The order of the plan: the deepest first, then the higher pid.
Sooner(p, q, roots, parent) ==
  LET d == Depth(p, roots, parent)
      e == Depth(q, roots, parent) IN
  d > e \/ (d = e /\ p > q)

\* A process comes after as many as are before it in this order.
KillPlan(self, roots, parent) ==
  LET pids == Selected(roots, parent) \ Protected(self, parent) IN
  [i \in 1..Cardinality(pids) |->
     CHOOSE p \in pids : Cardinality({q \in pids : Sooner(q, p, roots, parent)}) = i - 1]

-----------------------------------------------------------------------------
(* What the plan is for.                                                   *)

\* The roots and all that descends from them: what is in every set that has
\* the roots and, with a process, its children.
Tree(roots, parent, pids) ==
  {p \in pids :
     \A family \in SUBSET pids :
       /\ roots \subseteq family
       /\ \A q \in DOMAIN parent : parent[q] \in family => q \in family
       => p \in family}

\* Process self and its ancestors, in the same way.
Lineage(self, parent, pids) ==
  {p \in pids :
     \A line \in SUBSET (pids \cup {0}) :
       /\ self \in line
       /\ \A q \in line \cap DOMAIN parent : parent[q] \in line
       => p \in line}

\* Nobody is its own ancestor: of any processes one has a parent elsewhere.
\* A snapshot that was taken while pids were reused may be otherwise.
Sane(parent) ==
  \A s \in SUBSET DOMAIN parent : s # {} => \E p \in s : parent[p] \notin s

\* What the manager self may find in /proc: itself and any of these processes.
Snapshots(self, pids) ==
  {parent \in UNION {[seen -> pids \cup {0}] : seen \in SUBSET pids} :
     self \in DOMAIN parent}

\* Whatever was found, and whatever roots were asked for: each root and each
\* descendant of a root is in the plan once, except the manager and its
\* ancestors, which are in no plan although they may be roots or descend from
\* one; and a process that is no root itself is signalled before its parent,
\* so that a parent that is told to end cannot start anew, on losing it, a
\* child that the plan has already passed.  (shutdown_plan_pids, process_depth,
\* protected_process_pids)
PlanSound(self, roots, parent, pids) ==
  LET plan == KillPlan(self, roots, parent) IN
  /\ IsInjective(plan)
  /\ ToSet(plan) = Tree(roots, parent, pids) \ Lineage(self, parent, pids)
  /\ Sane(parent) =>
       \A i, j \in DOMAIN plan :
         /\ plan[i] \in DOMAIN parent \ roots
         /\ plan[j] = parent[plan[i]]
         => i < j
=============================================================================
