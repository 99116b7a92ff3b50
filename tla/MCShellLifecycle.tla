-------------------------- MODULE MCShellLifecycle --------------------------
(* Small instances of ShellLifecycle for TLC: see the Shell*.cfg files.    *)
EXTENDS ShellLifecycle, ShutdownPlan

\* Clients are interchangeable.  The run that checks liveness does without.
ClientSymmetry == Permutations(Client)

Spawning == {s \in Shell : spc[s] \notin {"idle", "untracked", "done"}}
Calling  == {c \in Client : call[c] # Idle}
Purging  == {c \in Client : call[c].pc = "purge"}

\* What concerns one shell is explored with the piped one, purges one by one.
One ==
  /\ \A s \in Shell \ Piped : os[s] = "unborn" /\ s \notin asked
  /\ Cardinality(Purging) <= 1

\* Both shells are there for what a signal, a shutdown or a purge of one does
\* to the other: writes do not fail, nobody sends an EOF, the first manager
\* spawns both, and one client calls at a time.
Both ==
  /\ faults = 0
  /\ \A s \in Shell : home[s] <= 1 /\ (entry[s] # None => entry[s].stdin = (s \in Piped))
  /\ Cardinality(Spawning) <= 1 /\ Cardinality(Calling) <= 1

\* Spawns, calls and what a pass of the reactor has found then come one by one,
\* unless the manager is the second one or every shell that was spawned lives.
InTurn ==
  \/ gen = 2
  \/ \A s \in Shell \ Spawning : os[s] = "live"
  \/ Spawning \cup Calling = {}
  \/ found = {} /\ rpub = None /\ (Spawning = {} \/ Calling = {})

Small == One \/ (Both /\ InTurn)

-----------------------------------------------------------------------------
\* The plan of every shutdown that a manager with pid 2 makes of any roots among
\* four processes holds the trees of these roots, children first, and spares
\* the manager and its ancestors.  It does not depend on the state, so it is
\* evaluated in the initial one only.  (shutdown_process_tree_blocking)
PlansAreSound ==
  (gen = 1 /\ asked = {} /\ \A s \in Shell : os[s] = "unborn") =>
    \A parent \in Snapshots(2, 1..4), roots \in SUBSET (1..4) :
      PlanSound(2, roots, parent, 1..4)
=============================================================================
