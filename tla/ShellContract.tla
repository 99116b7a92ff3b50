---------------------------- MODULE ShellContract ----------------------------
(***************************************************************************)
(* What FerrousNativeManager promises a caller about each shell, with no   *)
(* threads, files or crashes: a shell is absent, then Running, then Exited *)
(* or purged; it is Exited or purged only when its child is dead, and a    *)
(* dead child does not stay Running for ever.  Exited is final once the    *)
(* manager knows the shell: only one that others see before it does, while *)
(* it is being spawned, may be Exited and then, when it becomes known,     *)
(* Running once more.  A purged shell may come back as Exited: whoever     *)
(* looked at it before the purge may still write its record.               *)
(***************************************************************************)
CONSTANT Shell

VARIABLES
  child,   \* unborn, live or dead
  known,   \* does the manager know it: is its spawn over, or as good as over?
  view     \* what the manager answers: absent, Running, Exited or purged

vars == <<child, known, view>>

Init ==
  /\ child = [s \in Shell |-> "unborn"]
  /\ known = [s \in Shell |-> FALSE]
  /\ view = [s \in Shell |-> "absent"]

\* A child is born and dies once.
ChildStep(s) ==
  <<child[s], child'[s]>> \in {<<"unborn", "live">>, <<"live", "dead">>}

Gone == {"Exited", "purged"}

\* A shell appears with its child, and disappears only into Exited and from
\* there; it returns to Running only when it becomes known.
ViewStep(s) ==
  \/ view[s] = "absent" /\ child[s] # "unborn" /\ view'[s] \in {"Running"} \cup Gone
  \/ view[s] = "Running" /\ view'[s] \in Gone
  \/ view[s] \in Gone /\ view'[s] \in Gone
  \/ view[s] \in Gone /\ view'[s] = "Running" /\ ~known[s] /\ known'[s]

ShellStep(s) ==
  /\ ChildStep(s) \/ child'[s] = child[s]
  /\ ViewStep(s) \/ view'[s] = view[s]
  /\ known[s] => known'[s]
  /\ known'[s] => view'[s] # "absent"
  /\ view'[s] \in Gone => child'[s] = "dead"

Next == \A s \in Shell : ShellStep(s)

Safety == Init /\ [][Next]_vars

Noticed ==
  \A s \in Shell :
    (child[s] = "dead" /\ view[s] = "Running") ~> view[s] \in Gone

Spec == Safety /\ Noticed
=============================================================================
