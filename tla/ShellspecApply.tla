--------------------------- MODULE ShellspecApply ---------------------------
(***************************************************************************)
(* Applying a shellspec document to a manager (src/native_runtime.rs:      *)
(* apply_rendered_shellspecs_blocking and what it calls).  For each spec   *)
(* that autostarts, a thread looks for a running shell of it and spawns    *)
(* one if there is none; then, if asked to, it terminates the shells whose *)
(* spec is not in the document.  The first error ends the call.  The host  *)
(* runs one such call per request, and nothing orders them.                *)
(*                                                                         *)
(* ShellLifecycle has the life of a shell in detail; here a shell is       *)
(* unborn, up, killed (a signal is on its way or has worked, and the entry *)
(* still says Running), exited, or stray: its spawn failed after the fork  *)
(* and before the entry was inserted, and its child may run on, which no   *)
(* apply sees.                                                             *)
(***************************************************************************)
EXTENDS Naturals, FiniteSets

CONSTANTS
  SpecId,    \* the specs documents may list
  Shell,     \* the shells that may be spawned
  Applier,   \* threads that apply documents
  None,      \* no spec, no shell
  MaxCalls   \* bound: calls of apply

ASSUME SpecAssumption  == None \notin SpecId \cup Shell
ASSUME CallsAssumption == MaxCalls \in Nat

VARIABLES
  state,     \* what becomes of each shell
  spec,      \* the spec it was spawned for
  calls,     \* calls made
  apc,       \* where each applier stands
  listed,    \* the specs of its document
  todo,      \* those that autostart and are still to be looked at
  now,       \* the spec it is busy with
  fresh,     \* the shell it is starting
  started,   \* the shells it has started
  pruning,   \* the prune argument
  doomed,    \* the records it took to prune
  \* history
  before,    \* the entries there were when its call began,
  looked,    \* and when it last looked for a running shell
  seen       \* those there were when the caller that spawned a shell looked

shellVars == <<state, spec>>
callVars  == <<apc, listed, todo, now, fresh, started, pruning, doomed>>
pastVars  == <<before, looked, seen>>
vars == <<shellVars, calls, callVars, pastVars>>

-----------------------------------------------------------------------------
Init ==
  /\ state = [i \in Shell |-> "unborn"]
  /\ spec = [i \in Shell |-> None]
  /\ calls = 0
  /\ apc = [a \in Applier |-> "idle"]
  /\ listed = [a \in Applier |-> {}]
  /\ todo = [a \in Applier |-> {}]
  /\ now = [a \in Applier |-> None]
  /\ fresh = [a \in Applier |-> None]
  /\ started = [a \in Applier |-> {}]
  /\ pruning = [a \in Applier |-> FALSE]
  /\ doomed = [a \in Applier |-> {}]
  /\ before = [a \in Applier |-> {}]
  /\ looked = [a \in Applier |-> {}]
  /\ seen = [i \in Shell |-> {}]

\* The shells that have an entry.
Entries == {i \in Shell : state[i] \notin {"unborn", "stray"}}

\* The entry of shell i says Running.
Running(i) == state[i] \in {"up", "killed"}

-----------------------------------------------------------------------------
(* Shells, as their manager's other threads drive them.                    *)

\* The child of a shell that is up ends by itself, or that of a killed one
\* has ended, and the reactor records it.
ShellExits(i) ==
  /\ Running(i)
  /\ state' = [state EXCEPT ![i] = "exited"]
  /\ UNCHANGED <<spec, calls, callVars, pastVars>>

\* terminate_shell_blocking on shell i: nothing for one that has exited.
Terminated(i) == IF Running(i) THEN [state EXCEPT ![i] = "killed"] ELSE state

\* A client terminates a shell.
ClientTerminates(i) ==
  /\ state[i] = "up"
  /\ state' = Terminated(i)
  /\ UNCHANGED <<spec, calls, callVars, pastVars>>

-----------------------------------------------------------------------------
(* apply_rendered_shellspecs_blocking.                                     *)

\* A call with a document that lists `all', of which `auto' autostart.
Apply(a, all, auto, prune) ==
  /\ apc[a] = "idle"
  /\ calls < MaxCalls
  /\ auto \subseteq all
  /\ calls' = calls + 1
  /\ apc' = [apc EXCEPT ![a] = "next"]
  /\ listed' = [listed EXCEPT ![a] = all]
  /\ todo' = [todo EXCEPT ![a] = auto]
  /\ started' = [started EXCEPT ![a] = {}]
  /\ pruning' = [pruning EXCEPT ![a] = prune]
  /\ before' = [before EXCEPT ![a] = Entries]
  /\ UNCHANGED <<shellVars, now, fresh, doomed, looked, seen>>

\* live_running_record_by_spec_id, under the state lock.
LiveRunning(p) == \E i \in Shell : spec[i] = p /\ Running(i)

\* Mistake: taking a shell that was terminated for one that is gone.
LookForUp(a, p) ==
  /\ apc[a] = "next"
  /\ p \in todo[a]
  /\ todo' = [todo EXCEPT ![a] = @ \ {p}]
  /\ IF \E i \in Shell : spec[i] = p /\ state[i] = "up"
     THEN UNCHANGED <<apc, now>>
     ELSE /\ apc' = [apc EXCEPT ![a] = "spawn"]
          /\ now' = [now EXCEPT ![a] = p]
  /\ looked' = [looked EXCEPT ![a] = Entries]
  /\ UNCHANGED <<shellVars, calls, listed, fresh, started, pruning, doomed, before, seen>>

Look(a, p) ==
  /\ apc[a] = "next"
  /\ p \in todo[a]
  /\ todo' = [todo EXCEPT ![a] = @ \ {p}]
  /\ IF LiveRunning(p)
     THEN UNCHANGED <<apc, now>>
     ELSE /\ apc' = [apc EXCEPT ![a] = "spawn"]
          /\ now' = [now EXCEPT ![a] = p]
  /\ looked' = [looked EXCEPT ![a] = Entries]
  /\ UNCHANGED <<shellVars, calls, listed, fresh, started, pruning, doomed, before, seen>>

\* The shell is spawned and its entry inserted, then the call waits for its
\* readiness probe.
Spawn(a, i) ==
  /\ apc[a] = "spawn"
  /\ state[i] = "unborn"
  /\ state' = [state EXCEPT ![i] = "up"]
  /\ spec' = [spec EXCEPT ![i] = now[a]]
  /\ apc' = [apc EXCEPT ![a] = "probe"]
  /\ fresh' = [fresh EXCEPT ![a] = i]
  /\ seen' = [seen EXCEPT ![i] = looked[a]]
  /\ UNCHANGED <<calls, listed, todo, now, started, pruning, doomed, before, looked>>

\* The spawn fails and the call returns the error: before the fork ...
SpawnFails(a) ==
  /\ apc[a] = "spawn"
  /\ apc' = [apc EXCEPT ![a] = "failed"]
  /\ UNCHANGED <<shellVars, calls, listed, todo, now, fresh, started, pruning, doomed, pastVars>>

\* ... or after it, before or after the entry is inserted.
SpawnFailsLate(a, i) ==
  /\ apc[a] = "spawn"
  /\ state[i] = "unborn"
  /\ \E left \in {"stray", "up"} : state' = [state EXCEPT ![i] = left]
  /\ spec' = [spec EXCEPT ![i] = now[a]]
  /\ apc' = [apc EXCEPT ![a] = "failed"]
  /\ seen' = [seen EXCEPT ![i] = looked[a]]
  /\ UNCHANGED <<calls, listed, todo, now, fresh, started, pruning, doomed, before, looked>>

\* There is no probe, or it succeeds in time.  It does not ask whether the
\* shell is still there.
ProbeSucceeds(a) ==
  /\ apc[a] = "probe"
  /\ apc' = [apc EXCEPT ![a] = "next"]
  /\ started' = [started EXCEPT ![a] = @ \cup {fresh[a]}]
  /\ UNCHANGED <<shellVars, calls, listed, todo, now, fresh, pruning, doomed, pastVars>>

\* It does not succeed in time: the shell is terminated, if that works, and the
\* call fails.
ProbeTimesOut(a) ==
  /\ apc[a] = "probe"
  /\ apc' = [apc EXCEPT ![a] = "failed"]
  /\ state' \in {state, Terminated(fresh[a])}
  /\ UNCHANGED <<spec, calls, listed, todo, now, fresh, started, pruning, doomed, pastVars>>

\* It cannot be tried (a name that does not resolve, a pattern that is no
\* regular expression): the error is returned at once, and the shell stays.
ProbeErrs(a) ==
  /\ apc[a] = "probe"
  /\ apc' = [apc EXCEPT ![a] = "erred"]
  /\ UNCHANGED <<shellVars, calls, listed, todo, now, fresh, started, pruning, doomed, pastVars>>

\* Mistake: a call that started nothing has nothing to prune.
PruneIfStarted(a) ==
  /\ apc[a] = "next" /\ todo[a] = {}
  /\ LET skip == ~pruning[a] \/ started[a] = {} IN
     /\ apc' = [apc EXCEPT ![a] = IF skip THEN "applied" ELSE "prune"]
     /\ doomed' = [doomed EXCEPT ![a] =
          {i \in Entries : ~skip /\ spec[i] \notin listed[a]}]
  /\ UNCHANGED <<shellVars, calls, listed, todo, now, fresh, started, pruning, pastVars>>

\* All specs are dealt with: live_records, the exited ones included, less
\* those whose spec is listed.
BeginPrune(a) ==
  /\ apc[a] = "next" /\ todo[a] = {}
  /\ apc' = [apc EXCEPT ![a] = IF pruning[a] THEN "prune" ELSE "applied"]
  /\ doomed' = [doomed EXCEPT ![a] =
       {i \in Entries : pruning[a] /\ spec[i] \notin listed[a]}]
  /\ UNCHANGED <<shellVars, calls, listed, todo, now, fresh, started, pruning, pastVars>>

PruneNext(a, i) ==
  /\ apc[a] = "prune"
  /\ i \in doomed[a]
  /\ doomed' = [doomed EXCEPT ![a] = @ \ {i}]
  /\ state' = Terminated(i)
  /\ UNCHANGED <<spec, calls, apc, listed, todo, now, fresh, started, pruning, pastVars>>

\* A shell cannot be terminated, or not in time: the call fails, and what is
\* left to prune stays.
PruneFails(a, i) ==
  /\ apc[a] = "prune"
  /\ i \in doomed[a]
  /\ state' \in {state, Terminated(i)}
  /\ apc' = [apc EXCEPT ![a] = "failed"]
  /\ UNCHANGED <<spec, calls, listed, todo, now, fresh, started, pruning, doomed, pastVars>>

EndPrune(a) ==
  /\ apc[a] = "prune" /\ doomed[a] = {}
  /\ apc' = [apc EXCEPT ![a] = "applied"]
  /\ UNCHANGED <<shellVars, calls, listed, todo, now, fresh, started, pruning, doomed, pastVars>>

\* The caller has its answer and may call again.
Return(a) ==
  /\ apc[a] \in {"applied", "failed", "erred"}
  /\ apc' = [apc EXCEPT ![a] = "idle"]
  /\ now' = [now EXCEPT ![a] = None]
  /\ fresh' = [fresh EXCEPT ![a] = None]
  /\ listed' = [listed EXCEPT ![a] = {}]
  /\ todo' = [todo EXCEPT ![a] = {}]
  /\ started' = [started EXCEPT ![a] = {}]
  /\ pruning' = [pruning EXCEPT ![a] = FALSE]
  /\ doomed' = [doomed EXCEPT ![a] = {}]
  /\ before' = [before EXCEPT ![a] = {}]
  /\ looked' = [looked EXCEPT ![a] = {}]
  /\ UNCHANGED <<shellVars, calls, seen>>

-----------------------------------------------------------------------------
Step(a) ==
  \/ \E p \in SpecId : Look(a, p)
  \/ \E i \in Shell :
       Spawn(a, i) \/ SpawnFailsLate(a, i) \/ PruneNext(a, i) \/ PruneFails(a, i)
  \/ SpawnFails(a) \/ ProbeSucceeds(a) \/ ProbeTimesOut(a) \/ ProbeErrs(a)
  \/ BeginPrune(a) \/ EndPrune(a) \/ Return(a)

Next ==
  \/ \E i \in Shell : ShellExits(i) \/ ClientTerminates(i)
  \/ \E a \in Applier :
       \/ \E all, auto \in SUBSET SpecId, prune \in BOOLEAN : Apply(a, all, auto, prune)
       \/ Step(a)

Spec == Init /\ [][Next]_vars

-----------------------------------------------------------------------------
(* Correctness.                                                            *)

TypeOK ==
  /\ state \in [Shell -> {"unborn", "up", "killed", "exited", "stray"}]
  /\ spec \in [Shell -> SpecId \cup {None}]
  /\ calls \in 0..MaxCalls
  /\ apc \in [Applier -> {"idle", "next", "spawn", "probe", "prune", "applied",
                          "failed", "erred"}]
  /\ listed \in [Applier -> SUBSET SpecId]
  /\ todo \in [Applier -> SUBSET SpecId]
  /\ now \in [Applier -> SpecId \cup {None}]
  /\ fresh \in [Applier -> Shell \cup {None}]
  /\ started \in [Applier -> SUBSET Shell]
  /\ pruning \in [Applier -> BOOLEAN]
  /\ doomed \in [Applier -> SUBSET Shell]
  /\ before \in [Applier -> SUBSET Shell]
  /\ looked \in [Applier -> SUBSET Shell]
  /\ seen \in [Shell -> SUBSET Shell]

\* Documents may be applied again and again, and at once: two shells of one
\* spec have entries that say Running only when the calls that spawned them
\* overlapped, each having looked for a running shell before the other spawned
\* its own, whatever fails, exits or is terminated meanwhile.  Calls in a row
\* start a spec once, as "shellspec_apply_starts_autostart_specs_once"
\* (tests/native_manager.rs:833) says of two of them.
\* (live_running_record_by_spec_id, apply_rendered_shellspecs_blocking)
OnePerSpec ==
  \A i, j \in Shell :
    i # j /\ Running(i) /\ Running(j) /\ spec[i] = spec[j] => i \notin seen[j]

\* When a call with prune succeeds, no shell is left up that had an entry when
\* the call began and whose spec its document does not list, those that failed
\* calls left behind with an entry included, and whatever other calls do
\* meanwhile.  (live_records, apply_rendered_shellspecs_blocking)
Pruned ==
  \A a \in Applier : apc[a] = "applied" /\ pruning[a] =>
    \A i \in before[a] : state[i] = "up" => spec[i] \in listed[a]
=============================================================================
