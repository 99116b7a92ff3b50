------------------------ MODULE ShellspecApply_proofs ------------------------
(***************************************************************************)
(* Proofs about ShellspecApply, for any specs and shells, any number of    *)
(* threads that apply documents, and calls that overlap as they like.      *)
(***************************************************************************)
EXTENDS ShellspecApply, TLAPS

-----------------------------------------------------------------------------
(* The inductive invariant.                                                *)

\* A thread that waits for a probe has a shell to wait for.
ProbeInv == \A a \in Applier : apc[a] = "probe" => fresh[a] \in Shell

\* A shell that had an entry has one: entries are not taken away.
EntryInv ==
  /\ \A a \in Applier : before[a] \cup looked[a] \subseteq Entries
  /\ \A i \in Shell : seen[i] \subseteq Entries

\* A thread that looked for a running shell of its spec and found none spawns
\* one; meanwhile none of those it saw has come up.
LookInv ==
  \A a \in Applier : apc[a] = "spawn" =>
    \A i \in looked[a] : Running(i) => spec[i] # now[a]

\* While it prunes, what is still up of the shells it is to prune is among
\* those it will terminate.
PruneInv ==
  \A a \in Applier : apc[a] = "prune" =>
    \A i \in before[a] : state[i] = "up" => spec[i] \in listed[a] \/ i \in doomed[a]

TypeInv == TypeOK /\ ProbeInv

Inv == TypeInv /\ EntryInv /\ LookInv /\ PruneInv /\ OnePerSpec /\ Pruned

-----------------------------------------------------------------------------
(* Types.                                                                  *)

\* Terminating a shell changes at most its own state, from up to killed.
LEMMA TerminatedShell ==
  ASSUME TypeOK, NEW i
  PROVE  /\ Terminated(i) \in [Shell -> {"unborn", "up", "killed", "exited", "stray"}]
         /\ \A j \in Shell :
              /\ Terminated(i)[j] = "up" => state[j] = "up" /\ j # i
              /\ Terminated(i)[j] \in {"up", "killed"} <=> Running(j)
              /\ state[j] \notin {"unborn", "stray"} =>
                   Terminated(i)[j] \notin {"unborn", "stray"}
BY DEF TypeOK, Terminated, Running

LEMMA StepType ==
  ASSUME TypeInv, NEW a \in Applier, Step(a)
  PROVE  TypeInv'
<1>. USE DEF TypeInv, TypeOK, ProbeInv, shellVars, pastVars, Entries
<1>1. ASSUME NEW p \in SpecId, Look(a, p) PROVE TypeInv'
  BY <1>1 DEF Look
<1>2. ASSUME NEW i \in Shell, Spawn(a, i) PROVE TypeInv'
  BY <1>2 DEF Spawn
<1>3. ASSUME NEW i \in Shell, PruneNext(a, i) PROVE TypeInv'
  BY <1>3, TerminatedShell DEF PruneNext
<1>9. ASSUME NEW i \in Shell, SpawnFailsLate(a, i) PROVE TypeInv'
  BY <1>9 DEF SpawnFailsLate
<1>10. ASSUME NEW i \in Shell, PruneFails(a, i) PROVE TypeInv'
  BY <1>10, TerminatedShell DEF PruneFails
<1>4. CASE SpawnFails(a) \/ ProbeErrs(a) \/ EndPrune(a)
  BY <1>4 DEF SpawnFails, ProbeErrs, EndPrune
<1>5. CASE ProbeSucceeds(a)
  <2>1. fresh[a] \in Shell
    BY <1>5 DEF ProbeSucceeds
  <2>2. started' \in [Applier -> SUBSET Shell]
    BY <1>5, <2>1 DEF ProbeSucceeds
  <2>. QED
    BY <1>5, <2>2 DEF ProbeSucceeds
<1>6. CASE ProbeTimesOut(a)
  BY <1>6, TerminatedShell DEF ProbeTimesOut
<1>7. CASE BeginPrune(a)
  BY <1>7 DEF BeginPrune
<1>8. CASE Return(a)
  BY <1>8 DEF Return
<1>. QED
  BY <1>1, <1>2, <1>3, <1>4, <1>5, <1>6, <1>7, <1>8, <1>9, <1>10 DEF Step

LEMMA InitType == Init => TypeInv
BY CallsAssumption DEF Init, TypeInv, TypeOK, ProbeInv

LEMMA NextType == TypeInv /\ [Next]_vars => TypeInv'
<1>. SUFFICES ASSUME TypeInv, [Next]_vars PROVE TypeInv'
  OBVIOUS
<1>. USE DEF TypeInv, TypeOK, ProbeInv
<1>1. ASSUME NEW i \in Shell, ShellExits(i) \/ ClientTerminates(i) PROVE TypeInv'
  BY <1>1, TerminatedShell DEF ShellExits, ClientTerminates, callVars, pastVars
<1>2. ASSUME NEW a \in Applier, NEW all \in SUBSET SpecId, NEW auto \in SUBSET SpecId,
             NEW prune \in BOOLEAN, Apply(a, all, auto, prune)
      PROVE  TypeInv'
  <2>1. calls' \in 0..MaxCalls
    BY <1>2, CallsAssumption DEF Apply
  <2>2. /\ apc' = [apc EXCEPT ![a] = "next"]
        /\ listed' = [listed EXCEPT ![a] = all] /\ todo' = [todo EXCEPT ![a] = auto]
        /\ started' = [started EXCEPT ![a] = {}] /\ pruning' = [pruning EXCEPT ![a] = prune]
        /\ UNCHANGED <<state, spec, now, fresh, doomed, looked, seen>>
        /\ before' = [before EXCEPT ![a] = Entries]
    BY <1>2 DEF Apply, shellVars
  <2>3. listed' \in [Applier -> SUBSET SpecId] /\ todo' \in [Applier -> SUBSET SpecId]
    BY <2>2
  <2>4. started' \in [Applier -> SUBSET Shell] /\ pruning' \in [Applier -> BOOLEAN]
    BY <2>2
  <2>5. before' \in [Applier -> SUBSET Shell]
    BY <2>2 DEF Entries
  <2>. QED
    BY <2>1, <2>2, <2>3, <2>4, <2>5
<1>3. CASE UNCHANGED vars
  BY <1>3 DEF vars, shellVars, callVars, pastVars
<1>4. ASSUME NEW a \in Applier, Step(a) PROVE TypeInv'
  BY <1>4, StepType
<1>. QED
  <2>. HIDE DEF TypeInv, TypeOK, ProbeInv
  <2>. QED
    BY <1>1, <1>2, <1>3, <1>4 DEF Next

\* Every variable keeps its type, however many threads apply documents.
THEOREM ApplyTypeCorrect == Spec => []TypeOK
<1>1. TypeInv => TypeOK
  BY DEF TypeInv
<1>. QED
  BY <1>1, InitType, NextType, PTL DEF Spec

-----------------------------------------------------------------------------
(* Shells and calls.                                                       *)

\* What happens to a shell that has an entry: it never comes up again, and is
\* of the spec it was spawned for.
Later ==
  \A i \in Entries :
    /\ i \in Entries' /\ spec'[i] = spec[i]
    /\ state'[i] = "up" => state[i] = "up"
    /\ Running(i)' => Running(i)

\* The histories keep to the entries there are.
HistoryKept ==
  /\ \A a \in Applier : before'[a] \cup looked'[a] \subseteq Entries \cup before[a] \cup looked[a]
  /\ \A i \in Shell : seen'[i] \subseteq Entries

LEMMA EntriesKept == ASSUME Inv, Later, HistoryKept PROVE EntryInv'
BY DEF Inv, EntryInv, Later, HistoryKept

\* No shell is spawned: what holds of pairs of running shells still does.
LEMMA PairsKept ==
  ASSUME Inv, Later, seen' = seen, Entries' = Entries
  PROVE  OnePerSpec'
BY DEF Inv, Later, OnePerSpec, Running, Entries

\* A step of the world, or of another call, leaves a call's place alone.
LEMMA PlacesKept ==
  ASSUME Inv, Later, UNCHANGED <<apc, listed, now, pruning, doomed, before, looked>>
  PROVE  LookInv' /\ PruneInv' /\ Pruned'
BY DEF Inv, EntryInv, Later, LookInv, PruneInv, Pruned

LEMMA ShellInv ==
  ASSUME Inv, NEW i \in Shell, ShellExits(i) \/ ClientTerminates(i)
  PROVE  Inv'
<1>1. TypeInv'
  BY NextType DEF Inv, Next
<1>2. UNCHANGED <<spec, calls, callVars, pastVars>>
  BY DEF ShellExits, ClientTerminates
<1>3. Later /\ Entries' = Entries
  BY <1>2, TerminatedShell DEF Inv, TypeInv, TypeOK, ShellExits, ClientTerminates, Terminated,
                               Running, Later, Entries
<1>4. EntryInv' /\ OnePerSpec'
  BY <1>2, <1>3, EntriesKept, PairsKept DEF HistoryKept, pastVars, Inv, EntryInv
<1>5. LookInv' /\ PruneInv' /\ Pruned'
  BY <1>2, <1>3, PlacesKept DEF callVars, pastVars
<1>. QED
  BY <1>1, <1>4, <1>5 DEF Inv

\* A call that begins takes note of the entries there are.
LEMMA ApplyInv ==
  ASSUME Inv, NEW a \in Applier, NEW all \in SUBSET SpecId, NEW auto \in SUBSET SpecId,
         NEW prune \in BOOLEAN, Apply(a, all, auto, prune)
  PROVE  Inv'
<1>1. TypeInv' /\ TypeOK
  BY NextType DEF Inv, Next, TypeInv
<1>2. /\ UNCHANGED <<state, spec, seen, looked, now, doomed>>
      /\ before' = [before EXCEPT ![a] = Entries] /\ apc' = [apc EXCEPT ![a] = "next"]
      /\ listed' = [listed EXCEPT ![a] = all] /\ pruning' = [pruning EXCEPT ![a] = prune]
  BY DEF Apply, shellVars
<1>3. Later /\ Entries' = Entries
  BY <1>2 DEF Later, Entries, Running
<1>4. EntryInv' /\ OnePerSpec'
  <2>1. HistoryKept
    BY <1>1, <1>2 DEF HistoryKept, Inv, EntryInv, TypeOK
  <2>. QED
    BY <1>2, <1>3, <2>1, EntriesKept, PairsKept
<1>5. LookInv' /\ PruneInv' /\ Pruned'
  BY <1>1, <1>2 DEF Inv, TypeOK, LookInv, PruneInv, Pruned, Running
<1>. QED
  BY <1>1, <1>4, <1>5 DEF Inv

\* A shell comes up, or is left behind, only where the entry of another one
\* was not there when the caller looked, or is of another spec, or no longer
\* says Running.
LEMMA SpawnInv ==
  ASSUME Inv, TypeInv', NEW a \in Applier, NEW n \in Shell,
         apc[a] = "spawn", state[n] = "unborn",
         NEW left \in {"up", "stray"}, state' = [state EXCEPT ![n] = left],
         spec' = [spec EXCEPT ![n] = now[a]],
         NEW at \in {"probe", "failed"}, apc' = [apc EXCEPT ![a] = at],
         seen' = [seen EXCEPT ![n] = looked[a]],
         UNCHANGED <<listed, now, pruning, doomed, before, looked>>
  PROVE  Inv'
<1>1. TypeOK /\ n \notin Entries
  BY DEF Inv, TypeInv, Entries
<1>2. \A i \in Shell \ {n} : state'[i] = state[i] /\ spec'[i] = spec[i] /\ seen'[i] = seen[i]
  BY <1>1 DEF TypeOK
<1>3. spec'[n] = now[a] /\ seen'[n] = looked[a]
  BY <1>1 DEF TypeOK
<1>4. Later
  BY <1>1, <1>2 DEF Later, Entries, Running
<1>5. EntryInv'
  <2>1. HistoryKept
    BY <1>2, <1>3 DEF HistoryKept, Inv, EntryInv
  <2>. QED
    BY <1>4, <2>1, EntriesKept
<1>6. OnePerSpec'
  <2>1. SUFFICES ASSUME NEW i \in Shell, NEW j \in Shell, i # j, Running(i)', Running(j)',
                        spec'[i] = spec'[j], i \in seen'[j]
                 PROVE  FALSE
    BY DEF OnePerSpec
  <2>2. i # n
    BY <1>1, <1>2, <1>3, <2>1 DEF Inv, EntryInv
  <2>3. CASE j = n
    <3>1. i \in looked[a] /\ Running(i) /\ spec[i] = now[a]
      BY <1>2, <1>3, <2>1, <2>2, <2>3 DEF Running
    <3>. QED
      BY <3>1 DEF Inv, LookInv
  <2>4. CASE j # n
    <3>1. Running(i) /\ Running(j) /\ spec[i] = spec[j] /\ i \in seen[j]
      BY <1>2, <2>1, <2>2, <2>4 DEF Running
    <3>. QED
      BY <2>1, <3>1 DEF Inv, OnePerSpec
  <2>. QED
    BY <2>3, <2>4
<1>7. LookInv' /\ PruneInv' /\ Pruned'
  <2>1. ASSUME NEW b \in Applier, apc'[b] \in {"spawn", "prune", "applied"}
        PROVE  b # a /\ apc'[b] = apc[b]
    BY <1>1, <2>1 DEF TypeOK
  <2>. QED
    BY <1>4, <2>1 DEF Inv, EntryInv, Later, LookInv, PruneInv, Pruned
<1>. QED
  BY <1>5, <1>6, <1>7 DEF Inv

\* A call moves on and no shell is spawned.
LEMMA MoveInv ==
  ASSUME Inv, TypeInv', NEW a \in Applier, NEW at, apc' = [apc EXCEPT ![a] = at],
         at \notin {"spawn", "prune", "applied"},
         Later, Entries' = Entries, HistoryKept, seen' = seen,
         \A b \in Applier \ {a} :
           /\ now'[b] = now[b] /\ listed'[b] = listed[b] /\ pruning'[b] = pruning[b]
           /\ doomed'[b] = doomed[b] /\ before'[b] = before[b] /\ looked'[b] = looked[b]
  PROVE  Inv'
<1>1. EntryInv' /\ OnePerSpec'
  BY EntriesKept, PairsKept
<1>2. ASSUME NEW b \in Applier, apc'[b] \in {"spawn", "prune", "applied"}
      PROVE  b # a /\ apc'[b] = apc[b]
  BY <1>2 DEF Inv, TypeInv, TypeOK
<1>3. LookInv' /\ PruneInv' /\ Pruned'
  BY <1>2 DEF Inv, EntryInv, Later, LookInv, PruneInv, Pruned
<1>. QED
  BY <1>1, <1>3 DEF Inv

\* Terminating a shell, or failing to, takes no entry away.
LEMMA TerminatedLater ==
  ASSUME Inv, NEW i, state' \in {state, Terminated(i)}, spec' = spec
  PROVE  Later /\ Entries' = Entries
BY TerminatedShell DEF Inv, TypeInv, TypeOK, Terminated, Running, Later, Entries

LEMMA StepInv ==
  ASSUME Inv, NEW a \in Applier, Step(a)
  PROVE  Inv'
<1>0. TypeInv' /\ TypeOK /\ TypeOK'
  BY NextType DEF Inv, Next, TypeInv
<1>00. (UNCHANGED <<before, looked, seen>>) => HistoryKept
  BY DEF HistoryKept, Inv, EntryInv
<1>000. UNCHANGED shellVars => Later /\ Entries' = Entries
  BY DEF Later, Entries, Running, shellVars
<1>1. ASSUME NEW p \in SpecId, Look(a, p) PROVE Inv'
  <2>1. /\ UNCHANGED <<state, spec, listed, pruning, doomed, before, seen>> /\ apc[a] = "next"
        /\ looked' = [looked EXCEPT ![a] = Entries]
        /\ \/ LiveRunning(p) /\ UNCHANGED <<apc, now>>
           \/ /\ ~LiveRunning(p)
              /\ apc' = [apc EXCEPT ![a] = "spawn"] /\ now' = [now EXCEPT ![a] = p]
    BY <1>1 DEF Look, shellVars
  <2>2. EntryInv' /\ OnePerSpec'
    <3>1. HistoryKept
      BY <1>0, <2>1 DEF HistoryKept, Inv, EntryInv, TypeOK
    <3>. QED
      BY <1>000, <2>1, <3>1, EntriesKept, PairsKept DEF shellVars
  <2>3. LookInv'
    BY <1>0, <2>1 DEF Inv, LookInv, LiveRunning, Running, TypeOK, Entries
  <2>4. PruneInv' /\ Pruned'
    BY <1>0, <2>1 DEF Inv, PruneInv, Pruned, TypeOK
  <2>. QED
    BY <1>0, <2>2, <2>3, <2>4 DEF Inv
<1>2. ASSUME NEW i \in Shell, Spawn(a, i) PROVE Inv'
  BY <1>0, <1>2, SpawnInv DEF Spawn
<1>3. ASSUME NEW i \in Shell, SpawnFailsLate(a, i) PROVE Inv'
  BY <1>0, <1>3, SpawnInv DEF SpawnFailsLate
<1>4. ASSUME NEW i \in Shell, PruneNext(a, i) PROVE Inv'
  <2>1. /\ apc[a] = "prune" /\ UNCHANGED <<spec, apc, now, listed, pruning, before, looked, seen>>
        /\ doomed' = [doomed EXCEPT ![a] = @ \ {i}]
        /\ state' = Terminated(i)
    BY <1>4 DEF PruneNext, pastVars
  <2>2. Later /\ Entries' = Entries
    BY <2>1, TerminatedLater
  <2>3. EntryInv' /\ OnePerSpec'
    BY <1>00, <2>1, <2>2, EntriesKept, PairsKept
  <2>4. LookInv' /\ Pruned'
    BY <2>1, <2>2 DEF Inv, EntryInv, Later, LookInv, Pruned
  <2>5. ASSUME NEW b \in Applier, apc'[b] = "prune", NEW j \in before'[b], state'[j] = "up"
        PROVE  spec'[j] \in listed'[b] \/ j \in doomed'[b]
    <3>1. j \in Shell /\ state[j] = "up" /\ j # i /\ j \in before[b] /\ apc[b] = "prune"
      BY <1>0, <2>1, <2>5, TerminatedShell DEF TypeOK
    <3>2. spec[j] \in listed[b] \/ j \in doomed[b]
      BY <3>1 DEF Inv, PruneInv
    <3>. QED
      BY <1>0, <2>1, <3>1, <3>2 DEF TypeOK
  <2>. QED
    BY <1>0, <2>3, <2>4, <2>5 DEF Inv, PruneInv
<1>5. ASSUME NEW i \in Shell, PruneFails(a, i) PROVE Inv'
  <2>1. /\ UNCHANGED <<spec, now, listed, pruning, doomed, before, looked, seen>>
        /\ apc' = [apc EXCEPT ![a] = "failed"] /\ state' \in {state, Terminated(i)}
    BY <1>5 DEF PruneFails, pastVars
  <2>2. Later /\ Entries' = Entries
    BY <2>1, TerminatedLater
  <2>. QED
    BY <1>0, <1>00, <2>1, <2>2, MoveInv
<1>6. CASE SpawnFails(a) \/ ProbeSucceeds(a) \/ ProbeErrs(a)
  <2>1. /\ UNCHANGED <<shellVars, now, listed, pruning, doomed, before, looked, seen>>
        /\ \E at \in {"failed", "next", "erred"} : apc' = [apc EXCEPT ![a] = at]
    BY <1>6 DEF SpawnFails, ProbeSucceeds, ProbeErrs, pastVars
  <2>. QED
    BY <1>0, <1>00, <1>000, <2>1, MoveInv
<1>7. CASE Return(a)
  <2>1. /\ UNCHANGED <<shellVars, seen>> /\ apc' = [apc EXCEPT ![a] = "idle"]
        /\ now' = [now EXCEPT ![a] = None] /\ listed' = [listed EXCEPT ![a] = {}]
        /\ pruning' = [pruning EXCEPT ![a] = FALSE] /\ doomed' = [doomed EXCEPT ![a] = {}]
        /\ before' = [before EXCEPT ![a] = {}] /\ looked' = [looked EXCEPT ![a] = {}]
    BY <1>7 DEF Return
  <2>2. HistoryKept
    BY <1>0, <2>1 DEF HistoryKept, Inv, EntryInv, TypeOK
  <2>. QED
    BY <1>0, <1>000, <2>1, <2>2, MoveInv DEF TypeOK
<1>8. CASE ProbeTimesOut(a)
  <2>1. /\ UNCHANGED <<spec, now, listed, pruning, doomed, before, looked, seen>>
        /\ apc' = [apc EXCEPT ![a] = "failed"] /\ state' \in {state, Terminated(fresh[a])}
    BY <1>8 DEF ProbeTimesOut, pastVars
  <2>2. Later /\ Entries' = Entries
    BY <2>1, TerminatedLater
  <2>. QED
    BY <1>0, <1>00, <2>1, <2>2, MoveInv
<1>9. CASE BeginPrune(a) \/ EndPrune(a)
  <2>1. /\ UNCHANGED <<state, spec, now, listed, pruning, before, looked, seen>>
        /\ \A b \in Applier \ {a} : apc'[b] = apc[b] /\ doomed'[b] = doomed[b]
    BY <1>0, <1>9 DEF BeginPrune, EndPrune, shellVars, pastVars, TypeOK
  <2>2. \/ /\ apc'[a] = IF pruning[a] THEN "prune" ELSE "applied"
           /\ doomed'[a] = {i \in Entries : pruning[a] /\ spec[i] \notin listed[a]}
        \/ apc[a] = "prune" /\ doomed[a] = {} /\ apc'[a] = "applied"
    BY <1>0, <1>9 DEF BeginPrune, EndPrune, TypeOK
  <2>3. EntryInv' /\ OnePerSpec'
    BY <1>00, <1>000, <2>1, EntriesKept, PairsKept DEF shellVars
  <2>4. LookInv'
    BY <2>1, <2>2 DEF Inv, LookInv, Running
  <2>5. PruneInv' /\ Pruned'
    BY <2>1, <2>2 DEF Inv, EntryInv, PruneInv, Pruned
  <2>. QED
    BY <1>0, <2>3, <2>4, <2>5 DEF Inv
<1>. QED
  BY <1>1, <1>2, <1>3, <1>4, <1>5, <1>6, <1>7, <1>8, <1>9 DEF Step

THEOREM ApplyInvariance == Spec => []Inv
<1>1. Init => Inv
  BY InitType DEF Init, Inv, EntryInv, LookInv, PruneInv, OnePerSpec, Pruned, Running
<1>2. Inv /\ [Next]_vars => Inv'
  <2>. SUFFICES ASSUME Inv, [Next]_vars PROVE Inv'
    OBVIOUS
  <2>1. CASE UNCHANGED vars
    BY <2>1, NextType DEF Inv, EntryInv, LookInv, PruneInv, OnePerSpec, Pruned, Running,
                          Entries, vars, shellVars, callVars, pastVars
  <2>. QED
    BY <2>1, ShellInv, ApplyInv, StepInv DEF Next
<1>. QED
  BY <1>1, <1>2, PTL DEF Spec

\* Documents that are applied at once or one after the other come to have two
\* running shells of one spec only when each of the calls that spawned them had
\* looked before the other spawned (apply_rendered_shellspecs_blocking).
THEOREM OnePerSpecAlways == Spec => []OnePerSpec
<1>1. Inv => OnePerSpec
  BY DEF Inv
<1>. QED
  BY <1>1, ApplyInvariance, PTL

\* When a call with prune succeeds, no shell of an unlisted spec is up that had
\* an entry when the call began, whatever other calls do meanwhile.
THEOREM PrunedAlways == Spec => []Pruned
<1>1. Inv => Pruned
  BY DEF Inv
<1>. QED
  BY <1>1, ApplyInvariance, PTL
=============================================================================
