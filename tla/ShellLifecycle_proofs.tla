------------------------ MODULE ShellLifecycle_proofs ------------------------
(***************************************************************************)
(* Proofs about ShellLifecycle, for every set of shells and clients and    *)
(* every bound.                                                            *)
(***************************************************************************)
EXTENDS MCShellLifecycle, FiniteSetTheorems, WellFoundedInduction, TLAPS

-----------------------------------------------------------------------------
(* The inductive invariant.                                                *)

\* What a client thread in a call may rely on: a call past its first step has
\* a target, except a shutdown on its way; a shell that is about to be called
\* Exited or to be purged is dead; and who is signalled was asked for.
HasTarget == {"kill", "load", "check", "signal", "await", "mark", "markdisk",
              "publish", "update"}

ClientOK(c) ==
  /\ call[c].pc \in HasTarget => call[c].tgt \in Shell
  /\ call[c].pc = "kill" => spc[call[c].tgt] # "idle"
  /\ call[c].pc \in {"mark", "markdisk", "publish"} => Dead(call[c].tgt)
  /\ call[c].pc \in HasTarget \ {"update"} => call[c].tgt \in asked
  /\ call[c].pc # "purge" => call[c].todo \subseteq asked
  /\ call[c].pc = "purge" => \A s \in call[c].todo : Dead(s)
  /\ call[c].surv \subseteq asked

ClientInv == \A c \in Client : ClientOK(c)

\* Nothing happened to a shell before it was forked, and the process that
\* forked it is this one or an earlier one.
BornInv ==
  \A s \in Shell :
    /\ home[s] <= gen
    /\ spc[s] = "idle" => os[s] = "unborn" /\ home[s] = 0 /\ sig[s] = {}
    /\ spc[s] # "idle" => os[s] # "unborn" /\ home[s] >= 1

\* An entry is there exactly from the insertion to the end of the process, and
\* its record was written before and only taken away from a dead child.
SpawnInv ==
  \A s \in Shell :
    /\ entry[s] # None => spc[s] \in {"inserted", "watched", "done"}
    /\ spc[s] \in {"persisted", "inserted", "watched", "done", "inherited"}
         => disk[s] # None \/ Dead(s)

\* The exit code of a shell that nobody asked to stop is the one the reactor
\* makes of its child's end.
CodeInv ==
  \A s \in Shell :
    HasStatus(entry[s], "Exited") /\ s \notin asked => entry[s].code = ReactorCode(s)

\* What the reactor remembers of a shell it is about to call Exited.
GoneInv == (\A s \in found : Dead(s)) /\ (rpub # None => Dead(rpub))

Inv ==
  /\ TypeOK /\ BornInv /\ SpawnInv /\ GoneInv /\ ClientInv /\ CodeInv
  /\ ExitedIsDead /\ RunningIsWatched /\ DiskNotStale /\ KillScope

-----------------------------------------------------------------------------
(* Types.                                                                  *)

LEMMA RecordType ==
  /\ \A s \in Shell : NewRecord(s) \in Record
  /\ \A r \in Record, c \in Code :
       Exited(r, c) \in Record /\ Exited(r, c).status = "Exited"
  /\ \A r \in Record : [r EXCEPT !.stdin = FALSE] \in Record
  /\ Adopted \in Record
<1>1. \A s \in Shell : NewRecord(s) \in Record
  <2>1. TAKE s \in Shell
  <2>2. (s \in Piped) \in BOOLEAN
    OBVIOUS
  <2>3. "Running" \in Status /\ "null" \in Code
    BY DEF Status, Code
  <2>. QED
    BY <2>2, <2>3, Zenon DEF Record, NewRecord
<1>2. \A r \in Record, c \in Code :
        Exited(r, c) \in Record /\ Exited(r, c).status = "Exited"
  BY DEF Record, Exited, Status
<1>3. \A r \in Record : [r EXCEPT !.stdin = FALSE] \in Record
  BY DEF Record
<1>4. Adopted \in Record
  BY DEF Record, Adopted, Status, Code
<1>. QED
  BY <1>1, <1>2, <1>3, <1>4

LEMMA IdleType == Idle \in CallState
BY DEF Idle, CallState, ClientPc, Code

LEMMA UntoldType == Untold \in Told
BY DEF Untold, Told

LEMMA PublishType ==
  ASSUME told \in [Shell -> Told], NEW s \in Shell,
         NEW kind \in {"Spawned", "Updated", "Exited"}, Publish(s, kind)
  PROVE  told' \in [Shell -> Told]
<1>. DEFINE new == [first  |-> IF told[s].first = None THEN kind ELSE told[s].first,
                    exited |-> told[s].exited \/ kind = "Exited"]
<1>1. told[s].first \in {"Spawned", "Updated", "Exited", None}
      /\ told[s].exited \in BOOLEAN
  BY DEF Told
<1>2. new \in Told
  <2>1. (told[s].exited \/ kind = "Exited") \in BOOLEAN
    OBVIOUS
  <2>. QED
    BY <1>1, <2>1, Zenon DEF Told
<1>3. told' = [told EXCEPT ![s] = new]
  BY Zenon DEF Publish
<1>. QED
  BY <1>2, <1>3, Zenon

\* Init gives every variable a value of its type.
LEMMA InitType == Init => TypeOK
<1>. SUFFICES ASSUME Init PROVE TypeOK
  OBVIOUS
<1>1. /\ os \in [Shell -> {"unborn", "live", "zombie", "reaped"}]
      /\ cause \in [Shell -> {"none", "own", "signal"}]
      /\ sig \in [Shell -> SUBSET {"TERM", "KILL"}]
      /\ home \in [Shell -> 0..MaxGen]
      /\ disk \in [Shell -> Record \cup {None}]
      /\ faults \in 0..MaxFaults
      /\ gen \in 1..MaxGen
  BY BoundsAssumption DEF Init
<1>2. /\ entry \in [Shell -> Record \cup {None}]
      /\ spc \in [Shell -> SpawnPc]
      /\ queued \subseteq Shell /\ watched \subseteq Shell /\ found \subseteq Shell
      /\ rpub \in Shell \cup {None}
      /\ asked \subseteq Shell
  BY DEF Init, SpawnPc
<1>3. call \in [Client -> CallState] /\ told \in [Shell -> Told]
  BY IdleType, UntoldType DEF Init
<1>. QED
  BY <1>1, <1>2, <1>3 DEF TypeOK

\* The steps of the operating system, the spawning threads and the reactor.
LEMMA OsType ==
  ASSUME TypeOK, NEW s \in Shell, NEW why \in {"own", "signal"}, ChildDies(s, why)
  PROVE  TypeOK'
BY DEF TypeOK, ChildDies, storeVars, mgrVars, reactorVars

LEMMA SpawnType ==
  ASSUME TypeOK, NEW s \in Shell, SpawnLaunch(s) \/ SpawnContinue(s)
  PROVE  TypeOK'
<1>1. CASE SpawnLaunch(s)
  <2>1. gen \in 0..MaxGen /\ "launched" \in SpawnPc
    BY BoundsAssumption DEF TypeOK, SpawnPc
  <2>. QED
    BY <1>1, <2>1 DEF TypeOK, SpawnLaunch, storeVars, reactorVars
<1>2. CASE SpawnPersist(s)
  <2>1. NewRecord(s) \in Record /\ "persisted" \in SpawnPc
    BY RecordType DEF SpawnPc
  <2>. QED
    BY <1>2, <2>1 DEF TypeOK, SpawnPersist, Persist, osVars, reactorVars
<1>3. CASE SpawnPersistFails(s)
  <2>1. faults' \in 0..MaxFaults /\ "untracked" \in SpawnPc
    BY <1>3, BoundsAssumption DEF TypeOK, SpawnPersistFails, PersistFails, SpawnPc
  <2>. QED
    BY <1>3, <2>1 DEF TypeOK, SpawnPersistFails, PersistFails, osVars, reactorVars
<1>4. CASE SpawnInsert(s)
  <2>1. NewRecord(s) \in Record /\ "inserted" \in SpawnPc
    BY RecordType DEF SpawnPc
  <2>. QED
    BY <1>4, <2>1 DEF TypeOK, SpawnInsert, osVars, storeVars, reactorVars
<1>5. CASE SpawnWatch(s)
  BY <1>5 DEF TypeOK, SpawnWatch, SpawnPc, osVars, storeVars
<1>6. CASE SpawnPublish(s)
  <2>1. told' \in [Shell -> Told]
    BY <1>6, PublishType DEF TypeOK, SpawnPublish
  <2>. QED
    BY <1>6, <2>1 DEF TypeOK, SpawnPublish, SpawnPc, osVars, storeVars, reactorVars
<1>. QED
  BY <1>1, <1>2, <1>3, <1>4, <1>5, <1>6 DEF SpawnContinue

\* A write of a record, done or failed, leaves the store well typed.
LEMMA StoreType ==
  ASSUME disk \in [Shell -> Record \cup {None}], faults \in 0..MaxFaults,
         NEW s \in Shell, NEW r \in Record, Persist(s, r) \/ PersistFails
  PROVE  disk' \in [Shell -> Record \cup {None}] /\ faults' \in 0..MaxFaults
BY BoundsAssumption DEF Persist, PersistFails

LEMMA ReactorType ==
  ASSUME TypeOK, Reactor
  PROVE  TypeOK'
<1>1. CASE ReactorReceive
  BY <1>1 DEF TypeOK, ReactorReceive, osVars, storeVars, mgrVars
<1>2. CASE ReactorScan
  BY <1>2 DEF TypeOK, ReactorScan, storeVars, mgrVars
<1>3. CASE ReactorPublish
  <2>1. rpub \in Shell
    BY <1>3 DEF TypeOK, ReactorPublish
  <2>2. told' \in [Shell -> Told]
    BY <1>3, <2>1, PublishType DEF TypeOK, ReactorPublish
  <2>. QED
    BY <1>3, <2>2 DEF TypeOK, ReactorPublish, osVars, storeVars, mgrVars
<1>4. ASSUME NEW s \in Shell, ReactorRecord(s) PROVE TypeOK'
  <2>1. CASE entry[s] = None
    BY <1>4, <2>1 DEF TypeOK, ReactorRecord, osVars, storeVars
  <2>2. CASE entry[s] # None
    <3>. DEFINE r == Exited(entry[s], ReactorCode(s))
    <3>1. entry[s] \in Record /\ ReactorCode(s) \in Code
      BY <2>2 DEF TypeOK, ReactorCode, Code
    <3>2. r \in Record
      BY <3>1, RecordType
    <3>3. (Persist(s, r) \/ PersistFails) /\ entry' = [entry EXCEPT ![s] = r] /\ rpub' = s
      BY <1>4, <2>2 DEF ReactorRecord
    <3>4. disk' \in [Shell -> Record \cup {None}] /\ faults' \in 0..MaxFaults
      BY <3>2, <3>3, StoreType DEF TypeOK
    <3>. HIDE DEF r
    <3>5. entry' \in [Shell -> Record \cup {None}]
      BY <3>2, <3>3 DEF TypeOK
    <3>. QED
      BY <1>4, <3>3, <3>4, <3>5 DEF TypeOK, ReactorRecord, osVars
  <2>. QED
    BY <2>1, <2>2
<1>. QED
  BY <1>1, <1>2, <1>3, <1>4 DEF Reactor

\* The steps of the client threads.  Most only move the call on.
LEMMA CallFields ==
  ASSUME NEW k \in CallState, NEW l \in ClientPc
  PROVE  /\ [k EXCEPT !.pc = l] \in CallState
         /\ \A s \in Shell : [k EXCEPT !.pc = l, !.tgt = s] \in CallState
         /\ \A d \in Code : [k EXCEPT !.pc = l, !.code = d] \in CallState
         /\ \A T \in SUBSET Shell :
              /\ [k EXCEPT !.todo = T] \in CallState
              /\ [k EXCEPT !.pc = l, !.todo = T] \in CallState
              /\ [k EXCEPT !.pc = l, !.surv = T] \in CallState
         /\ \A s \in Shell, d \in Code, T \in SUBSET Shell :
              [k EXCEPT !.pc = l, !.tgt = s, !.code = d, !.todo = T] \in CallState
BY DEF CallState

LEMMA PcType ==
  /\ "load" \in ClientPc /\ "kill" \in ClientPc /\ "mark" \in ClientPc
  /\ "term" \in ClientPc /\ "escalate" \in ClientPc /\ "sweep" \in ClientPc
  /\ "update" \in ClientPc /\ "purge" \in ClientPc
  /\ "-9" \in Code /\ "-15" \in Code
BY DEF ClientPc, Code

LEMMA CallUpdateType ==
  ASSUME call \in [Client -> CallState], NEW c \in Client, NEW k \in CallState,
         call' = [call EXCEPT ![c] = k]
  PROVE  call' \in [Client -> CallState]
OBVIOUS

LEMMA ReturnType ==
  ASSUME call \in [Client -> CallState], NEW c \in Client, Return(c)
  PROVE  call' \in [Client -> CallState]
BY IdleType DEF Return

LEMMA GotoType ==
  ASSUME call \in [Client -> CallState], NEW c \in Client, NEW l \in ClientPc,
         Goto(c, l)
  PROVE  call' \in [Client -> CallState]
BY DEF Goto, CallState

LEMMA ResumeType ==
  ASSUME call \in [Client -> CallState], NEW c \in Client,
         NEW rest \in SUBSET Shell, Resume(c, rest)
  PROVE  call' \in [Client -> CallState]
<1>0. call \in [Client -> CallState] /\ call[c] \in CallState
  OBVIOUS
<1>1. CASE rest = {}
  BY <1>1, ReturnType DEF Resume
<1>2. CASE rest # {}
  <2>1. [call[c] EXCEPT !.pc = "sweep", !.todo = rest] \in CallState
    BY <1>0, CallFields, PcType, Zenon
  <2>. QED
    BY <1>2, <2>1, CallUpdateType, Zenon DEF Resume
<1>. QED
  BY <1>1, <1>2

LEMMA ToMarkType ==
  ASSUME call \in [Client -> CallState], NEW c \in Client, NEW s \in Shell,
         NEW d \in Code, ToMark(c, s, d)
  PROVE  call' \in [Client -> CallState]
<1>0. call \in [Client -> CallState] /\ call[c] \in CallState
  OBVIOUS
<1>1. call[c].todo \ {s} \in SUBSET Shell
  BY DEF CallState
<1>2. [call[c] EXCEPT !.pc = "mark", !.tgt = s, !.code = d, !.todo = call[c].todo \ {s}]
        \in CallState
  BY <1>1, <1>0, CallFields, PcType, Zenon
<1>. QED
  BY <1>2, CallUpdateType, Zenon DEF ToMark

LEMMA CallType ==
  ASSUME TypeOK, NEW c \in Client, Call(c)
  PROVE  TypeOK'
<1>0. call \in [Client -> CallState] /\ call[c] \in CallState
  BY DEF TypeOK
<1>1. ASSUME NEW s \in Shell, TerminateLookup(c, s) PROVE TypeOK'
  <2>. DEFINE k == [call[c] EXCEPT !.pc = IF entry[s] = None THEN "load" ELSE "kill",
                                   !.tgt = s]
  <2>1. k \in CallState
    BY <1>0, CallFields, PcType, Zenon
  <2>2. call' = [call EXCEPT ![c] = k]
    BY <1>1 DEF TerminateLookup
  <2>3. call' \in [Client -> CallState]
    BY <2>1, <2>2, <1>0, CallUpdateType, Zenon
  <2>. QED
    BY <1>1, <2>3 DEF TypeOK, TerminateLookup, osVars, storeVars, mgrVars, reactorVars
<1>2. ASSUME NEW s \in Shell, Eof(c, s) PROVE TypeOK'
  <2>. DEFINE r == [entry[s] EXCEPT !.stdin = FALSE]
  <2>1. r \in Record
    BY <1>2, RecordType DEF TypeOK, Eof
  <2>2. /\ entry' = [entry EXCEPT ![s] = r]
        /\ Persist(s, r) \/ PersistFails
        /\ \/ call' = [call EXCEPT ![c] = [@ EXCEPT !.pc = "update", !.tgt = s]]
           \/ call' = call
        /\ UNCHANGED <<osVars, gen, spc, reactorVars, told, asked>>
    BY <1>2 DEF Eof
  <2>. HIDE DEF r
  <2>3. call' \in [Client -> CallState]
    <3>1. [call[c] EXCEPT !.pc = "update", !.tgt = s] \in CallState
      BY <1>0, CallFields, PcType, Zenon
    <3>. QED
      BY <2>2, <3>1, <1>0, CallUpdateType, Zenon
  <2>4. disk' \in [Shell -> Record \cup {None}] /\ faults' \in 0..MaxFaults
    BY <2>1, <2>2, StoreType DEF TypeOK
  <2>5. entry' \in [Shell -> Record \cup {None}]
    BY <2>1, <2>2 DEF TypeOK
  <2>. QED
    BY <2>2, <2>3, <2>4, <2>5 DEF TypeOK, osVars, reactorVars
<1>3. ASSUME NEW targets \in SUBSET Shell, ShutdownBegin(c, targets) PROVE TypeOK'
  <2>1. call' \in [Client -> CallState]
    <3>1. [call[c] EXCEPT !.pc = "term", !.todo = targets] \in CallState
      BY <1>0, CallFields, PcType, Zenon
    <3>. QED
      BY <1>3, <3>1, <1>0, CallUpdateType, Zenon DEF ShutdownBegin
  <2>. QED
    BY <1>3, <2>1 DEF TypeOK, ShutdownBegin, osVars, storeVars, mgrVars, reactorVars
<1>4. ASSUME NEW targets \in SUBSET Shell, PurgeBegin(c, targets) PROVE TypeOK'
  <2>1. call' \in [Client -> CallState]
    <3>1. [call[c] EXCEPT !.pc = "purge", !.todo = targets] \in CallState
      BY <1>0, CallFields, PcType, Zenon
    <3>. QED
      BY <1>4, <3>1, <1>0, CallUpdateType, Zenon DEF PurgeBegin
  <2>. QED
    BY <1>4, <2>1 DEF TypeOK, PurgeBegin, osVars, storeVars, mgrVars, reactorVars
<1>. QED
  BY <1>1, <1>2, <1>3, <1>4 DEF Call

LEMMA ContinueType ==
  ASSUME TypeOK, ClientInv, None \notin Shell, NEW c \in Client, Continue(c)
  PROVE  TypeOK'
<1>0. call \in [Client -> CallState] /\ call[c] \in CallState
  BY DEF TypeOK
<1>. USE DEF osVars, storeVars, mgrVars, reactorVars
<1>1. CASE TerminateChild(c)
  <2>1. call[c].tgt \in Shell
    BY <1>1 DEF ClientInv, ClientOK, HasTarget, TerminateChild, At
  <2>2. call' \in [Client -> CallState]
    BY <1>1, ReturnType DEF TypeOK, TerminateChild
  <2>3. sig' \in [Shell -> SUBSET {"TERM", "KILL"}]
        /\ os' \in [Shell -> {"unborn", "live", "zombie", "reaped"}]
    BY <1>1, <2>1 DEF TypeOK, TerminateChild
  <2>. QED
    BY <1>1, <2>2, <2>3 DEF TypeOK, TerminateChild
<1>2. CASE TerminateLoad(c)
  <2>1. Goto(c, "check") \/ Return(c)
    BY <1>2 DEF TerminateLoad
  <2>2. call' \in [Client -> CallState]
    BY <2>1, GotoType, ReturnType DEF TypeOK, ClientPc
  <2>. QED
    BY <1>2, <2>2 DEF TypeOK, TerminateLoad
<1>3. CASE TerminateCheck(c)
  <2>1. call' \in [Client -> CallState]
    BY <1>3, GotoType DEF TypeOK, TerminateCheck, ClientPc
  <2>. QED
    BY <1>3, <2>1 DEF TypeOK, TerminateCheck
<1>4. CASE TerminateSignal(c)
  <2>1. call' \in [Client -> CallState]
    BY <1>4, GotoType DEF TypeOK, TerminateSignal, ClientPc
  <2>2. sig' \in [Shell -> SUBSET {"TERM", "KILL"}]
    BY <1>4 DEF TypeOK, TerminateSignal
  <2>. QED
    BY <1>4, <2>1, <2>2 DEF TypeOK, TerminateSignal
<1>5. CASE TerminateAwait(c)
  <2>1. call' \in [Client -> CallState]
    <3>1. [call[c] EXCEPT !.pc = "mark", !.code = "-9"] \in CallState
      BY <1>0, CallFields, PcType, Zenon
    <3>. QED
      BY <1>5, <3>1, ReturnType, <1>0, CallUpdateType, Zenon DEF TerminateAwait
  <2>. QED
    BY <1>5, <2>1 DEF TypeOK, TerminateAwait
<1>6. CASE ShutdownTerm(c)
  <2>. DEFINE T == {s \in call[c].todo : os[s] = "live"}
  <2>1. call' \in [Client -> CallState]
    <3>1. T \in SUBSET Shell
      BY DEF TypeOK, CallState
    <3>2. [call[c] EXCEPT !.pc = "escalate", !.surv = T] \in CallState
      BY <3>1, <1>0, CallFields, PcType, Zenon
    <3>. QED
      BY <1>6, <3>2, <1>0, CallUpdateType, Zenon DEF ShutdownTerm
  <2>2. sig' \in [Shell -> SUBSET {"TERM", "KILL"}]
    BY <1>6 DEF TypeOK, ShutdownTerm
  <2>. QED
    BY <1>6, <2>1, <2>2 DEF TypeOK, ShutdownTerm
<1>7. CASE ShutdownEscalate(c)
  <2>. DEFINE T == {s \in call[c].surv : os[s] = "live"}
  <2>1. call' \in [Client -> CallState]
    <3>1. T \in SUBSET Shell
      BY DEF TypeOK, CallState
    <3>2. [call[c] EXCEPT !.pc = "sweep", !.surv = T] \in CallState
      BY <3>1, <1>0, CallFields, PcType, Zenon
    <3>. QED
      BY <1>7, <3>2, <1>0, CallUpdateType, Zenon DEF ShutdownEscalate
  <2>2. sig' \in [Shell -> SUBSET {"TERM", "KILL"}]
    BY <1>7 DEF TypeOK, ShutdownEscalate
  <2>. QED
    BY <1>7, <2>1, <2>2 DEF TypeOK, ShutdownEscalate
<1>8. ASSUME NEW s \in Shell, ShutdownSweep(c, s) PROVE TypeOK'
  <2>1. CASE Dead(s)
    <3>1. call' \in [Client -> CallState]
      BY <1>8, <2>1, ToMarkType DEF TypeOK, ShutdownSweep, Code
    <3>. QED
      BY <1>8, <3>1 DEF TypeOK, ShutdownSweep
  <2>2. CASE ~Dead(s)
    <3>1. call[c].todo \ {s} \in SUBSET Shell
      BY DEF TypeOK, CallState
    <3>2. call' \in [Client -> CallState]
      BY <1>8, <2>2, <3>1, ResumeType DEF TypeOK, ShutdownSweep
    <3>. QED
      BY <1>8, <3>2 DEF TypeOK, ShutdownSweep
  <2>. QED
    BY <2>1, <2>2
<1>9. CASE MarkEntry(c)
  <2>. DEFINE s == call[c].tgt
              r == Exited(entry[s], call[c].code)
  <2>1. s \in Shell /\ call[c].code \in Code /\ call[c].todo \in SUBSET Shell
    BY <1>9 DEF TypeOK, CallState, ClientInv, ClientOK, HasTarget, MarkEntry, At
  <2>2. r \in Record
    BY <1>9, <2>1, RecordType DEF TypeOK, MarkEntry
  <2>3. /\ entry' = [entry EXCEPT ![s] = r]
        /\ Persist(s, r) \/ PersistFails
        /\ Goto(c, "publish") \/ Resume(c, call[c].todo)
        /\ UNCHANGED <<osVars, gen, spc, reactorVars, told, asked>>
    BY <1>9 DEF MarkEntry
  <2>. HIDE DEF r, s
  <2>4. call' \in [Client -> CallState]
    BY <2>1, <2>3, GotoType, ResumeType DEF TypeOK, ClientPc
  <2>5. disk' \in [Shell -> Record \cup {None}] /\ faults' \in 0..MaxFaults
    BY <2>1, <2>2, <2>3, StoreType DEF TypeOK
  <2>6. entry' \in [Shell -> Record \cup {None}]
    BY <2>1, <2>2, <2>3 DEF TypeOK
  <2>. QED
    BY <2>3, <2>4, <2>5, <2>6 DEF TypeOK
<1>10. CASE MarkNoEntry(c)
  <2>1. call' \in [Client -> CallState]
    BY <1>10, GotoType DEF TypeOK, MarkNoEntry, ClientPc
  <2>. QED
    BY <1>10, <2>1 DEF TypeOK, MarkNoEntry
<1>11. CASE MarkDisk(c)
  <2>. DEFINE s == call[c].tgt
              r == Exited(Adopted, call[c].code)
  <2>1. s \in Shell /\ call[c].code \in Code /\ call[c].todo \in SUBSET Shell
    BY <1>11 DEF TypeOK, CallState, ClientInv, ClientOK, HasTarget, MarkDisk, At
  <2>2. r \in Record
    BY <2>1, RecordType
  <2>3. /\ Persist(s, r) \/ PersistFails
        /\ Goto(c, "publish") \/ Resume(c, call[c].todo)
        /\ UNCHANGED <<osVars, mgrVars, reactorVars, told, asked>>
    BY <1>11 DEF MarkDisk
  <2>. HIDE DEF r, s
  <2>4. call' \in [Client -> CallState]
    BY <2>1, <2>3, GotoType, ResumeType DEF TypeOK, ClientPc
  <2>5. disk' \in [Shell -> Record \cup {None}] /\ faults' \in 0..MaxFaults
    BY <2>1, <2>2, <2>3, StoreType DEF TypeOK
  <2>. QED
    BY <2>3, <2>4, <2>5 DEF TypeOK
<1>12. CASE MarkPublish(c)
  <2>1. call[c].tgt \in Shell /\ call[c].todo \in SUBSET Shell
    BY <1>12 DEF TypeOK, CallState, ClientInv, ClientOK, HasTarget, MarkPublish, At
  <2>2. told' \in [Shell -> Told]
    BY <1>12, <2>1, PublishType DEF TypeOK, MarkPublish
  <2>3. call' \in [Client -> CallState]
    BY <1>12, <2>1, ResumeType DEF TypeOK, MarkPublish
  <2>. QED
    BY <1>12, <2>2, <2>3 DEF TypeOK, MarkPublish
<1>13. CASE EofPublish(c)
  <2>1. call[c].tgt \in Shell
    BY <1>13 DEF ClientInv, ClientOK, HasTarget, EofPublish, At
  <2>2. told' \in [Shell -> Told]
    BY <1>13, <2>1, PublishType DEF TypeOK, EofPublish
  <2>3. call' \in [Client -> CallState]
    BY <1>13, ReturnType DEF TypeOK, EofPublish
  <2>. QED
    BY <1>13, <2>2, <2>3 DEF TypeOK, EofPublish
<1>14. ASSUME NEW s \in Shell, PurgeNext(c, s) PROVE TypeOK'
  <2>. DEFINE rest == call[c].todo \ {s}
  <2>1. call' \in [Client -> CallState]
    <3>1. rest \in SUBSET Shell
      BY DEF TypeOK, CallState
    <3>2. [call[c] EXCEPT !.todo = rest] \in CallState
      BY <3>1, <1>0, CallFields, PcType, Zenon
    <3>3. Return(c) \/ call' = [call EXCEPT ![c] = [call[c] EXCEPT !.todo = rest]]
      BY <1>14 DEF PurgeNext
    <3>. QED
      BY <3>2, <3>3, <1>0, ReturnType, CallUpdateType, Zenon
  <2>2. disk' \in [Shell -> Record \cup {None}]
    BY <1>14 DEF TypeOK, PurgeNext
  <2>. QED
    BY <1>14, <2>1, <2>2 DEF TypeOK, PurgeNext
<1>. QED
  BY <1>1, <1>2, <1>3, <1>4, <1>5, <1>6, <1>7, <1>8, <1>9, <1>10, <1>11, <1>12,
     <1>13, <1>14 DEF Continue

LEMMA CrashType ==
  ASSUME TypeOK, Crash
  PROVE  TypeOK'
<1>1. /\ gen' \in 1..MaxGen
      /\ os' \in [Shell -> {"unborn", "live", "zombie", "reaped"}]
      /\ entry' \in [Shell -> Record \cup {None}]
  BY BoundsAssumption DEF TypeOK, Crash
<1>2. spc' \in [Shell -> SpawnPc]
  BY DEF TypeOK, Crash, SpawnPc
<1>3. call' \in [Client -> CallState] /\ told' \in [Shell -> Told]
  BY IdleType, UntoldType DEF Crash
<1>. QED
  BY <1>1, <1>2, <1>3 DEF TypeOK, Crash, storeVars

LEMMA NextType ==
  ASSUME TypeOK, ClientInv, Next
  PROVE  TypeOK'
BY NoneAssumption, OsType, SpawnType, ReactorType, CallType, ContinueType, CrashType
   DEF Next

-----------------------------------------------------------------------------
(* What the steps leave alone, and what becomes of a call.                 *)

LEMMA SpawnFrame ==
  ASSUME NEW s \in Shell, SpawnContinue(s)
  PROVE  UNCHANGED <<os, cause, sig, home, gen, watched, found, rpub, call, asked>>
BY DEF SpawnContinue, SpawnPersist, SpawnPersistFails, SpawnInsert, SpawnWatch,
       SpawnPublish, osVars, reactorVars

LEMMA ReactorFrame ==
  ASSUME Reactor
  PROVE  UNCHANGED <<cause, sig, home, gen, spc, call, asked>>
BY DEF Reactor, ReactorReceive, ReactorScan, ReactorRecord, ReactorPublish, osVars,
       mgrVars

LEMMA CallFrame ==
  ASSUME NEW c \in Client, Call(c)
  PROVE  UNCHANGED <<os, cause, sig, home, gen, spc, queued, watched, found, rpub, told>>
BY DEF Call, TerminateLookup, Eof, ShutdownBegin, PurgeBegin, osVars, mgrVars, reactorVars

LEMMA ContinueFrame ==
  ASSUME NEW c \in Client, Continue(c)
  PROVE  UNCHANGED <<cause, home, gen, spc, queued, watched, found, rpub, asked>>
BY DEF Continue, TerminateChild, TerminateLoad, TerminateCheck, TerminateSignal,
       TerminateAwait, ShutdownTerm, ShutdownEscalate, ShutdownSweep, MarkEntry,
       MarkNoEntry, MarkDisk, MarkPublish, EofPublish, PurgeNext, osVars, mgrVars, reactorVars

\* Nothing but TerminateChild, of the steps of a call, changes a child.
LEMMA ContinueOs ==
  ASSUME NEW c \in Client, Continue(c), ~TerminateChild(c)
  PROVE  UNCHANGED os
BY DEF Continue, TerminateLoad, TerminateCheck, TerminateSignal,
       TerminateAwait, ShutdownTerm, ShutdownEscalate, ShutdownSweep, MarkEntry,
       MarkNoEntry, MarkDisk, MarkPublish, EofPublish, PurgeNext, osVars

\* A dead child stays dead: a shell is never forked twice.
LEMMA DeadStays ==
  ASSUME TypeOK, BornInv, ClientInv, Next, NEW s \in Shell, Dead(s)
  PROVE  Dead(s)'
<1>1. ASSUME NEW x \in Shell, ChildDies(x, "own") \/ ChildDies(x, "signal") PROVE Dead(s)'
  BY <1>1 DEF TypeOK, ChildDies, Dead
<1>2. ASSUME NEW x \in Shell, SpawnLaunch(x) PROVE Dead(s)'
  BY <1>2 DEF TypeOK, BornInv, SpawnLaunch, Dead
<1>3. ASSUME NEW x \in Shell, SpawnContinue(x) PROVE Dead(s)'
  BY <1>3, SpawnFrame DEF Dead
<1>4. CASE Reactor
  <2>1. CASE ReactorScan
    BY <2>1 DEF TypeOK, ReactorScan, Dead
  <2>2. CASE ~ReactorScan
    BY <1>4, <2>2 DEF Reactor, ReactorReceive, ReactorRecord, ReactorPublish, osVars, Dead
  <2>. QED
    BY <2>1, <2>2
<1>5. ASSUME NEW c \in Client, Call(c) PROVE Dead(s)'
  BY <1>5, CallFrame DEF Dead
<1>6. ASSUME NEW c \in Client, Continue(c) PROVE Dead(s)'
  <2>1. CASE TerminateChild(c)
    BY <2>1 DEF TypeOK, TerminateChild, Dead
  <2>2. CASE ~TerminateChild(c)
    BY <1>6, <2>2, ContinueOs DEF Dead
  <2>. QED
    BY <2>1, <2>2
<1>7. CASE Crash
  BY <1>7 DEF TypeOK, Crash, Dead
<1>. QED
  BY <1>1, <1>2, <1>3, <1>4, <1>5, <1>6, <1>7 DEF Next

\* A child is born and dies once.
LEMMA OsStep ==
  ASSUME TypeOK, BornInv, ClientInv, Next, NEW s \in Shell
  PROVE  \/ os'[s] = os[s]
         \/ os[s] = "unborn" /\ os'[s] = "live"
         \/ os[s] = "live" /\ Dead(s)'
         \/ Dead(s) /\ Dead(s)'
<1>1. ASSUME NEW x \in Shell, ChildDies(x, "own") \/ ChildDies(x, "signal")
      PROVE  os'[s] = os[s] \/ (os[s] = "live" /\ Dead(s)')
  BY <1>1 DEF TypeOK, ChildDies, Dead
<1>2. ASSUME NEW x \in Shell, SpawnLaunch(x)
      PROVE  os'[s] = os[s] \/ (os[s] = "unborn" /\ os'[s] = "live")
  BY <1>2 DEF TypeOK, BornInv, SpawnLaunch
<1>3. CASE Reactor
  <2>1. CASE ReactorScan
    BY <2>1 DEF TypeOK, ReactorScan, Dead
  <2>2. CASE ~ReactorScan
    BY <1>3, <2>2 DEF Reactor, ReactorReceive, ReactorRecord, ReactorPublish, osVars
  <2>. QED
    BY <2>1, <2>2
<1>4. ASSUME NEW c \in Client, Continue(c)
      PROVE  os'[s] = os[s] \/ (Dead(s) /\ Dead(s)')
  <2>1. CASE TerminateChild(c)
    <3>1. call[c].tgt \in Shell /\ spc[call[c].tgt] # "idle"
      BY <2>1 DEF TerminateChild, At, ClientInv, ClientOK, HasTarget
    <3>2. os[call[c].tgt] # "unborn"
      BY <3>1 DEF BornInv
    <3>. QED
      BY <2>1, <3>1, <3>2 DEF TypeOK, TerminateChild, Dead
  <2>2. CASE ~TerminateChild(c)
    BY <1>4, <2>2, ContinueOs
  <2>. QED
    BY <2>1, <2>2
<1>5. CASE Crash
  BY <1>5 DEF TypeOK, Crash, Dead
<1>. QED
  BY <1>1, <1>2, <1>3, <1>4, <1>5, SpawnFrame, CallFrame DEF Next

\* Init gives the invariant.
LEMMA InitInv == Init => Inv
<1>. SUFFICES ASSUME Init PROVE Inv
  OBVIOUS
<1>1. TypeOK
  BY InitType
<1>2. BornInv /\ SpawnInv /\ GoneInv /\ CodeInv
  BY BoundsAssumption DEF Init, BornInv, SpawnInv, GoneInv, CodeInv, HasStatus
<1>3. ClientInv
  BY DEF Init, ClientInv, ClientOK, Idle, HasTarget
<1>4. ExitedIsDead /\ RunningIsWatched /\ DiskNotStale /\ KillScope
  BY DEF Init, ExitedIsDead, RunningIsWatched, DiskNotStale, KillScope, HasStatus, Untold
<1>. QED
  BY <1>1, <1>2, <1>3, <1>4 DEF Inv

-----------------------------------------------------------------------------
(* Every step preserves the parts of the invariant.                        *)

LEMMA BornStep ==
  ASSUME TypeOK, BornInv, ClientInv, Next
  PROVE  BornInv'
<1>0. \A s \in Shell : os[s] # "unborn" => os'[s] # "unborn"
  BY OsStep DEF Dead
<1>1. ASSUME NEW x \in Shell, ChildDies(x, "own") \/ ChildDies(x, "signal") PROVE BornInv'
  BY <1>1 DEF TypeOK, BornInv, ChildDies, mgrVars
<1>2. ASSUME NEW x \in Shell, SpawnLaunch(x) PROVE BornInv'
  BY <1>2, BoundsAssumption DEF TypeOK, BornInv, SpawnLaunch
<1>3. ASSUME NEW x \in Shell, SpawnContinue(x) PROVE BornInv'
  <2>1. /\ spc[x] # "idle" /\ \A s \in Shell : s # x => spc'[s] = spc[s]
        /\ spc'[x] # "idle"
    BY <1>3 DEF TypeOK, SpawnContinue, SpawnPersist, SpawnPersistFails, SpawnInsert,
                SpawnWatch, SpawnPublish
  <2>. QED
    BY <1>3, <2>1, SpawnFrame DEF BornInv
<1>4. CASE Reactor
  <2>1. \A s \in Shell : os[s] = "unborn" => os'[s] = "unborn"
    <3>1. CASE ReactorScan
      BY <3>1 DEF TypeOK, ReactorScan, Dead
    <3>2. CASE ~ReactorScan
      BY <1>4, <3>2 DEF Reactor, ReactorReceive, ReactorRecord, ReactorPublish, osVars
    <3>. QED
      BY <3>1, <3>2
  <2>. QED
    BY <1>0, <1>4, <2>1, ReactorFrame DEF BornInv
<1>5. ASSUME NEW c \in Client, Call(c) PROVE BornInv'
  BY <1>5, CallFrame DEF BornInv
<1>6. ASSUME NEW c \in Client, Continue(c) PROVE BornInv'
  <2>1. ASSUME NEW s \in Shell, spc[s] = "idle" PROVE os'[s] = "unborn" /\ sig'[s] = {}
    <3>1. os[s] = "unborn" /\ sig[s] = {}
      BY <2>1 DEF BornInv
    <3>2. CASE TerminateChild(c)
      <4>1. call[c].tgt # s
        BY <2>1, <3>2 DEF ClientInv, ClientOK, TerminateChild, At
      <4>. QED
        BY <3>1, <3>2, <4>1 DEF TypeOK, TerminateChild
    <3>3. CASE ~TerminateChild(c)
      <4>1. os' = os
        BY <1>6, <3>3, ContinueOs
      <4>2. sig'[s] = sig[s]
        BY <1>6, <3>1, <3>3
           DEF TypeOK, Continue, TerminateLoad, TerminateCheck, TerminateSignal,
               TerminateAwait, ShutdownTerm, ShutdownEscalate, ShutdownSweep,
               MarkEntry, MarkNoEntry, MarkDisk, MarkPublish, EofPublish, PurgeNext, osVars
      <4>. QED
        BY <3>1, <4>1, <4>2
    <3>. QED
      BY <3>2, <3>3
  <2>. QED
    BY <1>0, <1>6, <2>1, ContinueFrame DEF BornInv
<1>7. CASE Crash
  <2>1. gen' = gen + 1 /\ home' = home /\ sig' = sig
    BY <1>7 DEF Crash
  <2>2. \A s \in Shell : (spc'[s] = "idle" <=> spc[s] = "idle")
    BY <1>7 DEF TypeOK, SpawnPc, Crash
  <2>3. \A s \in Shell : os[s] = "unborn" => os'[s] = "unborn"
    BY <1>7 DEF Crash
  <2>4. gen \in Nat /\ \A s \in Shell : home[s] \in Nat
    BY BoundsAssumption DEF TypeOK
  <2>. QED
    BY <1>0, <2>1, <2>2, <2>3, <2>4 DEF BornInv
<1>. QED
  BY <1>1, <1>2, <1>3, <1>4, <1>5, <1>6, <1>7 DEF Next

\* What a step does to the entry and to the record of a shell.
Kept(s) == entry'[s] = entry[s] /\ disk'[s] = disk[s]

Saved(s) ==      \* SpawnPersist
  /\ spc[s] = "launched" /\ spc'[s] = "persisted"
  /\ entry'[s] = entry[s]
  /\ disk'[s] \in Record /\ disk'[s].status = "Running"

Inserted(s) ==   \* SpawnInsert
  /\ spc[s] = "persisted" /\ spc'[s] = "inserted"
  /\ entry'[s] \in Record /\ entry'[s].status = "Running"
  /\ disk'[s] = disk[s]

Rewritten(s) ==  \* ReactorRecord, MarkEntry, Eof
  /\ entry[s] \in Record /\ entry'[s] \in Record
  /\ entry'[s].status = entry[s].status \/ (entry'[s].status = "Exited" /\ Dead(s))
  /\ disk'[s] = entry'[s] \/ (disk'[s] = disk[s] /\ faults' # 0)

Marked(s) ==     \* MarkDisk
  /\ Dead(s)
  /\ entry'[s] = entry[s]
  /\ disk'[s] \in Record /\ disk'[s].status = "Exited"

Purged(s) ==     \* PurgeNext
  /\ Dead(s)
  /\ entry'[s] = entry[s]
  /\ disk'[s] = None

Forgotten(s) ==  \* Crash
  /\ Crash
  /\ entry'[s] = None /\ disk'[s] = disk[s]

\* A write of one record, as the three callers of Rewritten do it.
LEMMA RewriteStep ==
  ASSUME TypeOK, NEW x \in Shell, NEW r \in Record, entry[x] # None,
         r.status = entry[x].status \/ (r.status = "Exited" /\ Dead(x)),
         entry' = [entry EXCEPT ![x] = r], Persist(x, r) \/ PersistFails,
         NEW s \in Shell
  PROVE  Kept(s) \/ Rewritten(s)
<1>1. CASE s # x
  BY <1>1 DEF TypeOK, Kept, Persist, PersistFails
<1>2. CASE s = x
  <2>1. entry[s] \in Record /\ entry'[s] = r
    BY <1>2 DEF TypeOK
  <2>2. disk'[s] = r \/ (disk'[s] = disk[s] /\ faults' # 0)
    BY <1>2, BoundsAssumption DEF TypeOK, Persist, PersistFails
  <2>. QED
    BY <1>2, <2>1, <2>2 DEF Rewritten
<1>. QED
  BY <1>1, <1>2

LEMMA RecordStep ==
  ASSUME TypeOK, GoneInv, ClientInv, Next, NEW s \in Shell
  PROVE  \/ Kept(s) \/ Saved(s) \/ Inserted(s)
         \/ Rewritten(s) \/ Marked(s) \/ Purged(s) \/ Forgotten(s)
<1>1. ASSUME NEW x \in Shell, ChildDies(x, "own") \/ ChildDies(x, "signal") \/ SpawnLaunch(x)
      PROVE  Kept(s)
  BY <1>1 DEF Kept, ChildDies, SpawnLaunch, mgrVars, storeVars
<1>2. ASSUME NEW x \in Shell, SpawnContinue(x) PROVE Kept(s) \/ Saved(s) \/ Inserted(s)
  <2>1. NewRecord(x) \in Record /\ NewRecord(x).status = "Running"
    BY RecordType DEF NewRecord
  <2>2. CASE SpawnPersist(x)
    BY <2>1, <2>2 DEF TypeOK, Kept, Saved, SpawnPersist, Persist
  <2>3. CASE SpawnInsert(x)
    BY <2>1, <2>3 DEF TypeOK, Kept, Inserted, SpawnInsert, storeVars
  <2>4. CASE SpawnPersistFails(x) \/ SpawnWatch(x) \/ SpawnPublish(x)
    BY <2>4 DEF Kept, SpawnPersistFails, PersistFails, SpawnWatch, SpawnPublish, storeVars
  <2>. QED
    BY <1>2, <2>2, <2>3, <2>4 DEF SpawnContinue
<1>3. CASE Reactor
  <2>1. ASSUME NEW x \in Shell, ReactorRecord(x) PROVE Kept(s) \/ Rewritten(s)
    <3>1. CASE entry[x] = None
      BY <2>1, <3>1 DEF Kept, ReactorRecord, storeVars
    <3>2. CASE entry[x] # None
      <4>. DEFINE r == Exited(entry[x], ReactorCode(x))
      <4>1. entry[x] \in Record /\ ReactorCode(x) \in Code
        BY <3>2 DEF TypeOK, ReactorCode, Code
      <4>2. r \in Record /\ r.status = "Exited"
        BY <4>1, RecordType
      <4>3. entry' = [entry EXCEPT ![x] = r] /\ (Persist(x, r) \/ PersistFails)
        BY <2>1, <3>2 DEF ReactorRecord
      <4>4. Dead(x)
        BY <2>1 DEF GoneInv, ReactorRecord
      <4>. HIDE DEF r
      <4>. QED
        BY <3>2, <4>2, <4>3, <4>4, RewriteStep
    <3>. QED
      BY <3>1, <3>2
  <2>2. CASE ReactorReceive \/ ReactorScan \/ ReactorPublish
    BY <2>2 DEF Kept, ReactorReceive, ReactorScan, ReactorPublish, mgrVars, storeVars
  <2>. QED
    BY <1>3, <2>1, <2>2 DEF Reactor
<1>4. ASSUME NEW c \in Client, Call(c) PROVE Kept(s) \/ Rewritten(s)
  <2>1. ASSUME NEW x \in Shell, Eof(c, x) PROVE Kept(s) \/ Rewritten(s)
    <3>. DEFINE r == [entry[x] EXCEPT !.stdin = FALSE]
    <3>1. r \in Record /\ r.status = entry[x].status
      BY <2>1, RecordType DEF TypeOK, Record, Eof
    <3>2. /\ entry[x] # None /\ entry' = [entry EXCEPT ![x] = r]
          /\ Persist(x, r) \/ PersistFails
      BY <2>1 DEF Eof
    <3>. HIDE DEF r
    <3>. QED
      BY <3>1, <3>2, RewriteStep
  <2>2. CASE \A x \in Shell : ~Eof(c, x)
    BY <1>4, <2>2 DEF Kept, Call, TerminateLookup, ShutdownBegin, PurgeBegin, mgrVars, storeVars
  <2>. QED
    BY <2>1, <2>2
<1>5. ASSUME NEW c \in Client, Continue(c)
      PROVE  Kept(s) \/ Rewritten(s) \/ Marked(s) \/ Purged(s)
  <2>. DEFINE x == call[c].tgt
  <2>1. CASE MarkEntry(c)
    <3>. DEFINE r == Exited(entry[x], call[c].code)
    <3>1. x \in Shell /\ call[c].code \in Code /\ Dead(x)
      BY <2>1 DEF TypeOK, CallState, ClientInv, ClientOK, HasTarget, MarkEntry, At
    <3>2. r \in Record /\ r.status = "Exited"
      BY <2>1, <3>1, RecordType DEF TypeOK, MarkEntry
    <3>3. /\ entry[x] # None /\ entry' = [entry EXCEPT ![x] = r]
          /\ Persist(x, r) \/ PersistFails
      BY <2>1 DEF MarkEntry
    <3>. HIDE DEF r, x
    <3>. QED
      BY <3>1, <3>2, <3>3, RewriteStep
  <2>2. CASE MarkDisk(c)
    <3>. DEFINE r == Exited(Adopted, call[c].code)
    <3>1. x \in Shell /\ call[c].code \in Code /\ Dead(x)
      BY <2>2 DEF TypeOK, CallState, ClientInv, ClientOK, HasTarget, MarkDisk, At
    <3>2. r \in Record /\ r.status = "Exited"
      BY <3>1, RecordType
    <3>3. entry' = entry /\ (Persist(x, r) \/ PersistFails)
      BY <2>2 DEF MarkDisk, mgrVars
    <3>. HIDE DEF r, x
    <3>. QED
      BY <3>1, <3>2, <3>3 DEF TypeOK, Kept, Marked, Persist, PersistFails
  <2>3. ASSUME NEW y \in Shell, PurgeNext(c, y) PROVE Kept(s) \/ Purged(s)
    <3>1. Dead(y)
      BY <2>3 DEF ClientInv, ClientOK, PurgeNext, At
    <3>. QED
      BY <2>3, <3>1 DEF TypeOK, Kept, Purged, PurgeNext, mgrVars
  <2>4. CASE ~MarkEntry(c) /\ ~MarkDisk(c) /\ \A y \in Shell : ~PurgeNext(c, y)
    BY <1>5, <2>4 DEF Kept, Continue, TerminateChild, TerminateLoad, TerminateCheck,
       TerminateSignal, TerminateAwait, ShutdownTerm, ShutdownEscalate, ShutdownSweep,
       MarkNoEntry, MarkPublish, EofPublish, mgrVars, storeVars
  <2>. QED
    BY <2>1, <2>2, <2>3, <2>4
<1>6. CASE Crash
  BY <1>6 DEF Forgotten, Crash, storeVars
<1>. QED
  BY <1>1, <1>2, <1>3, <1>4, <1>5, <1>6 DEF Next

\* No thread of this process withdraws an entry, or the record of a living child.
LEMMA SpawnStep ==
  ASSUME TypeOK, BornInv, SpawnInv, GoneInv, ClientInv, Next
  PROVE  SpawnInv'
<1>0. \A s \in Shell : Dead(s) => Dead(s)'
  BY DeadStays
<1>1. ASSUME NEW x \in Shell, ChildDies(x, "own") \/ ChildDies(x, "signal") PROVE SpawnInv'
  BY <1>0, <1>1 DEF SpawnInv, ChildDies, mgrVars, storeVars
<1>2. ASSUME NEW x \in Shell, SpawnLaunch(x) PROVE SpawnInv'
  BY <1>0, <1>2 DEF TypeOK, SpawnInv, SpawnLaunch, storeVars
<1>3. ASSUME NEW x \in Shell, SpawnContinue(x) PROVE SpawnInv'
  <2>1. NewRecord(x) \in Record /\ None \notin Record
    BY RecordType, NoneAssumption
  <2>2. CASE SpawnPersist(x)
    BY <1>0, <2>1, <2>2 DEF TypeOK, SpawnInv, SpawnPersist, Persist
  <2>3. CASE SpawnPersistFails(x)
    BY <1>0, <2>3 DEF TypeOK, SpawnInv, SpawnPersistFails, PersistFails
  <2>4. CASE SpawnInsert(x)
    BY <1>0, <2>1, <2>4 DEF TypeOK, SpawnInv, SpawnInsert, storeVars
  <2>5. CASE SpawnWatch(x)
    BY <1>0, <2>5 DEF TypeOK, SpawnInv, SpawnWatch, storeVars
  <2>6. CASE SpawnPublish(x)
    BY <1>0, <2>6 DEF TypeOK, SpawnInv, SpawnPublish, storeVars
  <2>. QED
    BY <1>3, <2>2, <2>3, <2>4, <2>5, <2>6 DEF SpawnContinue
<1>4. ASSUME spc' = spc, ~Crash PROVE SpawnInv'
  <2>1. \A s \in Shell : Kept(s) \/ Rewritten(s) \/ Marked(s) \/ Purged(s)
    BY <1>4, RecordStep DEF Saved, Inserted, Forgotten
  <2>2. \A r \in Record : r # None
    BY NoneAssumption
  <2>. QED
    BY <1>0, <1>4, <2>1, <2>2 DEF SpawnInv, Kept, Rewritten, Marked, Purged
<1>5. CASE Reactor \/ \E c \in Client : Call(c) \/ Continue(c)
  <2>1. spc' = spc /\ gen' = gen
    BY <1>5, ReactorFrame, CallFrame, ContinueFrame
  <2>2. ~Crash
    BY <2>1, BoundsAssumption DEF TypeOK, Crash
  <2>. QED
    BY <1>4, <2>1, <2>2
<1>6. CASE Crash
  <2>1. \A s \in Shell :
          /\ spc'[s] \notin {"persisted", "inserted", "watched", "done"}
          /\ spc'[s] = "inherited"
               => spc[s] \in {"persisted", "inserted", "watched", "done", "inherited"}
    BY <1>6 DEF TypeOK, SpawnPc, Crash
  <2>. QED
    BY <1>0, <1>6, <2>1 DEF SpawnInv, Crash, storeVars
<1>. QED
  BY <1>1, <1>2, <1>3, <1>5, <1>6 DEF Next

LEMMA GoneStep ==
  ASSUME TypeOK, BornInv, GoneInv, ClientInv, Next
  PROVE  GoneInv'
<1>1. \A s \in Shell : Dead(s) => Dead(s)'
  BY DeadStays
<1>2. found \subseteq Shell /\ rpub \in Shell \cup {None}
  BY DEF TypeOK
<1>3. CASE UNCHANGED <<found, rpub>>
  BY <1>1, <1>2, <1>3 DEF GoneInv
<1>4. CASE ReactorScan
  <2>1. \A s \in found' : Dead(s)'
    BY <1>4 DEF TypeOK, ReactorScan, Dead
  <2>. QED
    BY <1>1, <1>2, <1>4, <2>1 DEF GoneInv, ReactorScan
<1>5. ASSUME NEW x \in Shell, ReactorRecord(x) PROVE GoneInv'
  <2>1. found' \subseteq found /\ x \in found /\ rpub' \in {x, rpub} /\ rpub = None
    BY <1>5 DEF ReactorRecord
  <2>. QED
    BY <1>1, <1>2, <2>1 DEF GoneInv
<1>6. CASE ReactorPublish
  BY <1>1, <1>2, <1>6 DEF GoneInv, ReactorPublish
<1>7. CASE Crash
  BY <1>7 DEF GoneInv, Crash
<1>8. ASSUME NEW x \in Shell,
             ChildDies(x, "own") \/ ChildDies(x, "signal") \/ SpawnLaunch(x)
      PROVE  UNCHANGED <<found, rpub>>
  BY <1>8 DEF ChildDies, SpawnLaunch, reactorVars
<1>9. CASE ReactorReceive
  BY <1>3, <1>9 DEF ReactorReceive
<1>. QED
  BY <1>3, <1>4, <1>5, <1>6, <1>7, <1>8, <1>9, SpawnFrame, CallFrame, ContinueFrame
     DEF Next, Reactor

\* Only the event of a thread that knows the shell dead tells of its exit.
LEMMA ToldStep ==
  ASSUME TypeOK, GoneInv, ClientInv, Next, NEW s \in Shell, told'[s].exited
  PROVE  told[s].exited \/ Dead(s)
<1>1. ASSUME NEW x \in Shell, NEW kind \in {"Spawned", "Updated", "Exited"},
             Publish(x, kind), kind = "Exited" => Dead(x)
      PROVE  told[s].exited \/ Dead(s)
  BY <1>1 DEF TypeOK, Told, Publish
<1>2. CASE told' = told
  BY <1>2
<1>3. ASSUME NEW x \in Shell, ChildDies(x, "own") \/ ChildDies(x, "signal") \/ SpawnLaunch(x)
      PROVE  told' = told
  BY <1>3 DEF ChildDies, SpawnLaunch
<1>4. ASSUME NEW x \in Shell, SpawnContinue(x) PROVE told[s].exited \/ Dead(s)
  BY <1>1, <1>2, <1>4 DEF SpawnContinue, SpawnPersist, SpawnPersistFails, SpawnInsert,
     SpawnWatch, SpawnPublish
<1>5. CASE Reactor
  <2>1. CASE ReactorPublish
    BY <1>1, <2>1 DEF TypeOK, GoneInv, ReactorPublish
  <2>2. CASE ~ReactorPublish
    BY <1>2, <1>5, <2>2 DEF Reactor, ReactorReceive, ReactorScan, ReactorRecord
  <2>. QED
    BY <2>1, <2>2
<1>6. ASSUME NEW c \in Client, Call(c) PROVE told' = told
  BY <1>6, CallFrame
<1>7. ASSUME NEW c \in Client, Continue(c) PROVE told[s].exited \/ Dead(s)
  <2>1. CASE MarkPublish(c)
    BY <1>1, <2>1 DEF ClientInv, ClientOK, HasTarget, At, MarkPublish
  <2>2. CASE EofPublish(c)
    BY <1>1, <2>2 DEF ClientInv, ClientOK, HasTarget, At, EofPublish
  <2>3. CASE ~MarkPublish(c) /\ ~EofPublish(c)
    BY <1>2, <1>7, <2>3 DEF Continue, TerminateChild, TerminateLoad, TerminateCheck,
       TerminateSignal, TerminateAwait, ShutdownTerm, ShutdownEscalate, ShutdownSweep,
       MarkEntry, MarkNoEntry, MarkDisk, PurgeNext
  <2>. QED
    BY <2>1, <2>2, <2>3
<1>8. CASE Crash
  BY <1>8 DEF Crash, Untold
<1>. QED
  BY <1>2, <1>3, <1>4, <1>5, <1>6, <1>7, <1>8 DEF Next

LEMMA ExitedStep ==
  ASSUME TypeOK, BornInv, GoneInv, ClientInv, ExitedIsDead, Next
  PROVE  ExitedIsDead'
<1>. SUFFICES ASSUME NEW s \in Shell,
                     \/ HasStatus(entry'[s], "Exited")
                     \/ HasStatus(disk'[s], "Exited")
                     \/ told'[s].exited
              PROVE  Dead(s)'
  BY DEF ExitedIsDead, HasStatus
<1>1. SUFFICES Dead(s)
  BY DeadStays
<1>2. CASE told'[s].exited
  BY <1>2, ToldStep DEF ExitedIsDead
<1>3. CASE HasStatus(entry'[s], "Exited") \/ HasStatus(disk'[s], "Exited")
  <2>1. \/ Kept(s) \/ Saved(s) \/ Inserted(s)
        \/ Rewritten(s) \/ Marked(s) \/ Purged(s) \/ Forgotten(s)
    BY RecordStep
  <2>2. None \notin Record
    BY NoneAssumption
  <2>. QED
    BY <1>3, <2>1, <2>2 DEF ExitedIsDead, HasStatus, Kept, Saved, Inserted, Rewritten,
       Marked, Purged, Forgotten
<1>. QED
  BY <1>2, <1>3

LEMMA WatchedStep ==
  ASSUME TypeOK, SpawnInv, GoneInv, ClientInv, RunningIsWatched, Next
  PROVE  RunningIsWatched'
<1>. SUFFICES ASSUME NEW s \in Shell, HasStatus(entry'[s], "Running")
              PROVE  spc'[s] = "inserted" \/ s \in queued' \cup watched'
  BY DEF RunningIsWatched, HasStatus
<1>1. HasStatus(entry[s], "Running") \/ spc'[s] = "inserted"
  BY RecordStep, NoneAssumption DEF HasStatus, Kept, Saved, Inserted, Rewritten, Marked,
     Purged, Forgotten
<1>2. SUFFICES ASSUME HasStatus(entry[s], "Running"),
                      spc[s] = "inserted" \/ s \in queued \cup watched
               PROVE  spc'[s] = "inserted" \/ s \in queued' \cup watched'
  BY <1>1 DEF RunningIsWatched
<1>3. spc[s] \in {"inserted", "watched", "done"}
  BY <1>2 DEF SpawnInv, HasStatus
<1>4. CASE UNCHANGED <<spc, queued, watched>>
  BY <1>2, <1>4
<1>5. ASSUME NEW x \in Shell, ChildDies(x, "own") \/ ChildDies(x, "signal")
      PROVE  UNCHANGED <<spc, queued, watched>>
  BY <1>5 DEF ChildDies, mgrVars, reactorVars
<1>6. ASSUME NEW x \in Shell, SpawnLaunch(x) \/ SpawnContinue(x)
      PROVE  spc'[s] = "inserted" \/ s \in queued' \cup watched'
  BY <1>2, <1>3, <1>6 DEF TypeOK, SpawnLaunch, SpawnContinue, SpawnPersist, SpawnPersistFails,
     SpawnInsert, SpawnWatch, SpawnPublish, reactorVars
<1>7. CASE Reactor
  <2>1. ASSUME NEW x \in Shell, ReactorRecord(x)
        PROVE  spc'[s] = "inserted" \/ s \in queued' \cup watched'
    <3>1. CASE s # x
      BY <1>2, <2>1, <3>1 DEF ReactorRecord
    <3>2. CASE s = x
      <4>1. entry[x] \in Record /\ ReactorCode(x) \in Code
        BY <1>2, <3>2 DEF TypeOK, HasStatus, ReactorCode, Code
      <4>2. entry'[x] = Exited(entry[x], ReactorCode(x))
        BY <1>2, <2>1, <3>2 DEF TypeOK, HasStatus, ReactorRecord
      <4>3. entry'[x].status = "Exited"
        BY <4>1, <4>2, RecordType
      <4>. QED
        BY <3>2, <4>3 DEF HasStatus
    <3>. QED
      BY <3>1, <3>2
  <2>2. CASE ReactorReceive \/ ReactorScan \/ ReactorPublish
    BY <1>2, <2>2 DEF ReactorReceive, ReactorScan, ReactorPublish, mgrVars
  <2>. QED
    BY <1>7, <2>1, <2>2 DEF Reactor
<1>8. CASE Crash
  BY <1>8 DEF Crash, HasStatus
<1>. QED
  BY <1>4, <1>5, <1>6, <1>7, <1>8, CallFrame, ContinueFrame DEF Next

LEMMA FaultsStep ==
  ASSUME TypeOK, Next
  PROVE  faults' = faults \/ faults' = faults + 1
<1>1. ASSUME NEW x \in Shell,
             ChildDies(x, "own") \/ ChildDies(x, "signal") \/ SpawnLaunch(x) \/ SpawnContinue(x)
      PROVE  faults' = faults \/ faults' = faults + 1
  BY <1>1 DEF ChildDies, SpawnLaunch, SpawnContinue, SpawnPersist, SpawnPersistFails,
     SpawnInsert, SpawnWatch, SpawnPublish, Persist, PersistFails, storeVars
<1>2. CASE Reactor
  BY <1>2 DEF Reactor, ReactorReceive, ReactorScan, ReactorRecord, ReactorPublish,
     Persist, PersistFails, storeVars
<1>3. ASSUME NEW c \in Client, Call(c) PROVE faults' = faults \/ faults' = faults + 1
  BY <1>3 DEF Call, TerminateLookup, Eof, ShutdownBegin, PurgeBegin, Persist, PersistFails, storeVars
<1>4. ASSUME NEW c \in Client, Continue(c) PROVE faults' = faults \/ faults' = faults + 1
  BY <1>4 DEF Continue, TerminateChild, TerminateLoad, TerminateCheck, TerminateSignal,
     TerminateAwait, ShutdownTerm, ShutdownEscalate, ShutdownSweep, MarkEntry, MarkNoEntry,
     MarkDisk, MarkPublish, EofPublish, PurgeNext, Persist, PersistFails, storeVars
<1>5. CASE Crash
  BY <1>5 DEF Crash, storeVars
<1>. QED
  BY <1>1, <1>2, <1>3, <1>4, <1>5 DEF Next

LEMMA DiskStep ==
  ASSUME TypeOK, SpawnInv, GoneInv, ClientInv, DiskNotStale, Next,
         TypeOK', SpawnInv', ExitedIsDead'
  PROVE  DiskNotStale'
<1>0. None \notin Record
  BY NoneAssumption
<1>1. ASSUME NEW s \in Shell, faults' = 0, HasStatus(entry'[s], "Exited")
      PROVE  ~HasStatus(disk'[s], "Running")
  <2>1. faults = 0
    BY <1>1, FaultsStep, BoundsAssumption DEF TypeOK
  <2>2. \/ Kept(s) \/ Saved(s) \/ Inserted(s)
        \/ Rewritten(s) \/ Marked(s) \/ Purged(s) \/ Forgotten(s)
    BY RecordStep
  <2>. QED
    BY <1>0, <1>1, <2>1, <2>2 DEF DiskNotStale, SpawnInv, HasStatus, Kept, Saved, Inserted,
       Rewritten, Marked, Purged, Forgotten
<1>2. ASSUME NEW s \in Shell, os'[s] = "live", spc'[s] \notin {"idle", "launched", "untracked"}
      PROVE  HasStatus(disk'[s], "Running")
  <2>1. ~Dead(s)' /\ spc'[s] \in SpawnPc /\ disk'[s] \in Record \cup {None}
    BY <1>2 DEF TypeOK, Dead
  <2>2. disk'[s] # None
    BY <1>2, <2>1 DEF SpawnInv, SpawnPc
  <2>3. ~HasStatus(disk'[s], "Exited")
    BY <2>1 DEF ExitedIsDead, HasStatus
  <2>. QED
    BY <2>1, <2>2, <2>3 DEF HasStatus, Record, Status
<1>. QED
  BY <1>1, <1>2 DEF DiskNotStale, HasStatus

\* What becomes of the fields of a call.
LEMMA CallEffects ==
  ASSUME call \in [Client -> CallState], NEW c \in Client, NEW l
  PROVE  /\ Goto(c, l) =>
              /\ call'[c].pc = l /\ call'[c].tgt = call[c].tgt
              /\ call'[c].todo = call[c].todo /\ call'[c].surv = call[c].surv
         /\ Return(c) => call'[c] = Idle
         /\ \A T : Resume(c, T) =>
              \/ call'[c] = Idle
              \/ call'[c].pc = "sweep" /\ call'[c].todo = T /\ call'[c].surv = call[c].surv
         /\ \A s, d : ToMark(c, s, d) =>
              /\ call'[c].pc = "mark" /\ call'[c].tgt = s
              /\ call'[c].todo \subseteq call[c].todo /\ call'[c].surv = call[c].surv
<1>1. Goto(c, l) => /\ call'[c].pc = l /\ call'[c].tgt = call[c].tgt
                    /\ call'[c].todo = call[c].todo /\ call'[c].surv = call[c].surv
  BY DEF Goto, CallState
<1>2. Return(c) => call'[c] = Idle
  BY DEF Return
<1>3. ASSUME NEW T, Resume(c, T)
      PROVE  \/ call'[c] = Idle
             \/ call'[c].pc = "sweep" /\ call'[c].todo = T /\ call'[c].surv = call[c].surv
  BY <1>3 DEF Resume, Return, CallState
<1>4. ASSUME NEW s, NEW d, ToMark(c, s, d)
      PROVE  /\ call'[c].pc = "mark" /\ call'[c].tgt = s
             /\ call'[c].todo \subseteq call[c].todo /\ call'[c].surv = call[c].surv
  BY <1>4 DEF ToMark, CallState
<1>. QED
  BY <1>1, <1>2, <1>3, <1>4

LEMMA IdleOK ==
  ASSUME NEW c \in Client, call'[c] = Idle
  PROVE  ClientOK(c)'
BY DEF ClientOK, Idle, HasTarget

\* A call that a step does not touch stays as good as it was.
LEMMA OthersOK ==
  ASSUME TypeOK, BornInv, ClientInv, Next, NEW c \in Client, call'[c] = call[c],
         asked \subseteq asked', \A s \in Shell : spc'[s] = "idle" => spc[s] = "idle"
  PROVE  ClientOK(c)'
<1>1. ClientOK(c) /\ call[c] \in CallState
  BY DEF TypeOK, ClientInv
<1>2. \A s \in Shell : Dead(s) => Dead(s)'
  BY DeadStays
<1>3. /\ call[c].pc \in HasTarget => call[c].tgt \in Shell
      /\ call[c].todo \subseteq Shell
  BY <1>1 DEF ClientOK, CallState
<1>4. call[c].pc \in {"mark", "markdisk", "publish"} => Dead(call[c].tgt)'
  BY <1>1, <1>2, <1>3 DEF ClientOK, HasTarget
<1>5. call[c].pc = "purge" => \A s \in call[c].todo : Dead(s)'
  BY <1>1, <1>2, <1>3 DEF ClientOK
<1>. QED
  BY <1>1, <1>3, <1>4, <1>5 DEF ClientOK, HasTarget, Dead

LEMMA CallOK ==
  ASSUME TypeOK, SpawnInv, ClientInv, ExitedIsDead, NEW c \in Client, Call(c)
  PROVE  ClientOK(c)'
<1>1. call \in [Client -> CallState] /\ ClientOK(c) /\ spc' = spc /\ os' = os
  BY CallFrame DEF TypeOK, ClientInv
<1>2. ASSUME NEW s \in Shell, TerminateLookup(c, s) PROVE ClientOK(c)'
  <2>1. /\ call'[c].pc = IF entry[s] = None THEN "load" ELSE "kill"
        /\ call'[c].tgt = s
        /\ call'[c].todo = call[c].todo /\ call'[c].surv = call[c].surv
    BY <1>1, <1>2 DEF TerminateLookup, CallState
  <2>2. entry[s] # None => spc[s] # "idle"
    BY DEF SpawnInv
  <2>3. asked' = asked \cup {s} /\ call[c].pc = "idle"
    BY <1>2 DEF TerminateLookup, At
  <2>. QED
    BY <1>1, <2>1, <2>2, <2>3 DEF ClientOK
<1>3. ASSUME NEW s \in Shell, Eof(c, s) PROVE ClientOK(c)'
  <2>1. \/ call'[c] = call[c]
        \/ /\ call'[c].pc = "update" /\ call'[c].tgt = s
           /\ call'[c].todo = call[c].todo /\ call'[c].surv = call[c].surv
    BY <1>1, <1>3 DEF Eof, CallState
  <2>2. asked' = asked /\ call[c].pc = "idle"
    BY <1>3 DEF Eof, At
  <2>. QED
    BY <1>1, <2>1, <2>2 DEF ClientOK, HasTarget
<1>4. ASSUME NEW targets \in SUBSET Shell, ShutdownBegin(c, targets) PROVE ClientOK(c)'
  <2>1. /\ call'[c].pc = "term"
        /\ call'[c].todo = targets /\ call'[c].surv = call[c].surv
    BY <1>1, <1>4 DEF ShutdownBegin, CallState
  <2>2. asked' = asked \cup targets
    BY <1>4 DEF ShutdownBegin
  <2>. QED
    BY <1>1, <2>1, <2>2 DEF ClientOK, HasTarget
<1>5. ASSUME NEW targets \in SUBSET Shell, PurgeBegin(c, targets) PROVE ClientOK(c)'
  <2>1. /\ call'[c].pc = "purge"
        /\ call'[c].todo = targets /\ call'[c].surv = call[c].surv
    BY <1>1, <1>5 DEF PurgeBegin, CallState
  <2>2. asked' = asked
    BY <1>5 DEF PurgeBegin
  <2>3. \A s \in targets : VisibleStatus(s) = "Exited" \/ PersistedStatus(s) = "Exited"
    BY <1>5 DEF PurgeBegin
  <2>4. \A s \in targets : Dead(s)
    BY <2>3 DEF ExitedIsDead, VisibleStatus, PersistedStatus, HasStatus
  <2>5. \A s \in targets : Dead(s)'
    BY <1>1, <2>4 DEF Dead
  <2>. QED
    BY <1>1, <2>1, <2>2, <2>5 DEF ClientOK, HasTarget
<1>. QED
  BY <1>2, <1>3, <1>4, <1>5 DEF Call

LEMMA ContinueOK ==
  ASSUME TypeOK, BornInv, ClientInv, Next, NEW c \in Client, Continue(c)
  PROVE  ClientOK(c)'
<1>1. call \in [Client -> CallState] /\ call[c] \in CallState /\ ClientOK(c)
      /\ spc' = spc /\ asked' = asked
  BY ContinueFrame DEF TypeOK, ClientInv
<1>2. \A s \in Shell : Dead(s) => Dead(s)'
  BY DeadStays
<1>3. CASE Return(c)
  BY <1>1, <1>3, CallEffects, IdleOK
<1>4. ASSUME call[c].pc # "purge", NEW T \in SUBSET call[c].todo, Resume(c, T)
      PROVE  ClientOK(c)'
  <2>1. \/ call'[c] = Idle
        \/ call'[c].pc = "sweep" /\ call'[c].todo = T /\ call'[c].surv = call[c].surv
    BY <1>1, <1>4, CallEffects
  <2>. QED
    BY <1>1, <1>4, <2>1, IdleOK DEF ClientOK, HasTarget
<1>5. ASSUME call[c].pc \in HasTarget, NEW l \in ClientPc, Goto(c, l),
             l \notin {"kill", "load", "purge"},
             l \in HasTarget \ {"update"} => call[c].tgt \in asked,
             l \in {"mark", "markdisk", "publish"} => Dead(call[c].tgt)
      PROVE  ClientOK(c)'
  <2>1. /\ call'[c].pc = l /\ call'[c].tgt = call[c].tgt
        /\ call'[c].todo = call[c].todo /\ call'[c].surv = call[c].surv
    BY <1>1, <1>5, CallEffects
  <2>2. call[c].tgt \in Shell
    BY <1>1, <1>5 DEF ClientOK
  <2>3. l \in {"mark", "markdisk", "publish"} => Dead(call[c].tgt)'
    BY <1>2, <1>5, <2>1, <2>2 DEF Dead
  <2>. QED
    BY <1>1, <1>5, <2>1, <2>2, <2>3 DEF ClientOK, HasTarget, Dead
<1>6. CASE TerminateChild(c)
  BY <1>3, <1>6 DEF TerminateChild
<1>7. CASE TerminateLoad(c)
  <2>1. Return(c) \/ Goto(c, "check")
    BY <1>7 DEF TerminateLoad
  <2>2. call[c].pc = "load" /\ call[c].tgt \in asked
    BY <1>1, <1>7 DEF TerminateLoad, At, ClientOK, HasTarget
  <2>. QED
    BY <1>3, <1>5, <2>1, <2>2 DEF HasTarget, ClientPc
<1>8. CASE TerminateCheck(c)
  <2>1. call[c].pc = "check" /\ call[c].tgt \in asked
    BY <1>1, <1>8 DEF TerminateCheck, At, ClientOK, HasTarget
  <2>2. (Dead(call[c].tgt) /\ Goto(c, "mark")) \/ Goto(c, "signal")
    BY <1>8 DEF TerminateCheck
  <2>. QED
    BY <1>5, <2>1, <2>2 DEF HasTarget, ClientPc
<1>9. CASE TerminateSignal(c)
  <2>1. call[c].pc = "signal" /\ call[c].tgt \in asked /\ Goto(c, "await")
    BY <1>1, <1>9 DEF TerminateSignal, At, ClientOK, HasTarget
  <2>. QED
    BY <1>5, <2>1 DEF HasTarget, ClientPc
<1>10. CASE TerminateAwait(c)
  <2>1. CASE ~Dead(call[c].tgt)
    BY <1>3, <1>10, <2>1 DEF TerminateAwait
  <2>2. CASE Dead(call[c].tgt)
    <3>1. /\ call'[c].pc = "mark" /\ call'[c].tgt = call[c].tgt
          /\ call'[c].todo = call[c].todo /\ call'[c].surv = call[c].surv
      BY <1>1, <1>10, <2>2 DEF TerminateAwait, CallState
    <3>2. call[c].tgt \in Shell /\ call[c].pc = "await" /\ call[c].tgt \in asked
      BY <1>1, <1>10 DEF TerminateAwait, At, ClientOK, HasTarget
    <3>3. Dead(call[c].tgt)'
      BY <1>2, <2>2, <3>1, <3>2 DEF Dead
    <3>. QED
      BY <1>1, <3>1, <3>2, <3>3 DEF ClientOK, HasTarget, Dead
  <2>. QED
    BY <2>1, <2>2
<1>11. CASE ShutdownTerm(c) \/ ShutdownEscalate(c)
  <2>1. /\ call[c].pc # "purge" /\ call'[c].pc \in {"escalate", "sweep"}
        /\ call'[c].todo = call[c].todo
        /\ call'[c].surv \subseteq call[c].todo \cup call[c].surv
    <3>1. CASE ShutdownTerm(c)
      BY <1>1, <3>1 DEF ShutdownTerm, At, CallState
    <3>2. CASE ShutdownEscalate(c)
      BY <1>1, <3>2 DEF ShutdownEscalate, At, CallState
    <3>. QED
      BY <1>11, <3>1, <3>2
  <2>. QED
    BY <1>1, <2>1 DEF ClientOK, HasTarget
<1>12. ASSUME NEW s \in Shell, ShutdownSweep(c, s) PROVE ClientOK(c)'
  <2>1. CASE Dead(s)
    <3>1. /\ call'[c].pc = "mark" /\ call'[c].tgt = s
          /\ call'[c].todo \subseteq call[c].todo /\ call'[c].surv = call[c].surv
      BY <1>1, <1>12, <2>1, CallEffects DEF ShutdownSweep
    <3>2. Dead(s)' /\ call[c].pc = "sweep" /\ s \in call[c].todo
      BY <1>2, <1>12, <2>1 DEF ShutdownSweep, At
    <3>. QED
      BY <1>1, <3>1, <3>2 DEF ClientOK, HasTarget, Dead
  <2>2. CASE ~Dead(s)
    BY <1>4, <1>12, <2>2 DEF ShutdownSweep, At
  <2>. QED
    BY <2>1, <2>2
<1>13. CASE MarkEntry(c) \/ MarkNoEntry(c) \/ MarkDisk(c) \/ MarkPublish(c)
  <2>1. \/ Goto(c, "publish") \/ Goto(c, "markdisk") \/ Resume(c, call[c].todo)
    BY <1>13 DEF MarkEntry, MarkNoEntry, MarkDisk, MarkPublish
  <2>2. call[c].pc \in {"mark", "markdisk", "publish"}
    BY <1>13 DEF MarkEntry, MarkNoEntry, MarkDisk, MarkPublish, At
  <2>3. Dead(call[c].tgt) /\ call[c].tgt \in asked
    BY <1>1, <2>2 DEF ClientOK, HasTarget
  <2>. QED
    BY <1>4, <1>5, <2>1, <2>2, <2>3 DEF HasTarget, ClientPc
<1>14. CASE EofPublish(c)
  BY <1>3, <1>14 DEF EofPublish
<1>15. ASSUME NEW s \in Shell, PurgeNext(c, s) PROVE ClientOK(c)'
  <2>. DEFINE rest == call[c].todo \ {s}
  <2>1. call[c].pc = "purge" /\ (Return(c) \/ call' = [call EXCEPT ![c].todo = rest])
    BY <1>15 DEF PurgeNext, At
  <2>2. CASE call' = [call EXCEPT ![c].todo = rest]
    <3>1. call'[c].pc = "purge" /\ call'[c].todo = rest /\ call'[c].surv = call[c].surv
      BY <1>1, <2>1, <2>2 DEF CallState
    <3>2. rest \subseteq Shell /\ \A x \in rest : Dead(x)
      BY <1>1, <2>1 DEF ClientOK, CallState
    <3>3. \A x \in rest : Dead(x)'
      BY <1>2, <3>2
    <3>. QED
      BY <1>1, <3>1, <3>3 DEF ClientOK, HasTarget
  <2>. QED
    BY <1>3, <2>1, <2>2
<1>. QED
  BY <1>6, <1>7, <1>8, <1>9, <1>10, <1>11, <1>12, <1>13, <1>14, <1>15 DEF Continue

LEMMA ClientStep ==
  ASSUME TypeOK, BornInv, SpawnInv, ClientInv, ExitedIsDead, Next
  PROVE  ClientInv'
<1>. SUFFICES ASSUME NEW c \in Client PROVE ClientOK(c)'
  BY DEF ClientInv
<1>1. asked \subseteq asked'
  <2>1. ASSUME NEW d \in Client, Call(d) PROVE asked \subseteq asked'
    BY <2>1 DEF Call, TerminateLookup, Eof, ShutdownBegin, PurgeBegin
  <2>2. ASSUME NEW s \in Shell,
               ChildDies(s, "own") \/ ChildDies(s, "signal") \/ SpawnLaunch(s)
        PROVE  asked \subseteq asked'
    BY <2>2 DEF ChildDies, SpawnLaunch
  <2>3. CASE Crash
    BY <2>3 DEF Crash
  <2>. QED
    BY <2>1, <2>2, <2>3, SpawnFrame, ReactorFrame, ContinueFrame DEF Next
<1>2. \A s \in Shell : spc'[s] = "idle" => spc[s] = "idle"
  <2>1. ASSUME NEW x \in Shell, ChildDies(x, "own") \/ ChildDies(x, "signal")
        PROVE  spc' = spc
    BY <2>1 DEF ChildDies, mgrVars
  <2>2. ASSUME NEW x \in Shell, NEW s \in Shell, SpawnLaunch(x) \/ SpawnContinue(x)
        PROVE  spc'[s] = "idle" => spc[s] = "idle"
    BY <2>2 DEF TypeOK, SpawnLaunch, SpawnContinue, SpawnPersist, SpawnPersistFails,
       SpawnInsert, SpawnWatch, SpawnPublish
  <2>3. ASSUME NEW s \in Shell, Crash PROVE spc'[s] = "idle" => spc[s] = "idle"
    BY <2>3 DEF TypeOK, SpawnPc, Crash
  <2>. QED
    BY <2>1, <2>2, <2>3, ReactorFrame, CallFrame, ContinueFrame DEF Next
<1>3. CASE call'[c] = call[c]
  BY <1>1, <1>2, <1>3, OthersOK
<1>4. CASE Call(c)
  BY <1>4, CallOK
<1>5. CASE Continue(c)
  BY <1>5, ContinueOK
<1>6. CASE Crash
  BY <1>6, IdleOK DEF Crash
<1>7. ASSUME NEW d \in Client, d # c, Call(d) \/ Continue(d) PROVE call'[c] = call[c]
  BY <1>7 DEF TypeOK, Call, TerminateLookup, Eof, ShutdownBegin, PurgeBegin, PurgeNext, Continue, TerminateChild,
     TerminateLoad, TerminateCheck, TerminateSignal, TerminateAwait, ShutdownTerm,
     ShutdownEscalate, ShutdownSweep, MarkEntry, MarkNoEntry, MarkDisk, MarkPublish,
     EofPublish, Goto, Return, Resume, ToMark
<1>8. ASSUME NEW s \in Shell,
             ChildDies(s, "own") \/ ChildDies(s, "signal") \/ SpawnLaunch(s)
      PROVE  call' = call
  BY <1>8 DEF ChildDies, SpawnLaunch
<1>. QED
  BY <1>3, <1>4, <1>5, <1>6, <1>7, <1>8, SpawnFrame, ReactorFrame DEF Next

\* Signals reach shells that were asked for, and the siblings that an earlier
\* process forked with one of them.
LEMMA SignalStep ==
  ASSUME TypeOK, BornInv, ClientInv, Next, NEW s \in Shell
  PROVE  \/ sig'[s] = sig[s]
         \/ s \in asked
         \/ /\ ~SharedGroup /\ os[s] = "live" /\ sig'[s] = sig[s] \cup {"KILL"}
            /\ home[s] # gen /\ \E x \in asked : home[x] = home[s]
<1>1. ASSUME NEW c \in Client, Continue(c), sig'[s] # sig[s]
      PROVE  \/ s \in asked
             \/ /\ ~SharedGroup /\ os[s] = "live" /\ sig'[s] = sig[s] \cup {"KILL"}
                /\ home[s] # gen /\ \E x \in asked : home[x] = home[s]
  <2>1. ClientOK(c)
    BY DEF ClientInv
  <2>2. CASE TerminateChild(c)
    BY <1>1, <2>1, <2>2 DEF TypeOK, TerminateChild, At, ClientOK, HasTarget
  <2>3. CASE TerminateSignal(c)
    <3>1. call[c].tgt \in asked
      BY <2>1, <2>3 DEF TerminateSignal, At, ClientOK, HasTarget
    <3>2. s \in GroupOf(call[c].tgt) /\ os[s] = "live" /\ sig'[s] = sig[s] \cup {"KILL"}
      BY <1>1, <2>3 DEF TerminateSignal
    <3>. QED
      BY <3>1, <3>2 DEF GroupOf
  <2>4. CASE ShutdownTerm(c) \/ ShutdownEscalate(c)
    BY <1>1, <2>1, <2>4 DEF ShutdownTerm, ShutdownEscalate, At, ClientOK
  <2>5. CASE ~TerminateChild(c) /\ ~TerminateSignal(c) /\ ~ShutdownTerm(c)
             /\ ~ShutdownEscalate(c)
    BY <1>1, <2>5 DEF Continue, TerminateLoad, TerminateCheck, TerminateAwait,
       ShutdownSweep, MarkEntry, MarkNoEntry, MarkDisk, MarkPublish, EofPublish, PurgeNext, osVars
  <2>. QED
    BY <2>2, <2>3, <2>4, <2>5
<1>2. ASSUME NEW x \in Shell,
             ChildDies(x, "own") \/ ChildDies(x, "signal") \/ SpawnLaunch(x)
      PROVE  sig' = sig
  BY <1>2 DEF ChildDies, SpawnLaunch
<1>3. CASE Crash
  BY <1>3 DEF Crash
<1>. QED
  BY <1>1, <1>2, <1>3, SpawnFrame, ReactorFrame, CallFrame DEF Next

\* The process that forked a shell is fixed, and later processes come after it.
LEMMA HomeStep ==
  ASSUME TypeOK, BornInv, Next, NEW s \in Shell
  PROVE  /\ gen' = gen \/ gen' = gen + 1
         /\ asked \subseteq asked'
         /\ home'[s] = home[s] \/ home[s] = 0
<1>1. ASSUME NEW x \in Shell, ChildDies(x, "own") \/ ChildDies(x, "signal")
      PROVE  UNCHANGED <<gen, asked, home>>
  BY <1>1 DEF ChildDies, mgrVars
<1>2. ASSUME NEW x \in Shell, SpawnLaunch(x)
      PROVE  UNCHANGED <<gen, asked>> /\ (home'[s] = home[s] \/ home[s] = 0)
  BY <1>2 DEF TypeOK, BornInv, SpawnLaunch
<1>3. ASSUME NEW c \in Client, Call(c) PROVE UNCHANGED <<gen, home>> /\ asked \subseteq asked'
  BY <1>3, CallFrame DEF Call, TerminateLookup, Eof, ShutdownBegin, PurgeBegin
<1>4. CASE Crash
  BY <1>4 DEF Crash
<1>. QED
  BY <1>1, <1>2, <1>3, <1>4, SpawnFrame, ReactorFrame, ContinueFrame DEF Next

LEMMA KillStep ==
  ASSUME TypeOK, BornInv, ClientInv, KillScope, Next
  PROVE  KillScope'
<1>. SUFFICES ASSUME NEW s \in Shell, sig'[s] # {}, s \notin asked'
              PROVE  /\ ~SharedGroup /\ sig'[s] = {"KILL"} /\ home'[s] < gen'
                     /\ \E x \in asked' : home'[x] = home'[s]
  BY DEF KillScope
<1>1. s \notin asked /\ asked \subseteq asked'
  BY HomeStep
<1>2. /\ ~SharedGroup /\ sig'[s] = {"KILL"} /\ home[s] < gen
      /\ \E x \in asked : home[x] = home[s]
  <2>1. CASE sig'[s] = sig[s]
    BY <1>1, <2>1 DEF KillScope
  <2>2. CASE sig'[s] # sig[s]
    <3>1. /\ ~SharedGroup /\ sig'[s] = sig[s] \cup {"KILL"} /\ home[s] # gen
          /\ \E x \in asked : home[x] = home[s]
      BY <1>1, <2>2, SignalStep
    <3>2. sig[s] = {} \/ sig[s] = {"KILL"}
      BY <1>1 DEF KillScope
    <3>3. home[s] < gen
      BY <3>1, BoundsAssumption DEF TypeOK, BornInv
    <3>. QED
      BY <3>1, <3>2, <3>3
  <2>. QED
    BY <2>1, <2>2
<1>3. home[s] # 0
  <2>1. sig[s] # {} \/ sig'[s] # sig[s]
    OBVIOUS
  <2>2. CASE sig[s] # {}
    BY <2>2, BoundsAssumption DEF TypeOK, BornInv
  <2>3. CASE sig[s] = {}
    <3>1. os[s] = "live"
      BY <1>1, <2>1, <2>3, SignalStep
    <3>. QED
      BY <3>1, BoundsAssumption DEF TypeOK, BornInv
  <2>. QED
    BY <2>2, <2>3
<1>4. PICK x \in asked : home[x] = home[s]
  BY <1>2
<1>5. x \in Shell
  BY DEF TypeOK
<1>6. home'[s] = home[s] /\ home'[x] = home[x] /\ (gen' = gen \/ gen' = gen + 1)
  BY <1>3, <1>4, <1>5, HomeStep
<1>. QED
  BY <1>1, <1>2, <1>4, <1>6, BoundsAssumption DEF TypeOK

\* An Exited entry comes from an Exited one with the same code, from the
\* reactor, or from the call of somebody who asked to stop the shell.
LEMMA ExitCodeStep ==
  ASSUME TypeOK, ClientInv, Next, NEW s \in Shell, HasStatus(entry'[s], "Exited"),
         s \notin asked
  PROVE  \/ HasStatus(entry[s], "Exited") /\ entry'[s].code = entry[s].code
         \/ s \in found /\ entry'[s].code = ReactorCode(s)
<1>. DEFINE Same == HasStatus(entry[s], "Exited") /\ entry'[s].code = entry[s].code
<1>1. entry'[s] = entry[s] => Same
  BY DEF HasStatus
<1>2. ASSUME NEW x \in Shell, ChildDies(x, "own") \/ ChildDies(x, "signal") \/ SpawnLaunch(x)
      PROVE  entry' = entry
  BY <1>2 DEF ChildDies, SpawnLaunch, mgrVars
<1>3. ASSUME NEW x \in Shell, SpawnContinue(x) PROVE entry'[s] = entry[s]
  <2>1. CASE SpawnInsert(x)
    BY <2>1 DEF TypeOK, SpawnInsert, NewRecord, HasStatus
  <2>2. CASE ~SpawnInsert(x)
    BY <1>3, <2>2 DEF SpawnContinue, SpawnPersist, SpawnPersistFails, SpawnWatch, SpawnPublish
  <2>. QED
    BY <2>1, <2>2
<1>4. CASE Reactor
  <2>1. ASSUME NEW x \in Shell, ReactorRecord(x)
        PROVE  entry'[s] = entry[s] \/ (s \in found /\ entry'[s].code = ReactorCode(s))
    <3>1. x \in found
      BY <2>1 DEF ReactorRecord
    <3>2. \/ entry' = entry
          \/ entry[x] # None /\ entry' = [entry EXCEPT ![x] = Exited(entry[x], ReactorCode(x))]
      BY <2>1 DEF ReactorRecord
    <3>3. entry[x] # None => Exited(entry[x], ReactorCode(x)).code = ReactorCode(x)
      BY DEF TypeOK, Record, Exited
    <3>. QED
      BY <3>1, <3>2, <3>3 DEF TypeOK
  <2>2. CASE ReactorReceive \/ ReactorScan \/ ReactorPublish
    BY <2>2 DEF ReactorReceive, ReactorScan, ReactorPublish, mgrVars
  <2>. QED
    BY <1>1, <1>4, <2>1, <2>2 DEF Reactor
<1>5. ASSUME NEW c \in Client, Call(c) PROVE Same
  <2>1. ASSUME NEW x \in Shell, Eof(c, x) PROVE Same
    <3>1. entry[x] \in Record /\ entry' = [entry EXCEPT ![x] = [entry[x] EXCEPT !.stdin = FALSE]]
      BY <2>1 DEF TypeOK, Eof
    <3>2. /\ [entry[x] EXCEPT !.stdin = FALSE].code = entry[x].code
          /\ [entry[x] EXCEPT !.stdin = FALSE].status = entry[x].status
      BY <3>1 DEF Record
    <3>3. entry[x] # None
      BY <2>1 DEF Eof
    <3>. QED
      BY <1>1, <3>1, <3>2, <3>3 DEF TypeOK, HasStatus
  <2>2. CASE \A x \in Shell : ~Eof(c, x)
    BY <1>1, <1>5, <2>2 DEF Call, TerminateLookup, ShutdownBegin, PurgeBegin, mgrVars
  <2>. QED
    BY <2>1, <2>2
<1>6. ASSUME NEW c \in Client, Continue(c) PROVE entry'[s] = entry[s]
  <2>1. CASE MarkEntry(c)
    <3>1. call[c].tgt \in asked
      BY <2>1 DEF ClientInv, ClientOK, HasTarget, MarkEntry, At
    <3>. QED
      BY <2>1, <3>1 DEF TypeOK, MarkEntry
  <2>2. CASE ~MarkEntry(c)
    BY <1>6, <2>2 DEF Continue, TerminateChild, TerminateLoad, TerminateCheck,
       TerminateSignal, TerminateAwait, ShutdownTerm, ShutdownEscalate, ShutdownSweep,
       MarkNoEntry, MarkDisk, MarkPublish, EofPublish, PurgeNext, mgrVars
  <2>. QED
    BY <2>1, <2>2
<1>7. ~Crash
  BY DEF Crash, HasStatus
<1>. QED
  BY <1>1, <1>2, <1>3, <1>4, <1>5, <1>6, <1>7 DEF Next

\* A dead child's cause of death is settled.
LEMMA CodeStep ==
  ASSUME TypeOK, GoneInv, ClientInv, ExitedIsDead, CodeInv, Next
  PROVE  CodeInv'
<1>. SUFFICES ASSUME NEW s \in Shell, HasStatus(entry'[s], "Exited"), s \notin asked'
              PROVE  entry'[s].code = ReactorCode(s)'
  BY DEF CodeInv, HasStatus
<1>1. s \notin asked
  <2>1. ASSUME NEW d \in Client, Call(d) PROVE asked \subseteq asked'
    BY <2>1 DEF Call, TerminateLookup, Eof, ShutdownBegin, PurgeBegin
  <2>2. ASSUME NEW x \in Shell,
               ChildDies(x, "own") \/ ChildDies(x, "signal") \/ SpawnLaunch(x)
        PROVE  asked \subseteq asked'
    BY <2>2 DEF ChildDies, SpawnLaunch
  <2>3. CASE Crash
    BY <2>3 DEF Crash
  <2>. QED
    BY <2>1, <2>2, <2>3, SpawnFrame, ReactorFrame, ContinueFrame DEF Next
<1>2. \/ HasStatus(entry[s], "Exited") /\ entry'[s].code = entry[s].code
      \/ s \in found /\ entry'[s].code = ReactorCode(s)
  BY <1>1, ExitCodeStep
<1>3. Dead(s) /\ entry'[s].code = ReactorCode(s)
  BY <1>1, <1>2 DEF GoneInv, ExitedIsDead, CodeInv
<1>4. cause'[s] = cause[s]
  <2>1. ASSUME NEW x \in Shell, ChildDies(x, "own") \/ ChildDies(x, "signal")
        PROVE  cause'[s] = cause[s]
    BY <1>3, <2>1 DEF TypeOK, ChildDies, Dead
  <2>2. ASSUME NEW x \in Shell, SpawnLaunch(x) PROVE cause' = cause
    BY <2>2 DEF SpawnLaunch
  <2>3. CASE Crash
    BY <2>3 DEF Crash
  <2>. QED
    BY <2>1, <2>2, <2>3, SpawnFrame, ReactorFrame, CallFrame, ContinueFrame DEF Next
<1>. QED
  BY <1>3, <1>4 DEF ReactorCode

LEMMA StepInv ==
  ASSUME Inv, [Next]_vars
  PROVE  Inv'
<1>1. CASE UNCHANGED vars
  BY <1>1 DEF Inv, vars, osVars, storeVars, mgrVars, reactorVars, TypeOK, BornInv, SpawnInv,
     GoneInv, ClientInv, ClientOK, CodeInv, ReactorCode, ExitedIsDead, RunningIsWatched,
     DiskNotStale, KillScope, Dead, HasStatus
<1>2. CASE Next
  <2>. USE DEF Inv
  <2>1. TypeOK'
    BY <1>2, NextType
  <2>2. BornInv' /\ SpawnInv' /\ GoneInv' /\ ClientInv' /\ CodeInv'
    BY <1>2, BornStep, SpawnStep, GoneStep, ClientStep, CodeStep
  <2>3. ExitedIsDead' /\ RunningIsWatched' /\ KillScope'
    BY <1>2, ExitedStep, WatchedStep, KillStep
  <2>4. DiskNotStale'
    BY <1>2, <2>1, <2>2, <2>3, DiskStep
  <2>. QED
    BY <2>1, <2>2, <2>3, <2>4
<1>. QED
  BY <1>1, <1>2

-----------------------------------------------------------------------------
(* The theorems.                                                           *)

\* The inductive invariant holds in every reachable state.
THEOREM Invariance == Spec => []Inv
<1>1. Init => Inv
  BY InitInv
<1>2. Inv /\ [Next]_vars => Inv'
  BY StepInv
<1>. QED
  BY <1>1, <1>2, PTL DEF Spec

\* Every variable keeps its type.
THEOREM TypeCorrect == Spec => []TypeOK
<1>1. Inv => TypeOK
  BY DEF Inv
<1>. QED
  BY <1>1, Invariance, PTL

\* However reactor, clients and spawning threads interleave, and across
\* crashes, no shell is called Exited by its entry, its record or an event
\* while its child lives.
THEOREM ExitedIsDeadAlways == Spec => []ExitedIsDead
<1>1. Inv => ExitedIsDead
  BY DEF Inv
<1>. QED
  BY <1>1, Invariance, PTL

\* No Running entry escapes the reactor.
THEOREM RunningIsWatchedAlways == Spec => []RunningIsWatched
<1>1. Inv => RunningIsWatched
  BY DEF Inv
<1>. QED
  BY <1>1, Invariance, PTL

\* As long as no write fails the metadata directory is not behind the entries,
\* whoever purges a record and whoever writes it again; and whatever fails, a
\* living child keeps its record.
THEOREM DiskNotStaleAlways == Spec => []DiskNotStale
<1>1. Inv => DiskNotStale
  BY DEF Inv
<1>. QED
  BY <1>1, Invariance, PTL

\* Only shells that were asked for, and siblings inherited with one of them,
\* are signalled.
THEOREM KillScopeAlways == Spec => []KillScope
<1>1. Inv => KillScope
  BY DEF Inv
<1>. QED
  BY <1>1, Invariance, PTL

\* Within one manager an Exited entry stays Exited, and its exit code changes
\* only when somebody asked to stop the shell.
THEOREM ExitIsFinalAlways == Spec => ExitIsFinal
<1>. DEFINE Final == \A s \in Shell :
       HasStatus(entry[s], "Exited") /\ gen' = gen
         => /\ HasStatus(entry'[s], "Exited")
            /\ entry'[s].code # entry[s].code => s \in asked
<1>1. Inv /\ [Next]_vars => [Final]_vars
  <2>. SUFFICES ASSUME Inv, Next, NEW s \in Shell, HasStatus(entry[s], "Exited"), gen' = gen
                PROVE  /\ HasStatus(entry'[s], "Exited")
                       /\ entry'[s].code # entry[s].code => s \in asked
    OBVIOUS
  <2>1. \/ Kept(s) \/ Saved(s) \/ Inserted(s)
        \/ Rewritten(s) \/ Marked(s) \/ Purged(s) \/ Forgotten(s)
    BY RecordStep DEF Inv
  <2>2. ~Crash
    BY BoundsAssumption DEF Inv, TypeOK, Crash
  <2>3. spc[s] \in {"inserted", "watched", "done"}
    BY DEF Inv, SpawnInv, HasStatus
  <2>4. HasStatus(entry'[s], "Exited")
    BY <2>1, <2>2, <2>3, NoneAssumption DEF HasStatus, Kept, Saved, Inserted, Rewritten,
       Marked, Purged, Forgotten
  <2>5. s \notin asked => entry'[s].code = entry[s].code
    BY <2>4, ExitCodeStep DEF Inv, CodeInv
  <2>. QED
    BY <2>4, <2>5
<1>. QED
  BY <1>1, Invariance, PTL DEF Spec, ExitIsFinal

-----------------------------------------------------------------------------
(* The refinement of ShellContract: its initial states and its steps.      *)

\* Where the thread that spawns a shell stands, before and after a step.
LEMMA SpawnPcStep ==
  ASSUME TypeOK, Next, NEW s \in Shell
  PROVE  \/ spc'[s] = spc[s] /\ ~Crash
         \/ spc[s] = "idle" /\ spc'[s] = "launched"
         \/ spc[s] = "launched" /\ spc'[s] \in {"persisted", "untracked"}
         \/ spc[s] = "persisted" /\ spc'[s] = "inserted"
         \/ spc[s] = "inserted" /\ spc'[s] = "watched"
         \/ spc[s] = "watched" /\ spc'[s] = "done"
         \/ Crash
<1>1. ASSUME NEW x \in Shell, ChildDies(x, "own") \/ ChildDies(x, "signal")
      PROVE  spc' = spc
  BY <1>1 DEF ChildDies, mgrVars
<1>2. ASSUME NEW x \in Shell, SpawnLaunch(x)
      PROVE  spc'[s] = spc[s] \/ (spc[s] = "idle" /\ spc'[s] = "launched")
  BY <1>2 DEF TypeOK, SpawnLaunch
<1>3. ASSUME NEW x \in Shell, SpawnContinue(x)
      PROVE  \/ spc'[s] = spc[s]
             \/ spc[s] = "launched" /\ spc'[s] \in {"persisted", "untracked"}
             \/ spc[s] = "persisted" /\ spc'[s] = "inserted"
             \/ spc[s] = "inserted" /\ spc'[s] = "watched"
             \/ spc[s] = "watched" /\ spc'[s] = "done"
  BY <1>3 DEF TypeOK, SpawnContinue, SpawnPersist, SpawnPersistFails, SpawnInsert,
     SpawnWatch, SpawnPublish
<1>. QED
  BY <1>1, <1>2, <1>3, ReactorFrame, CallFrame, ContinueFrame DEF Next

\* The refinement mapping.
Child(s) == IF Dead(s) THEN "dead" ELSE os[s]
Known(s) == spc[s] \in {"inserted", "watched", "done", "inherited"}
View(s)  == IF spc[s] \in {"idle", "launched", "untracked"}
            THEN "absent"
            ELSE IF VisibleStatus(s) = "absent" THEN "purged" ELSE VisibleStatus(s)

\* A view is Exited or purged only of a dead child.
LEMMA ViewExited ==
  ASSUME Inv, NEW s \in Shell, View(s) \in {"Exited", "purged"}
  PROVE  Dead(s)
<1>1. entry[s] \in Record \cup {None} /\ disk[s] \in Record \cup {None} /\ spc[s] \in SpawnPc
  BY DEF Inv, TypeOK
<1>2. \A r \in Record : r.status \in {"Running", "Exited"}
  BY DEF Record, Status
<1>3. spc[s] \in {"persisted", "inserted", "watched", "done", "inherited"}
  BY <1>1 DEF SpawnPc, View
<1>4. CASE VisibleStatus(s) = "absent"
  BY <1>1, <1>2, <1>3, <1>4 DEF Inv, SpawnInv, VisibleStatus
<1>5. CASE VisibleStatus(s) # "absent"
  BY <1>1, <1>2, <1>3, <1>5 DEF Inv, ExitedIsDead, HasStatus, View, VisibleStatus
<1>. QED
  BY <1>4, <1>5

LEMMA ViewExitedNext ==
  ASSUME Inv', NEW s \in Shell, View(s)' \in {"Exited", "purged"}
  PROVE  Dead(s)'
<1>1. entry'[s] \in Record \cup {None} /\ disk'[s] \in Record \cup {None} /\ spc'[s] \in SpawnPc
  BY DEF Inv, TypeOK
<1>2. \A r \in Record : r.status \in {"Running", "Exited"}
  BY DEF Record, Status
<1>3. spc'[s] \in {"persisted", "inserted", "watched", "done", "inherited"}
  BY <1>1 DEF SpawnPc, View
<1>4. CASE VisibleStatus(s)' = "absent"
  BY <1>1, <1>2, <1>3, <1>4 DEF Inv, SpawnInv, VisibleStatus
<1>5. CASE VisibleStatus(s)' # "absent"
  BY <1>1, <1>2, <1>3, <1>5 DEF Inv, ExitedIsDead, HasStatus, View, VisibleStatus
<1>. QED
  BY <1>4, <1>5

LEMMA ViewStep ==
  ASSUME Inv, Inv', Next, NEW s \in Shell
  PROVE  \/ View(s)' = View(s)
         \/ View(s) = "absent" /\ os[s] # "unborn" /\ View(s)' \in {"Running", "Exited", "purged"}
         \/ View(s) \in {"Running", "Exited", "purged"} /\ View(s)' \in {"Exited", "purged"}
         \/ /\ View(s) \in {"Exited", "purged"} /\ View(s)' = "Running"
            /\ ~Known(s) /\ Known(s)'
<1>. USE DEF Inv
<1>. DEFINE Before == {"idle", "launched", "untracked"}
            Owned  == {"inserted", "watched", "done"}
            After  == {"persisted", "inherited"} \cup Owned
<1>1. /\ entry[s] # None => spc[s] \in Owned /\ entry[s] \in Record
      /\ spc[s] # "idle" => os[s] # "unborn"
      /\ disk[s] \in Record \cup {None}
  BY DEF TypeOK, SpawnInv, BornInv
<1>2. /\ entry'[s] # None => entry'[s] \in Record
      /\ disk'[s] \in Record \cup {None}
  BY DEF TypeOK
<1>3. \A r \in Record : r # None /\ r.status \in {"Running", "Exited"}
  BY NoneAssumption DEF Record, Status
<1>4. Dead(s) => Dead(s)'
  BY DeadStays
<1>5. Inserted(s) => ~Known(s) /\ Known(s)'
  BY DEF Inserted, Known
<1>6. ASSUME spc[s] \in After, spc'[s] \in After, View(s) \in {"Exited", "purged"}, ~Inserted(s)
      PROVE  View(s)' \in {"Exited", "purged"}
  <2>1. Dead(s) /\ Dead(s)'
    BY <1>4, <1>6, ViewExited
  <2>2. CASE entry'[s] = None
    BY <1>2, <1>3, <1>6, <2>1, <2>2 DEF View, VisibleStatus
  <2>3. CASE entry'[s] # None
    <3>1. \/ Kept(s) \/ Saved(s) \/ Inserted(s)
          \/ Rewritten(s) \/ Marked(s) \/ Purged(s) \/ Forgotten(s)
      BY RecordStep
    <3>2. entry[s] \in Record /\ (entry'[s].status \in {entry[s].status, "Exited"})
      BY <1>1, <1>3, <1>6, <2>3, <3>1
         DEF Kept, Saved, Inserted, Rewritten, Marked, Purged, Forgotten
    <3>3. entry[s].status = "Exited"
      BY <1>3, <1>6, <3>2 DEF View, VisibleStatus
    <3>. QED
      BY <1>6, <2>3, <3>2, <3>3 DEF View, VisibleStatus
  <2>. QED
    BY <2>2, <2>3
<1>7. ASSUME spc'[s] \in After
      PROVE  View(s)' \in {"Running", "Exited", "purged"}
  BY <1>2, <1>3, <1>7 DEF View, VisibleStatus
<1>8. ASSUME spc[s] \in After
      PROVE  View(s) \in {"Running", "Exited", "purged"}
  BY <1>1, <1>3, <1>8 DEF View, VisibleStatus
<1>9. /\ spc[s] \in Before => View(s) = "absent"
      /\ spc'[s] \in Before => View(s)' = "absent"
  BY DEF View
<1>10. \/ spc[s] \in Before /\ spc'[s] \in Before
       \/ spc[s] = "launched" /\ spc'[s] \in After
       \/ spc[s] \in After /\ spc'[s] \in After
  <2>1. CASE Crash
    BY <2>1 DEF TypeOK, SpawnPc, Crash
  <2>2. CASE ~Crash
    BY <2>2, SpawnPcStep DEF TypeOK, SpawnPc
  <2>. QED
    BY <2>1, <2>2
<1>. QED
  BY <1>1, <1>5, <1>6, <1>7, <1>8, <1>9, <1>10

\* The view of every shell moves as ShellContract allows.
THEOREM Refinement == Spec => Contract!Safety
<1>1. Init => Contract!Init
  <2>. SUFFICES ASSUME Init PROVE Contract!Init
    OBVIOUS
  <2>1. \A s \in Shell : ~Known(s) /\ View(s) = "absent" /\ Child(s) = "unborn"
    BY DEF Init, Known, View, Child, Dead
  <2>2. [s \in Shell |-> Known(s)] = [s \in Shell |-> FALSE]
    <3>1. ASSUME NEW s \in Shell PROVE Known(s) = FALSE
      <4>1. ~Known(s)
        BY <2>1
      <4>. QED
        BY ONLY <4>1, SMT DEF Known
    <3>. QED
      BY <3>1, Zenon
  <2>3. [s \in Shell |-> View(s)] = [s \in Shell |-> "absent"]
    BY <2>1, Zenon
  <2>4. [s \in Shell |-> Child(s)] = [s \in Shell |-> "unborn"]
    BY <2>1, Zenon
  <2>. QED
    BY <2>2, <2>3, <2>4, Zenon DEF Contract!Init, Known, View, Child
<1>2. Inv /\ Inv' /\ [Next]_vars => [Contract!Next]_Contract!vars
  <2>. SUFFICES ASSUME Inv, Inv', [Next]_vars PROVE [Contract!Next]_Contract!vars
    OBVIOUS
  <2>1. CASE UNCHANGED vars
    BY <2>1 DEF vars, osVars, storeVars, mgrVars, Contract!vars, Dead, VisibleStatus
  <2>2. CASE Next
    <3>. SUFFICES ASSUME NEW s \in Shell PROVE Contract!ShellStep(s)
      BY DEF Contract!Next
    <3>1. Child(s)' = Child(s) \/ <<Child(s), Child(s)'>> \in {<<"unborn", "live">>, <<"live", "dead">>}
      BY <2>2, OsStep DEF Inv, TypeOK, Dead, Child
    <3>2. \/ View(s)' = View(s)
          \/ /\ View(s) = "absent" /\ Child(s) # "unborn"
             /\ View(s)' \in {"Running", "Exited", "purged"}
          \/ /\ View(s) \in {"Running", "Exited", "purged"}
             /\ View(s)' \in {"Exited", "purged"}
          \/ /\ View(s) \in {"Exited", "purged"} /\ View(s)' = "Running"
             /\ ~Known(s) /\ Known(s)'
      BY <2>2, ViewStep DEF Child
    <3>3. View(s)' \in {"Exited", "purged"} => Child(s)' = "dead"
      <4>1. View(s)' \in {"Exited", "purged"} => Dead(s)'
        BY ViewExitedNext
      <4>. QED
        BY <4>1 DEF Child
    <3>4. Known(s) => Known(s)'
      <4>1. CASE Crash
        BY <4>1 DEF Inv, TypeOK, Crash, Known
      <4>2. CASE ~Crash
        BY <2>2, <4>2, SpawnPcStep DEF Inv, Known
      <4>. QED
        BY <4>1, <4>2
    <3>5. Known(s)' => View(s)' # "absent"
      BY DEF Known, View
    <3>. QED
      BY <3>1, <3>2, <3>3, <3>4, <3>5 DEF Contract!ShellStep, Contract!ChildStep,
         Contract!ViewStep, Contract!Gone, Child, Known, View
  <2>. QED
    BY <2>1, <2>2
<1>. QED
  BY <1>1, <1>2, Invariance, PTL DEF Spec, Contract!Safety

-----------------------------------------------------------------------------
(* The plan of a shutdown, for any number of processes.                    *)

\* Of any numbers one is the least.
LEMMA LeastOf ==
  ASSUME NEW S \in SUBSET Nat, S # {}
  PROVE  \E x \in S : \A y \in S : x <= y
<1>1. PICK x \in S : \A y \in S : <<y, x>> \notin OpToRel(<, Nat)
  BY WFMin, NatLessThanWellFounded
<1>2. ASSUME NEW y \in S
      PROVE  x <= y
  <2>1. x \in Nat /\ y \in Nat /\ <<y, x>> \in Nat \X Nat
    OBVIOUS
  <2>2. ~(y < x)
    BY <1>1, <2>1 DEF OpToRel
  <2>. QED
    BY <2>1, <2>2
<1>. QED
  BY <1>2

\* Induction over the natural numbers, for sets of numbers.
LEMMA Induction ==
  ASSUME NEW P, 0 \in P, \A n \in Nat : n \in P => n + 1 \in P
  PROVE  \A n \in Nat : n \in P
<1>1. SUFFICES ASSUME NEW n \in Nat, n \notin P PROVE FALSE
  OBVIOUS
<1>2. PICK m \in Nat \ P : \A k \in Nat \ P : m <= k
  <2>1. Nat \ P \in SUBSET Nat /\ Nat \ P # {}
    BY <1>1
  <2>. QED
    BY <2>1, LeastOf
<1>3. m # 0 /\ m - 1 \in Nat /\ ~(m <= m - 1) /\ (m - 1) + 1 = m
  BY <1>2
<1>. QED
  BY <1>2, <1>3

-----------------------------------------------------------------------------
(* The rounds of a loop.                                                   *)

\* The first n rounds of step, from x on.
Rounded(f, step, x, n) ==
  /\ f[0] = x
  /\ \A k \in 1..n : f[k] = step[f[k-1]]

LEMMA RoundedExists ==
  ASSUME NEW S, NEW step \in [S -> S], NEW x \in S
  PROVE  \A n \in Nat : \E f \in [0..n -> S] : Rounded(f, step, x, n)
<1>. DEFINE P == {n \in Nat : \E f \in [0..n -> S] : Rounded(f, step, x, n)}
<1>1. 0 \in P
  <2>1. [k \in 0..0 |-> x] \in [0..0 -> S] /\ Rounded([k \in 0..0 |-> x], step, x, 0)
    BY DEF Rounded
  <2>. QED
    BY <2>1
<1>2. ASSUME NEW n \in Nat, n \in P
      PROVE  n + 1 \in P
  <2>1. PICK f \in [0..n -> S] : Rounded(f, step, x, n)
    BY <1>2
  <2>. DEFINE g == [k \in 0..(n + 1) |-> IF k = n + 1 THEN step[f[n]] ELSE f[k]]
  <2>2. n \in 0..n /\ f[n] \in S /\ step[f[n]] \in S
    BY <1>2
  <2>3. \A k \in 0..(n + 1) : k # n + 1 => k \in 0..n
    BY <1>2
  <2>4. g \in [0..(n + 1) -> S]
    BY <2>2, <2>3
  <2>5. g[0] = x
    BY <2>1, <1>2 DEF Rounded
  <2>6. ASSUME NEW k \in 1..(n + 1)
        PROVE  g[k] = step[g[k-1]]
    <3>1. k \in Nat /\ k - 1 \in 0..n /\ k - 1 # n + 1 /\ k \in 0..(n + 1) /\ k - 1 \in 0..(n + 1)
      BY <1>2
    <3>2. g[k-1] = f[k-1]
      BY <3>1
    <3>3. CASE k = n + 1
      BY <3>1, <3>2, <3>3
    <3>4. CASE k # n + 1
      BY <3>1, <3>2, <3>4, <2>1 DEF Rounded
    <3>. QED
      BY <3>3, <3>4
  <2>7. Rounded(g, step, x, n + 1)
    BY <2>5, <2>6 DEF Rounded
  <2>. QED
    BY <2>4, <2>7
<1>3. \A n \in Nat : n \in P
  <2>. HIDE DEF P
  <2>. QED
    BY <1>1, <1>2, Induction
<1>. QED
  BY <1>3

LEMMA RoundedUnique ==
  ASSUME NEW S, NEW step \in [S -> S], NEW x \in S, NEW n \in Nat, NEW m \in Nat,
         n <= m, NEW f, NEW g, Rounded(f, step, x, n), Rounded(g, step, x, m)
  PROVE  f[n] = g[n]
<1>. DEFINE P == {k \in Nat : k <= n => f[k] = g[k]}
<1>1. 0 \in P
  BY DEF Rounded
<1>2. ASSUME NEW k \in Nat, k \in P
      PROVE  k + 1 \in P
  <2>1. SUFFICES ASSUME k + 1 <= n PROVE f[k + 1] = g[k + 1]
    BY <1>2
  <2>2. k <= n /\ k + 1 \in 1..n /\ k + 1 \in 1..m /\ (k + 1) - 1 = k
    BY <2>1
  <2>3. f[k] = g[k]
    BY <1>2, <2>2
  <2>4. f[k + 1] = step[f[k]] /\ g[k + 1] = step[g[k]]
    BY <2>2 DEF Rounded
  <2>. QED
    BY <2>3, <2>4
<1>3. \A k \in Nat : k \in P
  <2>. HIDE DEF P
  <2>. QED
    BY <1>1, <1>2, Induction
<1>. QED
  BY <1>3

\* Rounds is what the rounds lead to.
LEMMA RoundsRounded ==
  ASSUME NEW S, NEW step \in [S -> S], NEW x \in S, NEW n \in Nat
  PROVE  \E f \in [0..n -> S] : Rounded(f, step, x, n) /\ Rounds(step, x, n) = f[n]
<1>. DEFINE F(g) == [k \in 0..n |-> IF k = 0 THEN x ELSE step[g[k-1]]]
            After == CHOOSE g : g = F(g)
<1>1. PICK f \in [0..n -> S] : Rounded(f, step, x, n)
  BY RoundedExists
<1>2. f = F(f)
  <2>1. \A k \in 0..n : k # 0 => k \in 1..n
    OBVIOUS
  <2>2. ASSUME NEW k \in 0..n
        PROVE  f[k] = F(f)[k]
    <3>1. CASE k = 0
      BY <1>1, <3>1 DEF Rounded
    <3>2. CASE k # 0
      BY <1>1, <3>2, <2>1 DEF Rounded
    <3>. QED
      BY <3>1, <3>2
  <2>. QED
    BY <2>2
<1>3. After = F(After)
  <2>. HIDE DEF F
  <2>. QED
    BY <1>2
<1>4. Rounds(step, x, n) = After[n]
  BY DEF Rounds
<1>. HIDE DEF After
<1>5. Rounded(After, step, x, n)
  BY <1>3 DEF Rounded
<1>6. After[n] = f[n]
  BY <1>1, <1>5, RoundedUnique
<1>. QED
  BY <1>1, <1>4, <1>6

LEMMA RoundsStep ==
  ASSUME NEW S, NEW step \in [S -> S], NEW x \in S, NEW n \in Nat
  PROVE  /\ Rounds(step, x, 0) = x
         /\ Rounds(step, x, n) \in S
         /\ Rounds(step, x, n + 1) = step[Rounds(step, x, n)]
<1>0. /\ \A m \in Nat :
           \E f \in [0..m -> S] : Rounded(f, step, x, m) /\ Rounds(step, x, m) = f[m]
      /\ 0 \in Nat /\ n + 1 \in Nat
  BY RoundsRounded
<1>1. Rounds(step, x, 0) = x
  <2>1. PICK f \in [0..0 -> S] : Rounded(f, step, x, 0) /\ Rounds(step, x, 0) = f[0]
    BY ONLY <1>0, Zenon
  <2>. QED
    BY <2>1 DEF Rounded
<1>2. /\ Rounds(step, x, n) \in S
      /\ Rounds(step, x, n + 1) = step[Rounds(step, x, n)]
  <2>1. PICK f \in [0..n -> S] : Rounded(f, step, x, n) /\ Rounds(step, x, n) = f[n]
    BY <1>0
  <2>2. PICK g \in [0..(n + 1) -> S] :
          Rounded(g, step, x, n + 1) /\ Rounds(step, x, n + 1) = g[n + 1]
    BY ONLY <1>0, Zenon
  <2>3. f[n] = g[n]
    <3>1. n + 1 \in Nat /\ n <= n + 1
      OBVIOUS
    <3>. QED
      BY <3>1, <2>1, <2>2, RoundedUnique
  <2>4. n \in 0..n /\ n + 1 \in 1..(n + 1) /\ (n + 1) - 1 = n
    OBVIOUS
  <2>5. g[n + 1] = step[g[n]]
    BY <2>2, <2>4 DEF Rounded
  <2>. QED
    BY <2>1, <2>2, <2>3, <2>4, <2>5
<1>. QED
  BY <1>1, <1>2

-----------------------------------------------------------------------------
(* What is selected.                                                       *)

\* A set that has with a process its children.
Family(s, parent) == \A q \in DOMAIN parent : parent[q] \in s => q \in s

LEMMA SelectRounds ==
  ASSUME NEW roots, NEW parent
  PROVE  LET R(n) == Rounds(Select(roots, parent), roots, n) IN
         /\ R(0) = roots
         /\ \A n \in Nat :
              /\ R(n) \in SUBSET (roots \cup DOMAIN parent)
              /\ R(n + 1) = R(n) \cup {p \in DOMAIN parent : parent[p] \in R(n)}
<1>. DEFINE S == SUBSET (roots \cup DOMAIN parent)
            step == Select(roots, parent)
<1>1. /\ step \in [S -> S] /\ roots \in S
      /\ \A s \in S : step[s] = s \cup {p \in DOMAIN parent : parent[p] \in s}
  BY DEF Select
<1>2. /\ Rounds(step, roots, 0) = roots
      /\ \A n \in Nat : /\ Rounds(step, roots, n) \in S
                        /\ Rounds(step, roots, n + 1) = step[Rounds(step, roots, n)]
  <2>. HIDE DEF S, step
  <2>. QED
    BY <1>1, RoundsStep
<1>. QED
  BY <1>1, <1>2

\* After as many rounds as processes were seen there is nothing to add.
LEMMA SelectedFamily ==
  ASSUME NEW roots, NEW parent, IsFiniteSet(DOMAIN parent)
  PROVE  /\ Selected(roots, parent) \subseteq roots \cup DOMAIN parent
         /\ roots \subseteq Selected(roots, parent)
         /\ Family(Selected(roots, parent), parent)
<1>. DEFINE D == DOMAIN parent
            S == SUBSET (roots \cup D)
            R(n) == Rounds(Select(roots, parent), roots, n)
            New(n) == R(n) \ roots
<1>1. /\ R(0) = roots
      /\ \A n \in Nat : /\ R(n) \in S
                        /\ R(n + 1) = R(n) \cup {p \in D : parent[p] \in R(n)}
  BY SelectRounds
<1>. HIDE DEF R
<1>2. \A n \in Nat : IsFiniteSet(New(n)) /\ Cardinality(New(n)) \in Nat /\ New(n) \subseteq D
  <2>. TAKE n \in Nat
  <2>1. New(n) \subseteq D
    BY <1>1
  <2>2. IsFiniteSet(New(n))
    BY <2>1, FS_Subset
  <2>. QED
    BY <2>1, <2>2, FS_CardinalityType
<1>. DEFINE P == {n \in Nat : /\ roots \subseteq R(n)
                              /\ Family(R(n), parent) \/ Cardinality(New(n)) >= n}
<1>3. 0 \in P
  <2>1. Cardinality(New(0)) >= 0
    BY <1>2
  <2>. QED
    BY <1>1, <2>1
<1>4. ASSUME NEW n \in Nat, n \in P
      PROVE  n + 1 \in P
  <2>1. /\ R(n + 1) = R(n) \cup {p \in D : parent[p] \in R(n)}
        /\ n + 1 \in Nat /\ roots \subseteq R(n)
    BY <1>1, <1>4
  <2>2. CASE Family(R(n), parent)
    <3>1. R(n + 1) = R(n)
      BY <2>1, <2>2 DEF Family
    <3>. QED
      BY <2>1, <2>2, <3>1
  <2>3. CASE ~Family(R(n), parent)
    <3>1. PICK q \in D : parent[q] \in R(n) /\ q \notin R(n)
      BY <2>3 DEF Family
    <3>2. q \in New(n + 1) /\ q \notin New(n) /\ New(n) \subseteq New(n + 1)
      BY <2>1, <3>1
    <3>3. /\ Cardinality(New(n)) <= Cardinality(New(n + 1))
          /\ Cardinality(New(n + 1)) = Cardinality(New(n)) => New(n + 1) = New(n)
      <4>1. IsFiniteSet(New(n + 1)) /\ New(n) \in SUBSET New(n + 1)
        BY <1>2, <2>1, <3>2
      <4>. HIDE DEF New
      <4>. QED
        BY <4>1, FS_Subset
    <3>4. Cardinality(New(n)) \in Nat /\ Cardinality(New(n + 1)) \in Nat
      BY <1>2, <2>1
    <3>5. Cardinality(New(n)) >= n
      BY <1>4, <2>3
    <3>6. Cardinality(New(n)) # Cardinality(New(n + 1))
      BY <3>2, <3>3
    <3>7. Cardinality(New(n + 1)) >= n + 1
      <4>. HIDE DEF New, P
      <4>. QED
        BY <3>3, <3>4, <3>5, <3>6
    <3>. QED
      BY <2>1, <3>7
  <2>. QED
    BY <2>2, <2>3
<1>5. \A n \in Nat : n \in P
  <2>. HIDE DEF P
  <2>. QED
    BY <1>3, <1>4, Induction
<1>6. Cardinality(D) \in Nat
  BY FS_CardinalityType
<1>7. Selected(roots, parent) = R(Cardinality(D))
  BY DEF Selected, R
<1>8. ASSUME Cardinality(New(Cardinality(D))) >= Cardinality(D)
      PROVE  Family(R(Cardinality(D)), parent)
  <2>. DEFINE T == New(Cardinality(D))
  <2>1. T \in SUBSET D /\ Cardinality(T) \in Nat
    BY <1>2, <1>6
  <2>2. Cardinality(T) <= Cardinality(D) /\ (Cardinality(D) = Cardinality(T) => D = T)
    <3>. HIDE DEF T
    <3>. QED
      BY <2>1, FS_Subset
  <2>3. Cardinality(D) = Cardinality(T)
    <3>1. Cardinality(T) >= Cardinality(D)
      BY <1>8
    <3>. HIDE DEF T
    <3>. QED
      BY <2>1, <1>6, <2>2, <3>1
  <2>. QED
    BY <2>2, <2>3 DEF Family
<1>. QED
  BY <1>1, <1>5, <1>6, <1>7, <1>8

\* Nothing is selected that need not be.
LEMMA SelectedLeast ==
  ASSUME NEW roots, NEW parent, IsFiniteSet(DOMAIN parent),
         NEW family, roots \subseteq family, Family(family, parent)
  PROVE  Selected(roots, parent) \subseteq family
<1>. DEFINE R(n) == Rounds(Select(roots, parent), roots, n)
            P == {n \in Nat : R(n) \subseteq family}
<1>1. /\ R(0) = roots
      /\ \A n \in Nat : R(n + 1) = R(n) \cup {p \in DOMAIN parent : parent[p] \in R(n)}
  BY SelectRounds
<1>2. Selected(roots, parent) = R(Cardinality(DOMAIN parent))
  BY DEF Selected
<1>. HIDE DEF R
<1>3. 0 \in P
  BY <1>1
<1>4. \A n \in Nat : n \in P => n + 1 \in P
  BY <1>1 DEF Family
<1>5. \A n \in Nat : n \in P
  <2>. HIDE DEF P
  <2>. QED
    BY <1>3, <1>4, Induction
<1>. QED
  BY <1>2, <1>5, FS_CardinalityType

LEMMA SelectedIsTree ==
  ASSUME NEW pids, NEW roots \in SUBSET pids, NEW parent,
         IsFiniteSet(DOMAIN parent), DOMAIN parent \subseteq pids
  PROVE  Selected(roots, parent) = Tree(roots, parent, pids)
<1>1. /\ Selected(roots, parent) \subseteq pids
      /\ roots \subseteq Selected(roots, parent)
      /\ Family(Selected(roots, parent), parent)
  BY SelectedFamily
<1>2. ASSUME NEW p \in Tree(roots, parent, pids)
      PROVE  p \in Selected(roots, parent)
  BY <1>1 DEF Tree, Family
<1>3. ASSUME NEW p \in Selected(roots, parent)
      PROVE  p \in Tree(roots, parent, pids)
  <2>1. ASSUME NEW family \in SUBSET pids, roots \subseteq family, Family(family, parent)
        PROVE  p \in family
    BY <1>3, <2>1, SelectedLeast
  <2>. QED
    BY <1>1, <1>3, <2>1 DEF Tree, Family
<1>. QED
  BY <1>2, <1>3

-----------------------------------------------------------------------------
(* The way up.                                                             *)

LEMMA Upward ==
  ASSUME NEW parent, \A q \in DOMAIN parent : parent[q] \in Nat
  PROVE  \A p \in Nat :
           /\ Forebear(p, parent, 0) = p
           /\ \A n \in Nat :
                /\ Forebear(p, parent, n) \in DOMAIN parent =>
                     Forebear(p, parent, n + 1) = parent[Forebear(p, parent, n)]
                /\ Forebear(p, parent, n) \notin DOMAIN parent =>
                     Forebear(p, parent, n + 1) = Forebear(p, parent, n)
<1>. TAKE p \in Nat
<1>1. PICK S, step, x : S = Nat /\ step = Climb(parent) /\ x = p
  OBVIOUS
<1>2. step \in [S -> S] /\ x \in S
  BY <1>1 DEF Climb
<1>3. ASSUME NEW n \in Nat
      PROVE  /\ Rounds(step, x, 0) = x
             /\ Rounds(step, x, n) \in S
             /\ Rounds(step, x, n + 1) = step[Rounds(step, x, n)]
  BY ONLY <1>2, RoundsStep, n \in Nat
<1>. QED
  BY <1>1, <1>3 DEF Climb, Forebear

\* The way up ends, and where it does first is its ascent.
LEMMA AscentEnds ==
  ASSUME NEW parent, IsFiniteSet(DOMAIN parent),
         \A q \in DOMAIN parent : parent[q] \in Nat, NEW p \in Nat, NEW top
  PROVE  /\ Ascent(p, parent, top) \in Nat
         /\ Ends(p, parent, top, Ascent(p, parent, top))
         /\ \A m \in Nat : m < Ascent(p, parent, top) => ~Ends(p, parent, top, m)
<1>. DEFINE D == DOMAIN parent
            N == Cardinality(D)
            F(n) == Forebear(p, parent, n)
            E == {n \in 0..N : Ends(p, parent, top, n)}
<1>1. N \in Nat
  BY FS_CardinalityType
<1>2. E # {}
  <2>1. SUFFICES ASSUME \A n \in 0..N : ~Ends(p, parent, top, n)
                 PROVE  FALSE
    OBVIOUS
  <2>. DEFINE f == [n \in 0..N |-> F(n)]
  <2>2. f \in [0..N -> D]
    BY <2>1 DEF Ends
  <2>3. IsFiniteSet(0..N) /\ Cardinality(D) < Cardinality(0..N)
    <3>1. 0 \in Int /\ N \in Int /\ ~(0 > N) /\ N - 0 + 1 > N
      BY <1>1
    <3>2. IsFiniteSet(0..N) /\ Cardinality(0..N) = N - 0 + 1
      <4>. HIDE DEF N
      <4>. QED
        BY <3>1, FS_Interval
    <3>. QED
      BY <3>1, <3>2
  <2>4. PICK x, y \in 0..N : x # y /\ f[x] = f[y]
    <3>. HIDE DEF f, N
    <3>. QED
      BY <2>2, <2>3, FS_PigeonHole
  <2>5. F(x) = F(y)
    BY <2>4
  <2>6. x < y \/ y < x
    BY <1>1, <2>4
  <2>7. CASE x < y
    <3>1. x \in 0..(y - 1)
      BY <1>1, <2>7
    <3>. QED
      BY <2>1, <2>5, <3>1 DEF Ends
  <2>8. CASE y < x
    <3>1. y \in 0..(x - 1)
      BY <1>1, <2>8
    <3>. QED
      BY <2>1, <2>5, <3>1 DEF Ends
  <2>. QED
    BY <2>6, <2>7, <2>8
<1>3. PICK a \in E : \A n \in E : a <= n
  <2>1. E \in SUBSET Nat
    BY <1>1
  <2>. QED
    BY <1>2, <2>1, LeastOf
<1>4. \A m \in 0..(a - 1) : ~Ends(p, parent, top, m)
  <2>. TAKE m \in 0..(a - 1)
  <2>1. m \in 0..N /\ ~(a <= m)
    BY <1>1, <1>3
  <2>. QED
    BY <1>3, <2>1
<1>5. /\ Ascent(p, parent, top) \in 0..N
      /\ Ends(p, parent, top, Ascent(p, parent, top))
      /\ \A m \in 0..(Ascent(p, parent, top) - 1) : ~Ends(p, parent, top, m)
  BY <1>3, <1>4 DEF Ascent
<1>6. Ascent(p, parent, top) \in Nat
  BY <1>1, <1>5
<1>7. \A m \in Nat : m < Ascent(p, parent, top) => m \in 0..(Ascent(p, parent, top) - 1)
  BY <1>6
<1>. QED
  BY <1>5, <1>6, <1>7
\* protected_process_pids finds the manager's ancestors and no other.
LEMMA ProtectedIsLineage ==
  ASSUME NEW pids \in SUBSET Nat, 0 \notin pids, NEW self \in pids, NEW parent,
         IsFiniteSet(DOMAIN parent), DOMAIN parent \subseteq pids,
         \A q \in DOMAIN parent : parent[q] \in pids \cup {0}
  PROVE  Protected(self, parent) = Lineage(self, parent, pids)
<1>. DEFINE D == DOMAIN parent
            F(n) == Forebear(self, parent, n)
            a == Ascent(self, parent, {0})
            C == {F(n) : n \in 0..a}
<1>1. self \in Nat /\ 0 \notin D /\ \A q \in D : parent[q] \in Nat
  <2>1. \A q \in pids \cup {0} : q \in Nat
    OBVIOUS
  <2>2. \A q \in D : parent[q] \in Nat
    BY ONLY <2>1, \A q \in DOMAIN parent : parent[q] \in pids \cup {0}
  <2>. QED
    BY <2>1, <2>2
<1>2. /\ F(0) = self
      /\ \A n \in Nat : /\ F(n) \in D => F(n + 1) = parent[F(n)]
                        /\ F(n) \notin D => F(n + 1) = F(n)
  BY ONLY <1>1, Upward
<1>3. a \in Nat /\ Ends(self, parent, {0}, a)
  BY <1>1, AscentEnds
<1>4. F(a) = 0 \/ F(a) \notin D \/ \E m \in 0..(a - 1) : F(a) = F(m)
  BY <1>3 DEF Ends
<1>. HIDE DEF F, a
<1>. DEFINE P == {n \in Nat : \A line \in SUBSET (pids \cup {0}) :
                     self \in line /\ (\A q \in line \cap D : parent[q] \in line)
                       => F(n) \in line}
<1>5. \A n \in Nat : n \in P
  <2>1. 0 \in P
    BY <1>2
  <2>2. ASSUME NEW n \in Nat, n \in P
        PROVE  n + 1 \in P
    <3>1. ASSUME NEW line \in SUBSET (pids \cup {0}), self \in line,
                 \A q \in line \cap D : parent[q] \in line
          PROVE  F(n + 1) \in line
      <4>1. F(n) \in line
        BY <2>2, <3>1
      <4>. QED
        BY <1>2, <3>1, <4>1
    <3>. QED
      BY <3>1
  <2>. HIDE DEF P
  <2>. QED
    BY <2>1, <2>2, Induction
<1>6. \A n \in Nat : F(n) \in pids \cup {0}
  <2>1. /\ pids \cup {0} \in SUBSET (pids \cup {0})
        /\ self \in pids \cup {0}
        /\ \A q \in (pids \cup {0}) \cap D : parent[q] \in pids \cup {0}
    OBVIOUS
  <2>. QED
    BY <1>5, <2>1
<1>7. /\ C \in SUBSET (pids \cup {0})
      /\ self \in C
      /\ \A q \in C \cap D : parent[q] \in C
  <2>1. C \in SUBSET (pids \cup {0}) /\ self \in C
    BY <1>2, <1>3, <1>6
  <2>2. ASSUME NEW n \in 0..a, F(n) \in D
        PROVE  parent[F(n)] \in C
    <3>1. CASE n # a
      <4>1. n \in Nat /\ n + 1 \in 0..a
        BY <1>3, <3>1
      <4>. QED
        BY <1>2, <2>2, <4>1
    <3>2. CASE n = a
      <4>1. PICK m \in 0..(a - 1) : F(a) = F(m)
        BY <1>1, <1>4, <2>2, <3>2
      <4>2. m \in Nat /\ m + 1 \in 0..a
        BY <1>3, <4>1
      <4>. QED
        BY <1>2, <2>2, <3>2, <4>1, <4>2
    <3>. QED
      BY <3>1, <3>2
  <2>. QED
    BY <2>1, <2>2
<1>8. Protected(self, parent) = C \ {0}
  BY DEF Protected, F, a
<1>9. Lineage(self, parent, pids) \subseteq C \ {0}
  BY <1>7 DEF Lineage
<1>10. C \ {0} \subseteq Lineage(self, parent, pids)
  <2>1. ASSUME NEW n \in 0..a, F(n) # 0
        PROVE  F(n) \in Lineage(self, parent, pids)
    BY <1>3, <1>5, <1>6, <2>1 DEF Lineage
  <2>. QED
    BY <2>1
<1>. QED
  BY <1>8, <1>9, <1>10

\* Unless processes are their own ancestors, one that is no root is deeper
\* than its parent.
LEMMA DeeperThanParent ==
  ASSUME NEW parent, DOMAIN parent \subseteq Nat, IsFiniteSet(DOMAIN parent),
         \A q \in DOMAIN parent : parent[q] \in Nat, Sane(parent),
         NEW roots, NEW p \in DOMAIN parent, p \notin roots
  PROVE  Depth(parent[p], roots, parent) < Depth(p, roots, parent)
<1>. DEFINE D == DOMAIN parent
            F(n) == Forebear(p, parent, n)
            G(n) == Forebear(parent[p], parent, n)
            a == Ascent(p, parent, roots)
            b == Ascent(parent[p], parent, roots)
<1>1. /\ p \in Nat /\ parent[p] \in Nat
      /\ \A q \in D : parent[q] \in Nat
  OBVIOUS
<1>2. /\ F(0) = p
      /\ \A n \in Nat : /\ F(n) \in D => F(n + 1) = parent[F(n)]
                        /\ F(n) \notin D => F(n + 1) = F(n)
  BY ONLY <1>1, Upward
<1>3. /\ G(0) = parent[p]
      /\ \A n \in Nat : /\ G(n) \in D => G(n + 1) = parent[G(n)]
                        /\ G(n) \notin D => G(n + 1) = G(n)
  BY ONLY <1>1, Upward
<1>4. /\ a \in Nat /\ Ends(p, parent, roots, a)
      /\ \A m \in Nat : m < a => ~Ends(p, parent, roots, m)
  BY <1>1, AscentEnds
<1>5. /\ b \in Nat
      /\ \A m \in Nat : m < b => ~Ends(parent[p], parent, roots, m)
  BY <1>1, AscentEnds
<1>6. /\ F(a) \in roots \/ F(a) \notin D \/ \E m \in 0..(a - 1) : F(a) = F(m)
      /\ \A n \in Nat : n < a => F(n) \in D
      /\ \A n \in Nat : G(n) \in roots \/ G(n) \notin D \/ (\E m \in 0..(n - 1) : G(n) = G(m))
           => Ends(parent[p], parent, roots, n)
  BY <1>4 DEF Ends
<1>7. Depth(p, roots, parent) = a /\ Depth(parent[p], roots, parent) = b
  BY DEF Depth
<1>. HIDE DEF F, G, a, b
<1>8. \A n \in Nat : F(n + 1) = G(n)
  <2>. DEFINE P == {n \in Nat : F(n + 1) = G(n)}
  <2>1. 0 \in P
    <3>1. F(0 + 1) = parent[p]
      BY <1>2
    <3>. QED
      BY <1>3, <3>1
  <2>2. ASSUME NEW n \in Nat, n \in P
        PROVE  n + 1 \in P
    <3>1. n + 1 \in Nat /\ F(n + 1) = G(n)
      BY <2>2
    <3>. QED
      BY <1>2, <1>3, <3>1
  <2>3. \A n \in Nat : n \in P
    <3>. HIDE DEF P
    <3>. QED
      BY <2>1, <2>2, Induction
  <2>. QED
    BY <2>3
<1>9. a # 0
  BY <1>2, <1>6
<1>10. a - 1 \in Nat /\ (a - 1) + 1 = a /\ F(a) = G(a - 1)
  <2>1. a - 1 \in Nat /\ (a - 1) + 1 = a
    BY <1>4, <1>9
  <2>. QED
    BY <1>8, <2>1
<1>11. Ends(parent[p], parent, roots, a - 1)
  <2>1. CASE F(a) \in roots \/ F(a) \notin D
    BY <1>6, <1>10, <2>1
  <2>2. CASE \E m \in 0..(a - 1) : F(a) = F(m)
    <3>1. PICK m \in 0..(a - 1) : F(a) = F(m)
      BY <2>2
    <3>2. CASE m # 0
      <4>1. m - 1 \in Nat /\ (m - 1) + 1 = m /\ m - 1 \in 0..((a - 1) - 1)
        BY <1>4, <3>1, <3>2
      <4>2. G(a - 1) = G(m - 1)
        BY <1>8, <1>10, <3>1, <4>1
      <4>. QED
        BY <1>6, <1>10, <4>1, <4>2
    <3>3. CASE m = 0
      <4>. DEFINE s == {F(k) : k \in 0..(a - 1)}
      <4>1. s \in SUBSET D
        BY <1>4, <1>6
      <4>2. s # {}
        BY <1>10
      <4>3. ASSUME NEW k \in 0..(a - 1)
            PROVE  parent[F(k)] \in s
        <5>1. k \in Nat /\ k < a /\ F(k) \in D /\ parent[F(k)] = F(k + 1)
          BY <1>2, <1>4, <1>6
        <5>2. CASE k + 1 = a
          BY <5>1, <5>2, <3>1, <3>3, <1>10
        <5>3. CASE k + 1 # a
          <6>1. k + 1 \in 0..(a - 1)
            BY <1>4, <5>3
          <6>. QED
            BY <5>1, <6>1
        <5>. QED
          BY <5>2, <5>3
      <4>4. PICK q \in s : parent[q] \notin s
        <5>. HIDE DEF s
        <5>. QED
          BY <4>1, <4>2 DEF Sane
      <4>. QED
        BY <4>3, <4>4
    <3>. QED
      BY <3>2, <3>3
  <2>. QED
    BY <1>6, <2>1, <2>2
<1>12. ~(a - 1 < b)
  BY <1>5, <1>10, <1>11
<1>. QED
  BY <1>4, <1>5, <1>7, <1>10, <1>12

-----------------------------------------------------------------------------
(* The order.                                                              *)

StrictOrder(A, R) ==
  /\ \A p \in A : <<p, p>> \notin R
  /\ \A p, q, r \in A : <<p, q>> \in R /\ <<q, r>> \in R => <<p, r>> \in R
  /\ \A p, q \in A : p # q => <<p, q>> \in R \/ <<q, p>> \in R

\* The place of a member of a finite set: as many as are before it.
Earlier(p, A, R) == {q \in A : <<q, p>> \in R}

Place(p, A, R) == Cardinality(Earlier(p, A, R))

LEMMA Places ==
  ASSUME NEW A, IsFiniteSet(A), NEW R, StrictOrder(A, R)
  PROVE  /\ \A p \in A : Place(p, A, R) \in 0..(Cardinality(A) - 1)
         /\ \A p, q \in A : <<p, q>> \in R => Place(p, A, R) < Place(q, A, R)
         /\ \A p, q \in A : Place(p, A, R) = Place(q, A, R) => p = q
         /\ \A n \in 0..(Cardinality(A) - 1) : \E p \in A : Place(p, A, R) = n
<1>. DEFINE N == Cardinality(A)
<1>1. N \in Nat
  BY FS_CardinalityType
<1>2. \A p \in A : IsFiniteSet(Earlier(p, A, R)) /\ Cardinality(Earlier(p, A, R)) \in Nat
  <2>. TAKE p \in A
  <2>1. Earlier(p, A, R) \in SUBSET A
    BY DEF Earlier, StrictOrder
  <2>2. IsFiniteSet(Earlier(p, A, R))
    BY <2>1, FS_Subset
  <2>. QED
    BY <2>2, FS_CardinalityType
<1>. DEFINE place == [p \in A |-> Place(p, A, R)]
<1>3. \A p \in A : place[p] = Cardinality(Earlier(p, A, R)) /\ place[p] = Place(p, A, R)
  BY DEF Place
<1>4. ASSUME NEW p \in A
      PROVE  place[p] \in 0..(N - 1)
  <2>1. Earlier(p, A, R) \in SUBSET A /\ Earlier(p, A, R) # A
    BY DEF Earlier, StrictOrder
  <2>2. Cardinality(Earlier(p, A, R)) <= N /\ (N = Cardinality(Earlier(p, A, R)) => A = Earlier(p, A, R))
    BY <2>1, FS_Subset
  <2>3. Cardinality(Earlier(p, A, R)) \in Nat /\ Cardinality(Earlier(p, A, R)) # N
    BY <1>2, <2>1, <2>2
  <2>. HIDE DEF N
  <2>. QED
    BY <1>1, <1>3, <2>2, <2>3
<1>5. ASSUME NEW p \in A, NEW q \in A, <<p, q>> \in R
      PROVE  place[p] < place[q]
  <2>1. Earlier(p, A, R) \in SUBSET Earlier(q, A, R) /\ p \in Earlier(q, A, R) /\ p \notin Earlier(p, A, R)
    BY <1>5 DEF Earlier, StrictOrder
  <2>2. Earlier(p, A, R) # Earlier(q, A, R)
    BY <2>1
  <2>3. /\ Cardinality(Earlier(p, A, R)) <= Cardinality(Earlier(q, A, R))
        /\ Cardinality(Earlier(q, A, R)) = Cardinality(Earlier(p, A, R)) => Earlier(q, A, R) = Earlier(p, A, R)
    BY <1>2, <2>1, FS_Subset
  <2>4. Cardinality(Earlier(p, A, R)) \in Nat /\ Cardinality(Earlier(q, A, R)) \in Nat
    BY <1>2
  <2>5. Cardinality(Earlier(p, A, R)) # Cardinality(Earlier(q, A, R))
    BY <2>2, <2>3
  <2>. QED
    BY <1>3, <2>3, <2>4, <2>5
<1>6. place \in [A -> 0..(N - 1)]
  <2>. HIDE DEF N
  <2>. QED
    BY <1>4
<1>7. ASSUME NEW p \in A, NEW q \in A, place[p] = place[q]
      PROVE  p = q
  <2>1. place[p] \in Nat /\ place[q] \in Nat
    BY <1>2, <1>3
  <2>2. ~(place[p] < place[q]) /\ ~(place[q] < place[p])
    BY <1>7, <2>1
  <2>. QED
    BY <1>5, <2>2 DEF StrictOrder
<1>8. \A n \in 0..(N - 1) : \E p \in A : place[p] = n
  <2>1. place \in Injection(A, 0..(N - 1))
    BY <1>6, <1>7 DEF Injection, IsInjective
  <2>2. IsFiniteSet(0..(N - 1)) /\ Cardinality(0..(N - 1)) = N
    <3>1. 0 \in Int /\ N - 1 \in Int
      BY <1>1
    <3>2. /\ IsFiniteSet(0..(N - 1))
          /\ Cardinality(0..(N - 1)) = IF 0 > N - 1 THEN 0 ELSE (N - 1) - 0 + 1
      <4>. HIDE DEF N
      <4>. QED
        BY <3>1, FS_Interval
    <3>. HIDE DEF N
    <3>. QED
      BY <1>1, <3>2
  <2>3. place \in Surjection(A, 0..(N - 1))
    <3>1. Cardinality(A) = Cardinality(0..(N - 1))
      BY <2>2
    <3>. HIDE DEF N
    <3>. QED
      BY <2>1, <2>2, <3>1, FS_Injection
  <2>. QED
    BY <2>3 DEF Surjection
<1>. QED
  BY <1>3, <1>5, <1>6, <1>7, <1>8

LEMMA SoonerOrder ==
  ASSUME NEW A \in SUBSET Nat, NEW roots, NEW parent,
         \A p \in A : Depth(p, roots, parent) \in Nat
  PROVE  /\ \A p \in A : ~Sooner(p, p, roots, parent)
         /\ \A p, q, r \in A : Sooner(p, q, roots, parent) /\ Sooner(q, r, roots, parent)
              => Sooner(p, r, roots, parent)
         /\ \A p, q \in A : p # q
              => Sooner(p, q, roots, parent) \/ Sooner(q, p, roots, parent)
<1>1. \A p \in A : p \in Nat /\ Depth(p, roots, parent) \in Nat
  OBVIOUS
<1>2. \A p, q \in A : Sooner(p, q, roots, parent) <=>
        \/ Depth(p, roots, parent) > Depth(q, roots, parent)
        \/ Depth(p, roots, parent) = Depth(q, roots, parent) /\ p > q
  BY DEF Sooner
<1>. QED
  BY ONLY <1>1, <1>2

\* The plan lists what is selected and not protected, in that order.
LEMMA PlanPlaces ==
  ASSUME NEW self, NEW roots, NEW parent, NEW A, A \subseteq Nat, IsFiniteSet(A),
         A = Selected(roots, parent) \ Protected(self, parent),
         \A p \in A : Depth(p, roots, parent) \in Nat
  PROVE  LET plan == KillPlan(self, roots, parent) IN
         /\ IsInjective(plan)
         /\ ToSet(plan) = A
         /\ \A i, j \in DOMAIN plan : Sooner(plan[i], plan[j], roots, parent) => i < j
<1>. DEFINE N == Cardinality(A)
            plan == KillPlan(self, roots, parent)
<1>1. PICK R : R = {pq \in A \X A : Sooner(pq[1], pq[2], roots, parent)}
  OBVIOUS
<1>2. \A p, q \in A : <<p, q>> \in R <=> Sooner(p, q, roots, parent)
  BY <1>1
<1>3. StrictOrder(A, R)
  <2>1. /\ \A p \in A : ~Sooner(p, p, roots, parent)
        /\ \A p, q, r \in A : Sooner(p, q, roots, parent) /\ Sooner(q, r, roots, parent)
             => Sooner(p, r, roots, parent)
        /\ \A p, q \in A : p # q
             => Sooner(p, q, roots, parent) \/ Sooner(q, p, roots, parent)
    BY SoonerOrder
  <2>. QED
    BY <1>2, <2>1 DEF StrictOrder
<1>. DEFINE place(p) == Place(p, A, R)
<1>4. /\ \A p \in A : place(p) \in 0..(N - 1)
      /\ \A p, q \in A : <<p, q>> \in R => place(p) < place(q)
      /\ \A p, q \in A : place(p) = place(q) => p = q
      /\ \A n \in 0..(N - 1) : \E p \in A : place(p) = n
  BY ONLY <1>3, IsFiniteSet(A), Places
<1>5. N \in Nat
  BY FS_CardinalityType
<1>6. \A p \in A : Cardinality({q \in A : Sooner(q, p, roots, parent)}) = place(p)
  <2>. TAKE p \in A
  <2>1. {q \in A : Sooner(q, p, roots, parent)} = Earlier(p, A, R)
    BY <1>2 DEF Earlier
  <2>. QED
    BY <2>1 DEF Place
<1>7. plan = [i \in 1..N |->
                CHOOSE p \in A : Cardinality({q \in A : Sooner(q, p, roots, parent)}) = i - 1]
  BY DEF KillPlan
<1>. HIDE DEF plan, place, N
<1>8. ASSUME NEW i \in 1..N
      PROVE  plan[i] \in A /\ place(plan[i]) = i - 1
  <2>1. i - 1 \in 0..(N - 1)
    BY <1>5
  <2>2. \E p \in A : Cardinality({q \in A : Sooner(q, p, roots, parent)}) = i - 1
    BY <1>4, <1>6, <2>1
  <2>3. /\ plan[i] \in A
        /\ Cardinality({q \in A : Sooner(q, plan[i], roots, parent)}) = i - 1
    BY <1>7, <2>2
  <2>. QED
    BY <1>6, <2>3
<1>9. DOMAIN plan = 1..N
  BY <1>7
<1>10. IsInjective(plan)
  <2>1. ASSUME NEW i \in 1..N, NEW j \in 1..N, plan[i] = plan[j]
        PROVE  i = j
    BY <1>5, <1>8, <2>1
  <2>. QED
    BY <1>9, <2>1 DEF IsInjective
<1>11. ToSet(plan) = A
  <2>1. ASSUME NEW p \in A
        PROVE  \E i \in 1..N : plan[i] = p
    <3>1. place(p) \in 0..(N - 1)
      BY <1>4
    <3>2. place(p) + 1 \in 1..N /\ (place(p) + 1) - 1 = place(p)
      BY <1>5, <3>1
    <3>3. plan[place(p) + 1] = p
      BY <1>4, <1>8, <3>2
    <3>. QED
      BY <3>2, <3>3
  <2>. QED
    BY <1>8, <1>9, <2>1 DEF ToSet
<1>12. ASSUME NEW i \in 1..N, NEW j \in 1..N, Sooner(plan[i], plan[j], roots, parent)
       PROVE  i < j
  <2>1. plan[i] \in A /\ plan[j] \in A /\ place(plan[i]) = i - 1 /\ place(plan[j]) = j - 1
    BY <1>8
  <2>2. place(plan[i]) < place(plan[j])
    BY <1>2, <1>4, <1>12, <2>1
  <2>. QED
    BY <1>5, <2>1, <2>2
<1>. QED
  BY <1>9, <1>10, <1>11, <1>12 DEF plan

\* Every plan is sound, whatever processes there are, whoever is the manager
\* among them, and whatever snapshot and roots the plan is made of.
THEOREM PlansSound ==
  ASSUME NEW pids \in SUBSET Nat, IsFiniteSet(pids), 0 \notin pids,
         NEW self \in pids, NEW parent \in Snapshots(self, pids),
         NEW roots \in SUBSET pids
  PROVE  PlanSound(self, roots, parent, pids)
<1>. DEFINE D == DOMAIN parent
<1>1. /\ D \in SUBSET pids /\ self \in D
      /\ \A q \in D : parent[q] \in pids \cup {0}
  <2>1. PICK seen \in SUBSET pids : parent \in [seen -> pids \cup {0}] /\ self \in DOMAIN parent
    BY DEF Snapshots
  <2>. QED
    BY <2>1
<1>2. IsFiniteSet(D)
  BY <1>1, FS_Subset
<1>3. \A q \in pids \cup {0} : q \in Nat
  OBVIOUS
<1>4. (\A q \in D : parent[q] \in Nat) /\ D \subseteq Nat
  BY ONLY <1>1, <1>3
<1>5. Selected(roots, parent) = Tree(roots, parent, pids)
  BY <1>1, <1>2, SelectedIsTree
<1>6. Protected(self, parent) = Lineage(self, parent, pids)
  BY <1>1, <1>2, ProtectedIsLineage
<1>7. \A p \in pids : Depth(p, roots, parent) \in Nat
  BY <1>2, <1>3, <1>4, AscentEnds DEF Depth
<1>8. PICK A : A = Tree(roots, parent, pids) \ Lineage(self, parent, pids)
  OBVIOUS
<1>9. A \in SUBSET pids /\ A \in SUBSET Nat
  BY <1>8 DEF Tree
<1>10. IsFiniteSet(A)
  BY <1>9, FS_Subset
<1>11. /\ IsInjective(KillPlan(self, roots, parent))
       /\ ToSet(KillPlan(self, roots, parent)) = A
       /\ \A i, j \in DOMAIN KillPlan(self, roots, parent) :
            Sooner(KillPlan(self, roots, parent)[i], KillPlan(self, roots, parent)[j],
                   roots, parent) => i < j
  <2>1. A = Selected(roots, parent) \ Protected(self, parent)
    BY <1>5, <1>6, <1>8
  <2>2. \A p \in A : Depth(p, roots, parent) \in Nat
    BY <1>7, <1>9
  <2>. QED
    BY ONLY <1>9, <1>10, <2>1, <2>2, PlanPlaces
<1>12. ASSUME Sane(parent), NEW p \in D \ roots
       PROVE  Sooner(p, parent[p], roots, parent)
  <2>1. Depth(parent[p], roots, parent) < Depth(p, roots, parent)
    BY <1>2, <1>4, <1>12, DeeperThanParent
  <2>2. Depth(p, roots, parent) \in Nat /\ Depth(parent[p], roots, parent) \in Nat
    BY <1>2, <1>4, AscentEnds DEF Depth
  <2>. QED
    BY <2>1, <2>2 DEF Sooner
<1>. QED
  BY <1>8, <1>11, <1>12 DEF PlanSound

\* The plans that TLC makes one by one among four processes are among these.
THEOREM PlansAreSoundAlways == Spec => []PlansAreSound
<1>1. PlansAreSound
  <2>1. 1..4 \in SUBSET Nat /\ 0 \notin 1..4 /\ 2 \in 1..4
    OBVIOUS
  <2>2. IsFiniteSet(1..4)
    <3>1. 1 \in Int /\ 4 \in Int
      OBVIOUS
    <3>. QED
      BY <3>1, FS_Interval
  <2>3. \A parent \in Snapshots(2, 1..4), roots \in SUBSET (1..4) :
          PlanSound(2, roots, parent, 1..4)
    BY <2>1, <2>2, PlansSound
  <2>. QED
    BY <2>3 DEF PlansAreSound
<1>. QED
  BY <1>1, PTL
=============================================================================
