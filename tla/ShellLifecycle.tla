--------------------------- MODULE ShellLifecycle ---------------------------
(***************************************************************************)
(* The life of the shells of one FerrousNativeManager                      *)
(* (src/native_runtime.rs), from the fork of a child to the record of its  *)
(* exit, as the threads that work on it see it:                            *)
(*                                                                         *)
(*   - the thread that spawns a shell: fork, persist the record, insert    *)
(*     the entry, ask the reactor to watch the child, publish Spawned;     *)
(*   - the reactor thread, which polls the watched children and records    *)
(*     their exit;                                                         *)
(*   - client threads that terminate a shell (their own child, or a record *)
(*     persisted by somebody else), shut a set of shells down, or send     *)
(*     stdin EOF.                                                          *)
(*                                                                         *)
(* A step is what one thread does between two points where another thread  *)
(* can see it: a section under the state lock or the child lock, one file  *)
(* written, one system call, one event sent.  The manager's process may    *)
(* crash and a new one start on the same metadata directory; its children  *)
(* survive it.                                                             *)
(***************************************************************************)
EXTENDS Naturals

CONSTANTS
  Shell,        \* the shells that may be spawned
  Piped,        \* those with a stdin: backends pipe and pty, not proc
  Client,       \* threads that call terminate, shutdown and EOF
  None,         \* no record, no entry, no shell
  MaxGen,       \* bound: manager processes that run one after the other
  MaxFaults,    \* bound: writes of a record that fail
  SharedGroup   \* does a restarted manager have its predecessor's process group?

ASSUME PipedAssumption  == Piped \subseteq Shell
ASSUME BoundsAssumption == MaxGen \in Nat \ {0} /\ MaxFaults \in Nat
ASSUME GroupAssumption  == SharedGroup \in BOOLEAN

VARIABLES
  \* the operating system
  os,       \* the child of each shell: unborn, live, zombie or reaped
  cause,    \* how it died: by itself ("own") or of a signal
  sig,      \* the signals it was sent
  home,     \* the manager process that forked it
  \* the metadata directory
  disk,     \* the persisted record of each shell
  faults,   \* writes that failed so far
  \* the manager
  gen,      \* which manager process is running
  entry,    \* the record of each entry of ManagerState
  spc,      \* where the thread that spawns each shell stands
  \* the reactor thread
  queued,   \* WatchChild commands it has not received
  watched,  \* children it polls
  found,    \* children this pass has seen dead
  rpub,     \* the shell whose Exited event it is about to send
  \* the client threads
  call,     \* the call each one is in, with the locals it still needs
  \* the lifecycle channel
  told,     \* what a subscriber since the start was told of each shell
  \* history: shells somebody asked to stop
  asked

osVars      == <<os, cause, sig, home>>
storeVars   == <<disk, faults>>
mgrVars     == <<gen, entry, spc>>
reactorVars == <<queued, watched, found, rpub>>
vars == <<osVars, storeVars, mgrVars, reactorVars, call, told, asked>>

-----------------------------------------------------------------------------
Status == {"Running", "Exited"}

\* null, the child's own exit status, and the codes the manager makes up
Code == {"null", "own", "-1", "-9", "-15"}

\* FerrousNativeShellRecord, reduced to the fields that change after the
\* spawn: status, exit code and the stdin capabilities.
Record == [status : Status, code : Code, stdin : BOOLEAN]

ASSUME NoneAssumption == None \notin Shell \cup Record

\* The events of a shell: the first one, and whether an Exited was among them.
Told == [first : {"Spawned", "Updated", "Exited", None}, exited : BOOLEAN]

Untold == [first |-> None, exited |-> FALSE]

Dead(s) == os[s] \in {"zombie", "reaped"}    \* ~pid_is_live

NewRecord(s) == [status |-> "Running", code |-> "null", stdin |-> s \in Piped]

Exited(r, c) == [r EXCEPT !.status = "Exited", !.code = c]

HasStatus(r, status) == r # None /\ r.status = status

\* load_persisted_record on a record that says Running: the capabilities of
\* a process this manager does not own are cleared.
Adopted == [status |-> "Running", code |-> "null", stdin |-> FALSE]

\* What list_shells and get_shell answer for s: the entry if there is one,
\* else the persisted record, whose Running is believed only of a live pid.
VisibleStatus(s) ==
  IF entry[s] # None THEN entry[s].status
  ELSE IF disk[s] = None THEN "absent"
  ELSE IF Dead(s) THEN "Exited" ELSE disk[s].status

\* publish_lifecycle: an event of this kind.
Publish(s, kind) ==
  told' = [told EXCEPT ![s] =
             [first  |-> IF @.first = None THEN kind ELSE @.first,
              exited |-> @.exited \/ kind = "Exited"]]

\* persist_record: the record is written beside the old one and renamed over
\* it, so a failed write leaves the old record.
Persist(s, r) == disk' = [disk EXCEPT ![s] = r] /\ UNCHANGED faults
PersistFails == faults < MaxFaults /\ faults' = faults + 1 /\ UNCHANGED disk

\* A client thread that is in no call.
Idle == [pc |-> "idle", tgt |-> None, code |-> "null", todo |-> {}, surv |-> {}]

Init ==
  /\ os = [s \in Shell |-> "unborn"]
  /\ cause = [s \in Shell |-> "none"]
  /\ sig = [s \in Shell |-> {}]
  /\ home = [s \in Shell |-> 0]
  /\ disk = [s \in Shell |-> None]
  /\ faults = 0
  /\ gen = 1
  /\ entry = [s \in Shell |-> None]
  /\ spc = [s \in Shell |-> "idle"]
  /\ queued = {} /\ watched = {} /\ found = {} /\ rpub = None
  /\ call = [c \in Client |-> Idle]
  /\ told = [s \in Shell |-> Untold]
  /\ asked = {}

-----------------------------------------------------------------------------
(* The operating system.                                                   *)

\* The child ends: by itself at any time, or of a signal it was sent.  A dead
\* child of a manager that crashed is reaped by init, one of the running
\* manager stays a zombie until try_wait.
ChildDies(s, why) ==
  /\ os[s] = "live"
  /\ why = "signal" => sig[s] # {}
  /\ os' = [os EXCEPT ![s] = IF home[s] = gen THEN "zombie" ELSE "reaped"]
  /\ cause' = [cause EXCEPT ![s] = why]
  /\ UNCHANGED <<sig, home, storeVars, mgrVars, reactorVars, call, told, asked>>

-----------------------------------------------------------------------------
(* spawn_proc / spawn_pipe / spawn_pty _with_metadata_blocking.            *)

\* Checks, directories, log files and the fork.
SpawnLaunch(s) ==
  /\ spc[s] = "idle"
  /\ spc' = [spc EXCEPT ![s] = "launched"]
  /\ os' = [os EXCEPT ![s] = "live"]
  /\ home' = [home EXCEPT ![s] = gen]
  /\ UNCHANGED <<cause, sig, storeVars, gen, entry, reactorVars, call, told, asked>>

SpawnPersist(s) ==
  /\ spc[s] = "launched"
  /\ spc' = [spc EXCEPT ![s] = "persisted"]
  /\ Persist(s, NewRecord(s))
  /\ UNCHANGED <<osVars, gen, entry, reactorVars, call, told, asked>>

\* The early return: the Child handle is dropped, which neither kills nor
\* waits for the child, and nothing else knows of it.
SpawnPersistFails(s) ==
  /\ spc[s] = "launched"
  /\ spc' = [spc EXCEPT ![s] = "untracked"]
  /\ PersistFails
  /\ UNCHANGED <<osVars, gen, entry, reactorVars, call, told, asked>>

SpawnInsert(s) ==
  /\ spc[s] = "persisted"
  /\ spc' = [spc EXCEPT ![s] = "inserted"]
  /\ entry' = [entry EXCEPT ![s] = NewRecord(s)]
  /\ UNCHANGED <<osVars, storeVars, gen, reactorVars, call, told, asked>>

SpawnWatch(s) ==
  /\ spc[s] = "inserted"
  /\ spc' = [spc EXCEPT ![s] = "watched"]
  /\ queued' = queued \cup {s}
  /\ UNCHANGED <<osVars, storeVars, gen, entry, watched, found, rpub, call,
                 told, asked>>

\* The event carries the record as it was built, whatever the entry now says.
SpawnPublish(s) ==
  /\ spc[s] = "watched"
  /\ spc' = [spc EXCEPT ![s] = "done"]
  /\ Publish(s, "Spawned")
  /\ UNCHANGED <<osVars, storeVars, gen, entry, reactorVars, call, asked>>

\* What the thread does once it has forked.
SpawnContinue(s) ==
  \/ SpawnPersist(s) \/ SpawnPersistFails(s)
  \/ SpawnInsert(s) \/ SpawnWatch(s) \/ SpawnPublish(s)

-----------------------------------------------------------------------------
(* reactor_loop.                                                           *)

ReactorReceive ==
  /\ found = {} /\ rpub = None
  /\ queued # {}
  /\ watched' = watched \cup queued
  /\ queued' = {}
  /\ UNCHANGED <<osVars, storeVars, mgrVars, found, rpub, call, told, asked>>

\* Mistake: asking the kernel instead of the Child handle, which knows the
\* status of a child that terminate has reaped.
ScanZombiesOnly ==
  LET dead == {s \in watched : os[s] = "zombie"} IN
  /\ found = {} /\ rpub = None
  /\ dead # {}
  /\ found' = dead
  /\ os' = [s \in Shell |-> IF s \in dead THEN "reaped" ELSE os[s]]
  /\ UNCHANGED <<cause, sig, home, storeVars, mgrVars, queued, watched, rpub,
                 call, told, asked>>

\* First loop of check_reactor_children: try_wait on every child.  One child
\* says nothing of another, so the pass is one step.  try_wait reaps a zombie,
\* and answers from the Child handle once terminate's try_wait has reaped it.
\* Its error and a poisoned child lock, which would count as an exit with -1,
\* are left out: nobody else waits for these children, and no code panics under
\* the lock.
ReactorScan ==
  LET dead == {s \in watched : Dead(s)} IN
  /\ found = {} /\ rpub = None
  /\ dead # {}
  /\ found' = dead
  /\ os' = [s \in Shell |-> IF s \in dead THEN "reaped" ELSE os[s]]
  /\ UNCHANGED <<cause, sig, home, storeVars, mgrVars, queued, watched, rpub,
                 call, told, asked>>

\* ExitStatus::code is None for a child that died of a signal.
ReactorCode(s) == IF cause[s] = "own" THEN "own" ELSE "-1"

\* Mistake: returning the error of a failed write before the entry is updated.
RecordOnlySaved(s) ==
  /\ rpub = None
  /\ s \in found
  /\ found' = found \ {s}
  /\ watched' = watched \ {s}
  /\ LET r == Exited(entry[s], ReactorCode(s)) IN
       \/ entry' = [entry EXCEPT ![s] = r] /\ Persist(s, r) /\ rpub' = s
       \/ PersistFails /\ UNCHANGED <<entry, rpub>>
  /\ UNCHANGED <<osVars, gen, spc, queued, call, told, asked>>

\* Mistake: leaving an entry alone that is Exited already.
RecordOnce(s) ==
  /\ rpub = None
  /\ s \in found
  /\ found' = found \ {s}
  /\ watched' = watched \ {s}
  /\ IF ~HasStatus(entry[s], "Running")
     THEN UNCHANGED <<entry, storeVars, rpub>>
     ELSE LET r == Exited(entry[s], ReactorCode(s)) IN
          /\ entry' = [entry EXCEPT ![s] = r]
          /\ Persist(s, r) \/ PersistFails
          /\ rpub' = s
  /\ UNCHANGED <<osVars, gen, spc, queued, call, told, asked>>

\* Second loop of check_reactor_children, under the state lock.  The child is
\* dropped from the list whether or not it has an entry; the result of
\* persist_record is ignored.
ReactorRecord(s) ==
  /\ rpub = None
  /\ s \in found
  /\ found' = found \ {s}
  /\ watched' = watched \ {s}
  /\ IF entry[s] = None
     THEN UNCHANGED <<entry, storeVars, rpub>>
     ELSE LET r == Exited(entry[s], ReactorCode(s)) IN
          /\ entry' = [entry EXCEPT ![s] = r]
          /\ Persist(s, r) \/ PersistFails
          /\ rpub' = s
  /\ UNCHANGED <<osVars, gen, spc, queued, call, told, asked>>

\* The event is sent after the lock is released.
ReactorPublish ==
  /\ rpub # None
  /\ rpub' = None
  /\ Publish(rpub, "Exited")
  /\ UNCHANGED <<osVars, storeVars, mgrVars, queued, watched, found, call, asked>>

Reactor ==
  \/ ReactorReceive \/ ReactorScan \/ ReactorPublish
  \/ \E s \in Shell : ReactorRecord(s)

-----------------------------------------------------------------------------
(* terminate_shell_blocking and terminate_persisted_shell_blocking.        *)

At(c, l)   == call[c].pc = l
Goto(c, l) == call' = [call EXCEPT ![c].pc = l]
Return(c)  == call' = [call EXCEPT ![c] = Idle]

\* Under the state lock.  An entry that is Exited ends the call at once.
TerminateLookup(c, s) ==
  /\ At(c, "idle")
  /\ ~HasStatus(entry[s], "Exited")
  /\ LET next == IF entry[s] = None THEN "load" ELSE "kill" IN
       call' = [call EXCEPT ![c] = [@ EXCEPT !.pc = next, !.tgt = s]]
  /\ asked' = asked \cup {s}
  /\ UNCHANGED <<osVars, storeVars, mgrVars, reactorVars, told>>

\* Mistake: asking the child to end instead of killing it.
TerminateGently(c) ==
  LET s == call[c].tgt IN
  /\ At(c, "kill")
  /\ Return(c)
  /\ IF os[s] = "live"
     THEN sig' = [sig EXCEPT ![s] = @ \cup {"TERM"}] /\ UNCHANGED os
     ELSE os' = [os EXCEPT ![s] = "reaped"] /\ UNCHANGED sig
  /\ UNCHANGED <<cause, home, storeVars, mgrVars, reactorVars, told, asked>>

\* Under the child lock: try_wait, and kill if it says the child runs.  The
\* pid of a child that was not waited for cannot be reused.
TerminateChild(c) ==
  LET s == call[c].tgt IN
  /\ At(c, "kill")
  /\ Return(c)
  /\ IF os[s] = "live"
     THEN sig' = [sig EXCEPT ![s] = @ \cup {"KILL"}] /\ UNCHANGED os
     ELSE os' = [os EXCEPT ![s] = "reaped"] /\ UNCHANGED sig
  /\ UNCHANGED <<cause, home, storeVars, mgrVars, reactorVars, told, asked>>

\* get_shell: a second look at the entries, then the file.  The spawn may
\* have inserted the entry before the second look, or after it.
TerminateLoad(c) ==
  LET s == call[c].tgt IN
  /\ At(c, "load")
  /\ \/ HasStatus(entry[s], "Running") /\ Goto(c, "check")
     \/ HasStatus(entry[s], "Exited") /\ Return(c)
     \/ HasStatus(disk[s], "Running") /\ ~Dead(s) /\ Goto(c, "check")
     \/ HasStatus(disk[s], "Running") /\ Dead(s) /\ Return(c)
     \/ HasStatus(disk[s], "Exited") /\ Return(c)
     \/ disk[s] = None /\ Return(c)
  /\ UNCHANGED <<osVars, storeVars, mgrVars, reactorVars, told, asked>>

\* pid_is_live: a dead child is marked with no exit code.
TerminateCheck(c) ==
  /\ At(c, "check")
  /\ Goto(c, IF Dead(call[c].tgt) THEN "mark" ELSE "signal")
  /\ UNCHANGED <<osVars, storeVars, mgrVars, reactorVars, told, asked>>

\* Mistake: signalling the group although it is the caller's own.
AnyGroup(s) == {x \in Shell : home[x] = home[s]}

\* Whom signal_pid_or_process_group reaches: children stay in the process
\* group of the manager that forked them (no spawn calls setsid or setpgid),
\* and the group is signalled when it is not the caller's own.
GroupOf(s) ==
  IF home[s] = gen \/ SharedGroup
  THEN {s} ELSE {x \in Shell : home[x] = home[s]}

TerminateSignal(c) ==
  LET hit == {x \in GroupOf(call[c].tgt) : os[x] = "live"} IN
  /\ At(c, "signal")
  /\ Goto(c, "await")
  /\ sig' = [x \in Shell |-> IF x \in hit THEN sig[x] \cup {"KILL"} ELSE sig[x]]
  /\ UNCHANGED <<os, cause, home, storeVars, mgrVars, reactorVars, told, asked>>

\* After at most a second of polling: still live is an error.
TerminateAwait(c) ==
  /\ At(c, "await")
  /\ IF Dead(call[c].tgt)
     THEN call' = [call EXCEPT ![c] = [@ EXCEPT !.pc = "mark", !.code = "-9"]]
     ELSE Return(c)
  /\ UNCHANGED <<osVars, storeVars, mgrVars, reactorVars, told, asked>>

-----------------------------------------------------------------------------
(* shutdown_process_tree_blocking, on the shells whose pids are in its     *)
(* plan (shutdown_app_group, shutdown_tree, shutdown_all choose them).     *)

RunningRecords ==
  {s \in Shell : VisibleStatus(s) = "Running" /\ os[s] = "live"}

\* The records are listed once, at the start.
ShutdownBegin(c, targets) ==
  /\ At(c, "idle")
  /\ targets # {} /\ targets \subseteq RunningRecords
  /\ call' = [call EXCEPT ![c] = [@ EXCEPT !.pc = "term", !.todo = targets]]
  /\ asked' = asked \cup targets
  /\ UNCHANGED <<osVars, storeVars, mgrVars, reactorVars, told>>

\* SIGTERM to the pids that are still live: term_sent.
ShutdownTerm(c) ==
  LET sent == {s \in call[c].todo : os[s] = "live"} IN
  /\ At(c, "term")
  /\ call' = [call EXCEPT ![c] = [@ EXCEPT !.pc = "escalate", !.surv = sent]]
  /\ sig' = [s \in Shell |-> IF s \in sent THEN sig[s] \cup {"TERM"} ELSE sig[s]]
  /\ UNCHANGED <<os, cause, home, storeVars, mgrVars, reactorVars, told, asked>>

\* Mistake: waiting for the SIGTERMs to work, without a deadline.
EscalateWhenGone(c) ==
  /\ At(c, "escalate")
  /\ \A s \in call[c].surv : Dead(s)
  /\ call' = [call EXCEPT ![c] = [@ EXCEPT !.pc = "sweep", !.surv = {}]]
  /\ UNCHANGED <<osVars, storeVars, mgrVars, reactorVars, told, asked>>

\* After at most two seconds: SIGKILL to the survivors of term_sent.
ShutdownEscalate(c) ==
  LET left == {s \in call[c].surv : os[s] = "live"} IN
  /\ At(c, "escalate")
  /\ call' = [call EXCEPT ![c] = [@ EXCEPT !.pc = "sweep", !.surv = left]]
  /\ sig' = [s \in Shell |-> IF s \in left THEN sig[s] \cup {"KILL"} ELSE sig[s]]
  /\ UNCHANGED <<os, cause, home, storeVars, mgrVars, reactorVars, told, asked>>

\* Where a call goes on when a record is dealt with: a terminate is over, a
\* shutdown sweeps on.
Resume(c, rest) ==
  IF rest = {} THEN Return(c)
  ELSE call' = [call EXCEPT ![c] = [@ EXCEPT !.pc = "sweep", !.todo = rest]]

\* The next record of a shutdown is to be marked with this exit code.
ToMark(c, s, exit) ==
  call' = [call EXCEPT ![c] = [@ EXCEPT !.pc = "mark", !.tgt = s, !.code = exit,
                                        !.todo = call[c].todo \ {s}]]

\* Mistake: marking every record of the plan without looking at its pid again.
SweepUnchecked(c, s) ==
  /\ At(c, "sweep")
  /\ s \in call[c].todo
  /\ ToMark(c, s, IF s \in call[c].surv THEN "-9" ELSE "-15")
  /\ UNCHANGED <<osVars, storeVars, mgrVars, reactorVars, told, asked>>

\* After at most one more second: the records whose pid is gone are marked one
\* by one, the others are left Running.
ShutdownSweep(c, s) ==
  /\ At(c, "sweep")
  /\ s \in call[c].todo
  /\ IF Dead(s)
     THEN ToMark(c, s, IF s \in call[c].surv THEN "-9" ELSE "-15")
     ELSE Resume(c, call[c].todo \ {s})
  /\ UNCHANGED <<osVars, storeVars, mgrVars, reactorVars, told, asked>>

-----------------------------------------------------------------------------
(* mark_record_exited.  A failed write returns the error before the event  *)
(* is published.                                                           *)

\* Under the state lock: whatever the entry says, it becomes Exited.
MarkEntry(c) ==
  LET s == call[c].tgt
      r == Exited(entry[s], call[c].code) IN
  /\ At(c, "mark")
  /\ entry[s] # None
  /\ entry' = [entry EXCEPT ![s] = r]
  /\ \/ Persist(s, r) /\ Goto(c, "publish")
     \/ PersistFails /\ Resume(c, call[c].todo)
  /\ UNCHANGED <<osVars, gen, spc, reactorVars, told, asked>>

\* No entry: the lock is released and the caller's copy is written later.
MarkNoEntry(c) ==
  /\ At(c, "mark")
  /\ entry[call[c].tgt] = None
  /\ Goto(c, "markdisk")
  /\ UNCHANGED <<osVars, storeVars, mgrVars, reactorVars, told, asked>>

MarkDisk(c) ==
  /\ At(c, "markdisk")
  /\ \/ Persist(call[c].tgt, Exited(Adopted, call[c].code)) /\ Goto(c, "publish")
     \/ PersistFails /\ Resume(c, call[c].todo)
  /\ UNCHANGED <<osVars, mgrVars, reactorVars, told, asked>>

MarkPublish(c) ==
  /\ At(c, "publish")
  /\ Publish(call[c].tgt, "Exited")
  /\ Resume(c, call[c].todo)
  /\ UNCHANGED <<osVars, storeVars, mgrVars, reactorVars, asked>>

-----------------------------------------------------------------------------
(* send_stdin_eof_blocking.                                                *)

\* Mistake: putting back a copy of the record made before the lock was taken.
EofStale(c, s) ==
  /\ At(c, "idle")
  /\ entry[s] # None
  /\ entry[s].stdin
  /\ LET r == [NewRecord(s) EXCEPT !.stdin = FALSE] IN
     /\ entry' = [entry EXCEPT ![s] = r]
     /\ Persist(s, r)
  /\ call' = [call EXCEPT ![c] = [@ EXCEPT !.pc = "update", !.tgt = s]]
  /\ UNCHANGED <<osVars, gen, spc, reactorVars, told, asked>>

\* Under the state lock: the input is taken whatever the status, and stays
\* taken when the write fails.
Eof(c, s) ==
  /\ At(c, "idle")
  /\ entry[s] # None
  /\ entry[s].stdin
  /\ LET r == [entry[s] EXCEPT !.stdin = FALSE] IN
     /\ entry' = [entry EXCEPT ![s] = r]
     /\ \/ /\ Persist(s, r)
           /\ call' = [call EXCEPT ![c] = [@ EXCEPT !.pc = "update", !.tgt = s]]
        \/ PersistFails /\ UNCHANGED call
  /\ UNCHANGED <<osVars, gen, spc, reactorVars, told, asked>>

\* The event carries the record as it was under the lock.
EofPublish(c) ==
  /\ At(c, "update")
  /\ Publish(call[c].tgt, "Updated")
  /\ Return(c)
  /\ UNCHANGED <<osVars, storeVars, mgrVars, reactorVars, asked>>

-----------------------------------------------------------------------------
(* purge_shell_record and purge_exited_records of the host.                *)

\* What load_persisted_record makes of the record on disk.
PersistedStatus(s) ==
  IF disk[s] = None THEN "absent" ELSE IF Dead(s) THEN "Exited" ELSE disk[s].status

\* Mistake: purging by the entry or the record as it was written.
PurgeBeginStale(c, targets) ==
  /\ At(c, "idle")
  /\ targets # {}
  /\ \A s \in targets : VisibleStatus(s) # "absent"
  /\ call' = [call EXCEPT ![c] = [@ EXCEPT !.pc = "purge", !.todo = targets]]
  /\ UNCHANGED <<osVars, storeVars, mgrVars, reactorVars, told, asked>>

\* The records are looked at once: one shell as get_shell answers, or every
\* record on disk that says Exited, whatever its entry says.
PurgeBegin(c, targets) ==
  /\ At(c, "idle")
  /\ targets # {}
  /\ \/ \E s \in Shell : targets = {s} /\ VisibleStatus(s) = "Exited"
     \/ targets = {s \in Shell : PersistedStatus(s) = "Exited"}
  /\ call' = [call EXCEPT ![c] = [@ EXCEPT !.pc = "purge", !.todo = targets]]
  /\ UNCHANGED <<osVars, storeVars, mgrVars, reactorVars, told, asked>>

\* purge_record_files: its files are removed, the record last, and one that
\* cannot be removed ends the call.  No lock is held, and the entry stays.
PurgeNext(c, s) ==
  LET rest == call[c].todo \ {s} IN
  /\ At(c, "purge")
  /\ s \in call[c].todo
  /\ \/ /\ disk' = [disk EXCEPT ![s] = None]
        /\ IF rest = {} THEN Return(c) ELSE call' = [call EXCEPT ![c].todo = rest]
     \/ UNCHANGED disk /\ Return(c)
  /\ UNCHANGED <<osVars, faults, mgrVars, reactorVars, told, asked>>

-----------------------------------------------------------------------------
\* What a client thread does once its call has begun.
Continue(c) ==
  \/ TerminateChild(c) \/ TerminateLoad(c) \/ TerminateCheck(c)
  \/ TerminateSignal(c) \/ TerminateAwait(c)
  \/ ShutdownTerm(c) \/ ShutdownEscalate(c)
  \/ \E s \in Shell : ShutdownSweep(c, s)
  \/ MarkEntry(c) \/ MarkNoEntry(c) \/ MarkDisk(c) \/ MarkPublish(c)
  \/ EofPublish(c)
  \/ \E s \in Shell : PurgeNext(c, s)

Call(c) ==
  \/ \E s \in Shell : TerminateLookup(c, s) \/ Eof(c, s)
  \/ \E targets \in SUBSET Shell : ShutdownBegin(c, targets) \/ PurgeBegin(c, targets)

-----------------------------------------------------------------------------
(* The manager's process ends without notice and another one starts on the *)
(* same metadata directory.                                                *)
Crash ==
  /\ gen < MaxGen
  /\ gen' = gen + 1
  /\ os' = [s \in Shell |-> IF os[s] = "zombie" THEN "reaped" ELSE os[s]]
  /\ entry' = [s \in Shell |-> None]
  /\ spc' = [s \in Shell |->
               CASE spc[s] = "idle"                      -> "idle"
                 [] spc[s] \in {"launched", "untracked"} -> "untracked"
                 [] OTHER                                -> "inherited"]
  /\ queued' = {} /\ watched' = {} /\ found' = {} /\ rpub' = None
  /\ call' = [c \in Client |-> Idle]
  /\ told' = [s \in Shell |-> Untold]
  /\ UNCHANGED <<cause, sig, home, storeVars, asked>>

-----------------------------------------------------------------------------
Next ==
  \/ \E s \in Shell : ChildDies(s, "own") \/ ChildDies(s, "signal")
  \/ \E s \in Shell : SpawnLaunch(s) \/ SpawnContinue(s)
  \/ Reactor
  \/ \E c \in Client : Call(c) \/ Continue(c)
  \/ Crash

Spec == Init /\ [][Next]_vars

\* Nothing is owed by a program that runs, a client that does not call, or a
\* manager that does not crash.  The threads of the manager run, a thread that
\* is spawning goes on once it has forked, and a SIGKILL ends its process.
Fairness ==
  /\ WF_vars(Reactor)
  /\ \A s \in Shell : WF_vars(SpawnContinue(s))
  /\ \A c \in Client : WF_vars(Continue(c))
  /\ \A s \in Shell : WF_vars("KILL" \in sig[s] /\ ChildDies(s, "signal"))

FairSpec == Spec /\ Fairness

-----------------------------------------------------------------------------
(* Correctness.                                                            *)

ClientPc == {"idle", "kill", "load", "check", "signal", "await", "term",
             "escalate", "sweep", "mark", "markdisk", "publish", "update",
             "purge"}

CallState ==
  [pc : ClientPc, tgt : Shell \cup {None}, code : Code,
   todo : SUBSET Shell, surv : SUBSET Shell]

SpawnPc == {"idle", "launched", "persisted", "inserted", "watched", "done",
            "untracked", "inherited"}

TypeOK ==
  /\ os \in [Shell -> {"unborn", "live", "zombie", "reaped"}]
  /\ cause \in [Shell -> {"none", "own", "signal"}]
  /\ sig \in [Shell -> SUBSET {"TERM", "KILL"}]
  /\ home \in [Shell -> 0..MaxGen]
  /\ disk \in [Shell -> Record \cup {None}]
  /\ faults \in 0..MaxFaults
  /\ gen \in 1..MaxGen
  /\ entry \in [Shell -> Record \cup {None}]
  /\ spc \in [Shell -> SpawnPc]
  /\ queued \subseteq Shell /\ watched \subseteq Shell /\ found \subseteq Shell
  /\ rpub \in Shell \cup {None}
  /\ call \in [Client -> CallState]
  /\ told \in [Shell -> Told]
  /\ asked \subseteq Shell

\* A shell is called Exited, by its entry, by its record on disk or by an
\* event, only when its child has died: neither the reactor, nor a shutdown
\* that ran out of patience with a survivor, nor a terminate by pid may say so
\* earlier.  (check_reactor_children, shutdown_process_tree_blocking,
\* terminate_persisted_shell_blocking, mark_record_exited)
ExitedIsDead ==
  \A s \in Shell :
    HasStatus(entry[s], "Exited") \/ HasStatus(disk[s], "Exited") \/ told[s].exited
      => Dead(s)

\* The exit of a shell cannot be missed: as long as an entry says Running, its
\* child is on its way to the reactor or watched by it, except in the moment
\* between the two calls of the spawn.  It rests on the entry being inserted
\* before the child is watched and on the reactor dropping a child only
\* together with its entry's Running.
RunningIsWatched ==
  \A s \in Shell :
    HasStatus(entry[s], "Running") => spc[s] = "inserted" \/ s \in queued \cup watched

\* The metadata directory, which other frameworks and the next manager read,
\* keeps no stale Running: when no write failed, the record of a shell whose
\* entry is Exited does not say Running, whoever purges it and whoever brings
\* it back.  And it keeps every living child, from the moment its spawn has
\* written the record: a purge takes no record that a crash would make the
\* only trace of a process.  (persist_record is called under the lock that
\* guards the entry, except for the caller's copy in mark_record_exited)
DiskNotStale ==
  \A s \in Shell :
    /\ faults = 0 /\ HasStatus(entry[s], "Exited") => ~HasStatus(disk[s], "Running")
    /\ os[s] = "live" /\ spc[s] \notin {"idle", "launched", "untracked"}
         => HasStatus(disk[s], "Running")

\* Who may be killed: a shell somebody asked to stop, or, when a manager
\* inherited its shells from another process group, a sibling of such a shell
\* (signal_pid_or_process_group signals the whole group).  In particular the
\* shells a manager forked itself are only killed on request.
KillScope ==
  \A s \in Shell : sig[s] # {} =>
    \/ s \in asked
    \/ /\ ~SharedGroup
       /\ sig[s] = {"KILL"}
       /\ home[s] < gen
       /\ \E x \in asked : home[x] = home[s]

\* Within one manager an Exited entry stays Exited, whichever of the reactor,
\* shutdown, terminate and EOF touch it afterwards, and it keeps its exit code
\* unless somebody asked to stop the shell.  Of such a shell the last mark
\* counts, the child's own code or not: a terminate that read the record before
\* the entry was there even takes the code away, because mark_record_exited
\* then writes None over what the reactor has recorded.
ExitIsFinal ==
  [][\A s \in Shell :
       HasStatus(entry[s], "Exited") /\ gen' = gen
         => /\ HasStatus(entry'[s], "Exited")
            /\ entry'[s].code # entry[s].code => s \in asked]_vars

\* Every exit is announced: once a shell has an entry and its child is dead, an
\* Exited event follows, however the reactor, clients and failing writes
\* interleave, unless the manager crashes first.  (mark_record_exited returns
\* early when its write fails; the reactor's own pass makes up for it)
EveryExitPublished ==
  \A s \in Shell :
    (entry[s] # None /\ Dead(s)) ~> (entry[s] = None \/ told[s].exited)

\* Terminating an owned shell that was Running when the call looked ends its
\* child, although the call itself does not wait for it.
TerminateKills ==
  \A c \in Client, s \in Shell :
    (At(c, "kill") /\ call[c].tgt = s) ~> (Dead(s) \/ home[s] # gen)

\* Every call of terminate, shutdown and EOF returns: no step of it waits for
\* another thread for ever.
CallsReturn == \A c \in Client : ~At(c, "idle") ~> At(c, "idle")

-----------------------------------------------------------------------------
(* What the manager promises about a shell, whatever its threads do.       *)

Contract == INSTANCE ShellContract WITH
  child <- [s \in Shell |-> IF Dead(s) THEN "dead" ELSE os[s]],
  known <- [s \in Shell |-> spc[s] \in {"inserted", "watched", "done", "inherited"}],
  view  <- [s \in Shell |->
              IF spc[s] \in {"idle", "launched", "untracked"}
              THEN "absent"
              ELSE IF VisibleStatus(s) = "absent" THEN "purged" ELSE VisibleStatus(s)]

\* The view a caller has of the shells it spawned or inherited (get_shell,
\* list_shells), from the moment the record is written, implements
\* ShellContract: absent, Running, Exited or purged, in this order but for a
\* purged one that comes back as Exited, across crashes, and Exited or purged
\* only, and eventually, for a dead child.  Between persist_record and the
\* insert the record on disk is answered: a child that dies there is seen
\* Exited, and Running again when its entry appears, until the reactor has
\* recorded the exit.
ImplementsContract == Contract!Spec

-----------------------------------------------------------------------------
(* Claims of the repository's tests that the code does not keep.           *)

\* "spawned = lifecycle.try_recv(); assert_eq!(spawned.kind, Spawned)"
\* (tests/native_manager.rs:1224): the first event of a shell that a
\* subscriber of subscribe_lifecycle receives is Spawned.
SpawnedFirst ==
  \A s \in Shell : told[s].first \in {"Spawned", None}

=============================================================================
