--------------------------- MODULE StdoutReaders ---------------------------
(***************************************************************************)
(* Who drains the stdout of a pipe or PTY, and where the bytes go          *)
(* (src/native_runtime.rs: DirectOutput, AsyncDirectOutput and the calls   *)
(* that use them; log_tail of src/native_host.rs).                         *)
(*                                                                         *)
(* Nobody drains it but callers: blocking ones take turns under a mutex    *)
(* and share one line buffer, async ones share a duplicate of the file     *)
(* descriptor, and each kind has a writer of its own on the log file, the  *)
(* first at an offset that it keeps, the second at the end of the file.    *)
(*                                                                         *)
(* The child prints tokens 1, 2, 3 ..., of which the odd ones end a line.  *)
(* Broadcasting what was drained is OutputSubscriptions.  A write to the   *)
(* log may fail (a full disk), a read may, and a task may be dropped: the  *)
(* call then returns an error, and what it had drained goes nowhere.       *)
(***************************************************************************)
EXTENDS Naturals, SequencesExt, FiniteSetsExt

CONSTANTS
  Caller,      \* threads that make blocking calls
  Task,        \* tasks that await read_stdout_available
  None,        \* nobody
  MaxTokens,   \* bound: tokens printed
  MaxTake,     \* tokens that one call drains at most
  MaxCalls,    \* bound: calls
  MaxLost      \* bound: tokens lost by calls that fail

ASSUME NobodyAssumption == None \notin Caller \cup Task
ASSUME TakeAssumption   == MaxTokens \in Nat /\ MaxTake \in Nat \ {0} /\ MaxCalls \in Nat

VARIABLES
  \* the child and its pipe, which holds tokens taken + 1 .. printed
  printed, taken,
  alive,       \* the child has its end of the pipe open
  exited,      \* its record says Exited
  \* DirectOutput
  keeper,      \* who has its mutex
  lineBuf,     \* line_buffer
  pending,     \* what its log writer has not flushed
  offset,      \* where in the file that writer stands
  \* the async output
  asyncOn,     \* async_outputs has the shell
  asyncPending,\* what its log writer has not flushed
  \* the log file
  log,
  \* the calls
  pc,          \* where each caller and task stands
  kind,        \* the call each caller is in
  drained,     \* the chunks a task has drained and not logged
  calls,       \* calls begun
  \* history
  given,       \* tokens handed to a caller or task
  lines,       \* the lines handed out, in order
  users,       \* kinds of calls that have drained something
  lost,        \* tokens drained by a call that failed
  unlogged,    \* a call failed before all it drained was given to a log writer
  raced        \* two drained or logged beside each other

childVars  == <<printed, alive, exited>>
directVars == <<keeper, lineBuf, pending, offset>>
asyncVars  == <<asyncOn, asyncPending>>
callVars   == <<pc, kind, drained, calls>>
histVars   == <<given, lines, users, lost, unlogged, raced>>
vars == <<childVars, taken, directVars, asyncVars, log, callVars, histVars>>

-----------------------------------------------------------------------------
Actor == Caller \cup Task

\* read_line_blocking of the manager and of a FerrousFrameworkPipe, the calls
\* for chunks, flush_stdout_log_blocking, log_tail, and the async call.
LineKind     == {"line", "pipe"}
BlockingKind == LineKind \cup {"chunk", "flush", "tail"}

Interval(a, b) == [i \in 1..(b - a) |-> a + i]    \* <<a + 1, ..., b>>

Waiting == printed - taken

\* A line in the buffer: everything up to the first newline.
LineLengths == {i \in 1..Len(lineBuf) : lineBuf[i] % 2 = 1}
HasLine == LineLengths # {}

\* Writing s at an offset, over what is there.
Overwrite(file, at, s) ==
  [i \in 1..(IF Len(file) > at + Len(s) THEN Len(file) ELSE at + Len(s)) |->
     IF i > at /\ i <= at + Len(s) THEN s[i - at] ELSE file[i]]

\* A call that had drained s fails.
Loses(s) == lost' = lost \cup ToSet(s) /\ Cardinality(lost') <= MaxLost

Goto(a, to) == pc' = [pc EXCEPT ![a] = to]

Init ==
  /\ printed = 0 /\ taken = 0 /\ alive = TRUE /\ exited = FALSE
  /\ keeper = None /\ lineBuf = <<>> /\ pending = <<>> /\ offset = 0
  /\ asyncOn = FALSE /\ asyncPending = <<>> /\ log = <<>>
  /\ pc = [a \in Actor |-> "idle"]
  /\ kind = [c \in Caller |-> "none"]
  /\ drained = [t \in Task |-> <<>>]
  /\ calls = 0
  /\ given = {} /\ lines = <<>> /\ users = {}
  /\ lost = {} /\ unlogged = FALSE /\ raced = FALSE

-----------------------------------------------------------------------------
(* The child and the reactor.                                              *)

ChildPrints ==
  /\ alive /\ printed < MaxTokens
  /\ printed' = printed + 1
  /\ UNCHANGED <<alive, exited, taken, directVars, asyncVars, log, callVars, histVars>>

ChildExits ==
  /\ alive /\ alive' = FALSE
  /\ UNCHANGED <<printed, exited, taken, directVars, asyncVars, log, callVars, histVars>>

NoteExit ==
  /\ ~alive /\ ~exited /\ exited' = TRUE
  /\ UNCHANGED <<printed, alive, taken, directVars, asyncVars, log, callVars, histVars>>

-----------------------------------------------------------------------------
(* DirectOutput's log.                                                     *)

\* Mistake: forgetting that the buffer was flushed.
FlushAgain ==
  /\ log' = Overwrite(log, offset, pending)
  /\ offset' = offset + Len(pending)
  /\ UNCHANGED pending

\* The log was opened without O_APPEND.
Flush ==
  /\ log' = Overwrite(log, offset, pending)
  /\ offset' = offset + Len(pending)
  /\ pending' = <<>>

\* The writer has all to write: nothing, some or all of it reaches the file,
\* as enough bytes or time have gone by since the last flush, as the end of a
\* pipe forces one, or as far as a write got that failed.
LogWrites(all) ==
  \E k \in 0..Len(all) :
    /\ log' = Overwrite(log, offset, SubSeq(all, 1, k))
    /\ offset' = offset + k
    /\ pending' = SubSeq(all, k + 1, Len(all))

-----------------------------------------------------------------------------
(* Blocking calls.                                                         *)

\* A flush does not ask who owns the output.
Call(c, k) ==
  /\ pc[c] = "idle" /\ calls < MaxCalls
  /\ calls' = calls + 1
  /\ Goto(c, IF k = "flush" THEN "lock" ELSE "ensure")
  /\ kind' = [kind EXCEPT ![c] = k]
  /\ UNCHANGED <<childVars, taken, directVars, asyncVars, log, drained, histVars>>

\* ensure_blocking_output_available, and output_for.  log_tail ignores the
\* error and flushes.
EnsureBlocking(c) ==
  /\ pc[c] = "ensure"
  /\ IF ~asyncOn THEN Goto(c, "lock") /\ UNCHANGED kind
     ELSE IF kind[c] = "tail"
     THEN Goto(c, "lock") /\ kind' = [kind EXCEPT ![c] = "flush"]
     ELSE Goto(c, "idle") /\ kind' = [kind EXCEPT ![c] = "none"]
  /\ UNCHANGED <<childVars, taken, directVars, asyncVars, log, drained, calls, histVars>>

Lock(c) ==
  /\ pc[c] = "lock" /\ keeper = None
  /\ keeper' = c
  /\ Goto(c, "read")
  /\ UNCHANGED <<childVars, taken, lineBuf, pending, offset, asyncVars, log, kind,
                 drained, calls, histVars>>

\* The mutex is released; log_tail goes on to flush_stdout_log_blocking.
Unlock(c) ==
  /\ keeper' = None
  /\ Goto(c, IF kind[c] = "tail" THEN "lock" ELSE "idle")
  /\ kind' = [kind EXCEPT ![c] = IF @ = "tail" THEN "flush" ELSE "none"]

\* flush_stdout_log_blocking, which writes all or fails on the way.
ForceFlush(c) ==
  /\ pc[c] = "read" /\ kind[c] = "flush"
  /\ LogWrites(pending)
  /\ Unlock(c)
  /\ UNCHANGED <<childVars, taken, lineBuf, asyncVars, drained, calls, histVars>>

\* Mistake: handing out the whole buffer as a line.
TakeAll(c) ==
  /\ pc[c] = "read" /\ kind[c] \in LineKind /\ HasLine
  /\ lines' = Append(lines, lineBuf)
  /\ lineBuf' = <<>>
  /\ given' = given \cup ToSet(lineBuf)
  /\ Unlock(c)
  /\ UNCHANGED <<childVars, taken, pending, offset, asyncVars, log, drained, calls,
                 users, lost, unlogged, raced>>

\* take_line, which read_line tries before it reads more.
TakeLine(c) ==
  /\ pc[c] = "read" /\ kind[c] \in LineKind /\ HasLine
  /\ LET n == Min(LineLengths) IN
       /\ lines' = Append(lines, SubSeq(lineBuf, 1, n))
       /\ lineBuf' = SubSeq(lineBuf, n + 1, Len(lineBuf))
       /\ given' = given \cup ToSet(SubSeq(lineBuf, 1, n))
  /\ Unlock(c)
  /\ UNCHANGED <<childVars, taken, pending, offset, asyncVars, log, drained, calls,
                 users, lost, unlogged, raced>>

\* What one call drains: all that is there, up to its limit.
Drain(n) == n = Min({Waiting, MaxTake}) /\ n > 0 /\ taken' = taken + n

\* Has a task been handed the file, or is it draining it?
HandedOver == asyncOn \/ \E t \in Task : pc[t] = "insert"

Reads(c) == pc[c] = "read" /\ kind[c] # "flush" /\ (kind[c] \in LineKind => ~HasLine)

\* read_available has found something: it is logged, and goes to the line
\* buffer or to the caller.
ReadSome(c) ==
  /\ Reads(c)
  /\ \E n \in 1..MaxTake :
       LET new == Interval(taken, taken + n) IN
       /\ Drain(n)
       /\ LogWrites(pending \o new)
       /\ IF kind[c] \in LineKind
          THEN /\ lineBuf' = lineBuf \o new
               /\ UNCHANGED <<keeper, pc, kind, given>>
          ELSE /\ given' = given \cup ToSet(new)
               /\ Unlock(c)
               /\ UNCHANGED lineBuf
  /\ users' = users \cup {kind[c]}
  /\ raced' = (raced \/ HandedOver)
  /\ UNCHANGED <<childVars, asyncVars, drained, calls, lines, lost, unlogged>>

\* read_available fails over n tokens, of which the log writer was given the
\* first j: the poll, a read after others, a write to the log or a flush.
ReadFails(c) ==
  /\ Reads(c)
  /\ \E n \in 0..MaxTake, j \in 0..MaxTake :
       /\ j <= n /\ n <= Waiting /\ taken' = taken + n
       /\ LogWrites(pending \o Interval(taken, taken + j))
       /\ Loses(Interval(taken, taken + n))
       /\ unlogged' = (unlogged \/ j < n)
       /\ users' = IF n > 0 THEN users \cup {kind[c]} ELSE users
       /\ raced' = (raced \/ (n > 0 /\ HandedOver))
  /\ Unlock(c)
  /\ UNCHANGED <<childVars, lineBuf, asyncVars, drained, calls, given, lines>>

\* Mistake: a read_line that times out throws away what it has.
ReadNothingForgets(c) ==
  /\ Reads(c) /\ (kind[c] \notin LineKind => Waiting = 0)
  /\ LogWrites(pending)
  /\ lineBuf' = <<>>
  /\ IF kind[c] = "pipe"
     THEN keeper' = None /\ Goto(c, "status") /\ UNCHANGED kind
     ELSE Unlock(c)
  /\ UNCHANGED <<childVars, taken, asyncVars, drained, calls, histVars>>

\* The poll times out, or finds the end of the file; a read_line also gives up
\* when its time has run out over chunks without a newline.  The call answers
\* None, but that of a FerrousFrameworkPipe looks at the record.
ReadNothing(c) ==
  /\ Reads(c) /\ (kind[c] \notin LineKind => Waiting = 0)
  /\ LogWrites(pending)
  /\ IF kind[c] = "pipe"
     THEN keeper' = None /\ Goto(c, "status") /\ UNCHANGED kind
     ELSE Unlock(c)
  /\ UNCHANGED <<childVars, taken, lineBuf, asyncVars, drained, calls, histVars>>

\* Mistake: waiting for a line whatever the record says.
PipeWaits(c) ==
  /\ pc[c] = "status"
  /\ Goto(c, "ensure")
  /\ UNCHANGED <<childVars, taken, directVars, asyncVars, log, kind, drained, calls, histVars>>

\* FerrousFrameworkPipe::read_line_blocking
PipeStatus(c) ==
  /\ pc[c] = "status"
  /\ Goto(c, IF exited THEN "idle" ELSE "ensure")
  /\ kind' = [kind EXCEPT ![c] = IF exited THEN "none" ELSE @]
  /\ UNCHANGED <<childVars, taken, directVars, asyncVars, log, drained, calls, histVars>>

CallStep(c) ==
  \/ EnsureBlocking(c) \/ Lock(c) \/ ForceFlush(c) \/ TakeLine(c)
  \/ ReadSome(c) \/ ReadNothing(c) \/ PipeStatus(c)

-----------------------------------------------------------------------------
(* read_stdout_available.                                                  *)

Await(t) ==
  /\ pc[t] = "idle" /\ calls < MaxCalls
  /\ calls' = calls + 1
  /\ Goto(t, "look")
  /\ UNCHANGED <<childVars, taken, directVars, asyncVars, log, kind, drained, histVars>>

\* async_stdout_output: one that is there already, or a shell to make one for.
AsyncLook(t) ==
  /\ pc[t] = "look"
  /\ Goto(t, IF asyncOn THEN "await" ELSE IF exited THEN "idle" ELSE "handover")
  /\ UNCHANGED <<childVars, taken, directVars, asyncVars, log, kind, drained, calls, histVars>>

\* Mistake: duplicating the file descriptor before what was read is in the log.
HandoverUnflushed(t) ==
  /\ pc[t] = "handover" /\ keeper = None
  /\ Goto(t, "insert")
  /\ UNCHANGED <<childVars, taken, directVars, asyncVars, log, kind, drained, calls, histVars>>

\* Under the mutex of the blocking output its log is flushed and its file
\* descriptor duplicated ...
AsyncHandover(t) ==
  /\ pc[t] = "handover" /\ keeper = None
  /\ Flush
  /\ Goto(t, "insert")
  /\ UNCHANGED <<childVars, taken, keeper, lineBuf, asyncVars, kind, drained, calls, histVars>>

\* ... unless the flush or the duplication fails, ...
HandoverFails(t) ==
  /\ pc[t] = "handover" /\ keeper = None
  /\ LogWrites(pending)
  /\ Goto(t, "idle")
  /\ UNCHANGED <<childVars, taken, keeper, lineBuf, asyncVars, kind, drained, calls, histVars>>

\* ... and later the new output is entered, unless there is one by then ...
AsyncInsert(t) ==
  /\ pc[t] = "insert"
  /\ Goto(t, "await")
  /\ asyncOn' = TRUE
  /\ UNCHANGED <<childVars, taken, directVars, asyncPending, log, kind, drained, calls, histVars>>

\* ... or attaching the file descriptor or opening the log fails.
InsertFails(t) ==
  /\ pc[t] = "insert"
  /\ Goto(t, "idle")
  /\ UNCHANGED <<childVars, taken, directVars, asyncVars, log, kind, drained, calls, histVars>>

\* AsyncDirectOutput::read_available
AsyncRead(t) ==
  /\ pc[t] = "await"
  /\ \E n \in 1..MaxTake :
       /\ Drain(n)
       /\ drained' = [drained EXCEPT ![t] = Interval(taken, taken + n)]
  /\ Goto(t, "log")
  /\ users' = users \cup {"async"}
  /\ raced' = (raced \/ \E u \in Task : pc[u] = "log")
  /\ UNCHANGED <<childVars, directVars, asyncVars, log, kind, calls, given, lines, lost, unlogged>>

\* read_fd_available fails after n tokens, or the call is dropped where it waits
\* for some.
AsyncReadFails(t) ==
  /\ pc[t] = "await"
  /\ \E n \in 0..MaxTake :
       /\ n <= Waiting /\ taken' = taken + n
       /\ Loses(Interval(taken, taken + n))
       /\ unlogged' = (unlogged \/ n > 0)
       /\ users' = IF n > 0 THEN users \cup {"async"} ELSE users
  /\ Goto(t, "idle")
  /\ UNCHANGED <<childVars, directVars, asyncVars, log, kind, drained, calls, given, lines, raced>>

AsyncEnd(t) ==
  /\ pc[t] = "await" /\ Waiting = 0 /\ ~alive
  /\ Goto(t, "idle")
  /\ UNCHANGED <<childVars, taken, directVars, asyncVars, log, kind, drained, calls, histVars>>

\* Its log writer appends.
AppendWrites(all) ==
  \E k \in 0..Len(all) :
    /\ log' = log \o SubSeq(all, 1, k)
    /\ asyncPending' = SubSeq(all, k + 1, Len(all))

\* write_chunks_to_log, and the return.
AsyncLog(t) ==
  /\ pc[t] = "log"
  /\ AppendWrites(asyncPending \o drained[t])
  /\ given' = given \cup ToSet(drained[t])
  /\ drained' = [drained EXCEPT ![t] = <<>>]
  /\ Goto(t, "idle")
  /\ UNCHANGED <<childVars, taken, directVars, asyncOn, kind, calls, lines, users,
                 lost, unlogged, raced>>

\* It fails after j tokens, in the flush behind all of them, or before the
\* first because the call is dropped where it waits for the log's lock.
AsyncLogFails(t) ==
  /\ pc[t] = "log"
  /\ \E j \in 0..Len(drained[t]) :
       /\ AppendWrites(asyncPending \o SubSeq(drained[t], 1, j))
       /\ unlogged' = (unlogged \/ j < Len(drained[t]))
  /\ Loses(drained[t])
  /\ drained' = [drained EXCEPT ![t] = <<>>]
  /\ Goto(t, "idle")
  /\ UNCHANGED <<childVars, taken, directVars, asyncOn, kind, calls, given, lines, users, raced>>

TaskStep(t) ==
  \/ AsyncLook(t) \/ AsyncHandover(t) \/ AsyncInsert(t)
  \/ AsyncRead(t) \/ AsyncEnd(t) \/ AsyncLog(t)

TaskFails(t) == HandoverFails(t) \/ InsertFails(t) \/ AsyncReadFails(t) \/ AsyncLogFails(t)

-----------------------------------------------------------------------------
Next ==
  \/ ChildPrints \/ ChildExits \/ NoteExit
  \/ \E c \in Caller : (\E k \in BlockingKind : Call(c, k)) \/ CallStep(c) \/ ReadFails(c)
  \/ \E t \in Task : Await(t) \/ TaskStep(t) \/ TaskFails(t)

Spec == Init /\ [][Next]_vars

\* Threads and tasks run and the reactor sees a dead child; a poll that has its
\* timeout behind it returns.
Fairness ==
  /\ WF_vars(NoteExit)
  /\ \A c \in Caller : WF_vars(CallStep(c))
  /\ \A t \in Task : WF_vars(TaskStep(t))

FairSpec == Spec /\ Fairness

-----------------------------------------------------------------------------
(* Correctness.                                                            *)

Tokens == 1..MaxTokens

TypeOK ==
  /\ printed \in 0..MaxTokens /\ taken \in 0..printed
  /\ alive \in BOOLEAN /\ exited \in BOOLEAN
  /\ keeper \in Caller \cup {None}
  /\ lineBuf \in BoundedSeq(Tokens, MaxTokens)
  /\ offset \in 0..MaxTokens
  /\ asyncOn \in BOOLEAN
  /\ \A s \in {pending, asyncPending, log} : ToSet(s) \subseteq Tokens
  /\ pc \in [Actor -> {"idle", "ensure", "lock", "read", "status", "look",
                       "handover", "insert", "await", "log"}]
  /\ kind \in [Caller -> BlockingKind \cup {"none"}]
  /\ calls \in 0..MaxCalls
  /\ given \subseteq Tokens /\ lost \subseteq Tokens /\ users \subseteq BlockingKind \cup {"async"}

\* Every token that was drained is in one place: handed to one caller, in the
\* line buffer for the next read_line, on its way to the task that drained it,
\* or gone with a call that failed; also when a blocking and an async reader
\* drain the pipe at once.  (read_line, read_available, take_line)
ReadOnce ==
  /\ given \cup ToSet(lineBuf) \cup lost \cup UNION {ToSet(drained[t]) : t \in Task}
       = 1..taken
  /\ given \cap ToSet(lineBuf) = {} /\ lost \cap (given \cup ToSet(lineBuf)) = {}
  /\ \A t \in Task : ToSet(drained[t]) \cap (given \cup ToSet(lineBuf) \cup lost) = {}
  /\ \A t, u \in Task : t # u => ToSet(drained[t]) \cap ToSet(drained[u]) = {}
  /\ IsInjective(lineBuf) /\ \A t \in Task : IsInjective(drained[t])

\* The log holds what was drained, in the order it was drained in, but for what
\* the writers have not flushed: the change from the blocking to the async
\* reader, with its second writer, loses, repeats and overwrites nothing.  It
\* does when a blocking read that began before drains after the change, and
\* when two tasks drain one after the other and log the other way round, and
\* what a call drained that failed too early is missing.  A write that fails
\* with some of the buffer written does no harm.
\* (async_stdout_output, flush_log_if_due, write_chunks_to_log)
LogWhole ==
  ~raced /\ ~unlogged =>
    \E rest \in {<<>>} \cup {drained[t] : t \in Task} :
      /\ \A t \in Task : drained[t] \in {<<>>, rest}
      /\ log \o pending \o asyncPending \o rest = Interval(0, taken)

\* A line ends at its first newline, and its tokens are in order.
IsLine(s) ==
  /\ s # <<>>
  /\ \A i \in 1..Len(s) : s[i] % 2 = 1 <=> i = Len(s)
  /\ \A i, j \in 1..Len(s) : i < j => s[i] < s[j]

\* Lines are handed out one at a time and in order, however their bytes come in
\* and whichever thread asks.  When nobody drains the pipe but read_line, every
\* token is in a line or waits for the next one, but for those that went with a
\* call that failed: what is left of two lines is then handed out as one.
\* (read_line, take_line, read_available)
LinesWhole ==
  /\ \A i \in 1..Len(lines) : IsLine(lines[i])
  /\ \A i, j \in 1..Len(lines) : i < j =>
       \A x \in ToSet(lines[i]), y \in ToSet(lines[j]) : x < y
  /\ users \subseteq LineKind =>
       \A x \in (1..taken) \ (lost \cup ToSet(lineBuf)) :
         \E i \in 1..Len(lines) : x \in ToSet(lines[i])

\* Once the child is gone and no more calls begin, every call returns: one of a
\* FerrousFrameworkPipe that asks again and again, an await, and those that
\* wait for the mutex.  (FerrousFrameworkPipe::read_line_blocking,
\* read_available)
CallsEnd == ~alive /\ calls = MaxCalls ~> \A a \in Actor : pc[a] = "idle"
=============================================================================
