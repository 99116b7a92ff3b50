# ferrous-framework in TLA+

This directory specifies the concurrent parts of ferrous-framework: a Rust manager
of child processes ("shells"), the host that shows them in a dashboard, and the peer
that lends its shells to a host. The modules are translated from the source,
model-checked with TLC on small instances, and, for the core, proved with TLAPS for
every value of the constants. Sources are named as in the repository:
`src/native_runtime.rs` is the manager, `assets/fws_ui/fws.js` the dashboard.

1. [The system](#1-the-system): components, state, operations, hazards
2. [The modules](#2-the-modules) and how they correspond to the code
3. [The runs](#3-the-runs): what TLC checks, bounds, fairness
4. [The proofs](#4-the-proofs)
5. [Disagreements](#5-disagreements) between code and documentation
6. [What is not modelled](#6-what-is-not-modelled)
7. [The plan](#7-the-plan)

## 1. The system

### The manager: `FerrousNativeManager` (`src/native_runtime.rs`)

*State.* `ManagerState.entries` under the state lock: for each shell it owns the
record, the child handle, the stdin writer and the stdout reader. A directory with
one JSON file per shell (the persisted record), which other managers read and write
too. The reactor thread's private list of children, and the channel of
`WatchChild`/`WatchFd` commands that feeds it. A broadcast channel of lifecycle
events. The table of output subscriptions, under a lock of its own, with a lock-free
count beside it.

*Operations.* `spawn_proc`, `spawn_pipe`, `spawn_pty`: fork, persist, insert, watch,
publish, in this order and mostly without the lock. `terminate_shell_blocking`: kill
the owned child, or go by pid when the record is somebody else's.
`shutdown_app_group`, `shutdown_tree`, `shutdown_all`: SIGTERM, wait, SIGKILL, mark
what is gone. `send_stdin_eof`, `write`, `read_stdout`, `subscribe_output`,
`subscribe_lifecycle`, `get_shell`, `list_shells`, `apply_shellspec`. The host
purges: it removes the files of Exited records behind the manager's back.

*Hard.* Four kinds of threads change a record: the spawner, the reactor, and clients
that terminate or send EOF. Entry, file and event are three updates, not one. A
manager may crash between any two and be replaced by one that finds files, living
children and nothing else. Pids are signalled after they were looked at, and process
groups instead of processes in some cases.

*Correct when* nothing is called Exited that lives, no exit is missed, the file does
not stay Running beside an Exited entry, Exited is final and announced, its code
changes only at somebody's request, and only shells somebody asked to stop are
killed, children before their parents.

### Stdout readers (`src/native_runtime.rs`, `src/native_host.rs`)

*State.* For each shell a `DirectOutput` (file descriptor, line buffer, log writer)
under a mutex, and, once an async reader has asked, an `AsyncDirectOutput` on a
duplicate of the descriptor, with a log writer of its own. *Operations.* Blocking
reads of chunks and lines, `read_stdout_available`, a flush of the log, the host's
`log_tail`, which drains before it reads the log. *Hard.* Nobody drains stdout but
callers; which kind of reader owns it is checked before the mutex is taken; two
writers have the log open, one at an offset it keeps, one at the end; a read, write
or flush that fails, or a call that is cancelled, drops what it has drained.
*Correct when* every byte goes to one place or with a call that failed, the log has
all others in order, lines are whole, and calls return.

### Output subscriptions (`src/native_runtime.rs`)

*State.* For each stream of each shell a list of senders of bounded channels, a
count of dropped subscribers, one atomic count for all. *Operations.*
`subscribe_output`, `broadcast_output_batch`, `recv`, drop. *Hard.* The count is
read without the lock; a full channel means the subscriber is dropped in the middle
of a batch; one reader may be the reactor of every shell. *Correct when* the count
is exact, a subscriber that keeps up misses nothing, and nobody can hold up a
reader.

### The peer: `FerrousNativePeer` (`src/native_peer.rs`)

*State.* The host's subscriptions (a set of shells), the map of active streams to
stoppers, a shutdown flag. *Operations.* Socket callbacks (subscriptions, input
requests, connect), the ensuring thread, one relay thread for each stream,
`disconnect`. *Hard.* A relay, the ensurer and the disconnect all remove from one
map whose keys do not tell two relays of one stream apart; a relay blocks in `recv`
and must be woken to end. *Correct when* every relay can be reached through the map,
ends when it should, and a subscribed stream is served.

### The host: `FerrousNativeHost` (`src/native_host.rs`)

*State.* Browsers' log subscriptions, the rooms of their sockets, the room of the
peers, the same map of stoppers as the peer; the log indexes. *Operations.* HTTP and
Socket.IO handlers, each a task of a multi-thread runtime: open and close a log,
windows of logs, truncation, input (local first, then every peer), apply, terminate,
purge, shutdown. *Hard.* Handlers of different sockets overlap, and so do those of
one: each changes the subscriptions, the rooms, the relays and what the peers are
told, in steps with awaits in between. *Correct when* a browser gets the output of
the shell it looks at and of no other, one relay serves it, and the peers know the
set.

### Shellspec application (`src/native_runtime.rs`, `src/shellspec.rs`)

*State.* None of its own: records carry the spec they were started for.
*Operations.* Render the document (pure), start each autostart spec that has no
running shell, wait for its readiness probe, prune what the document does not list.
*Hard.* Look-then-spawn without the lock, by several requests of the host at once;
failures half way, after the fork too. *Correct when* calls in a row start a spec
once, and a successful prune leaves nothing unlisted up that it could have seen.

### Logs and windows (`src/log_window.rs`, `src/native_host.rs`)

*State.* Per log an index of record offsets with the file's identity, size and
modification time, the reset marker's token and a generation. *Operations.*
`refresh`, `window`, truncate, mark, invalidate. *Hard.* Nothing is locked between
the writer, the truncating host, whoever replaces the file, and the reader: the
reader compares what it saw before and after. *Correct when* all that is shown under
one generation comes from one content.

### Dashboard (`assets/fws_ui/fws.js`)

*State.* For each stream the window in view, whether it is followed, the request in
flight and the one queued behind it; for the drawer the shell it shows and whether
it is paused. *Operations.* Opening and closing the drawer, chunk and reset
notifications, pausing, scrolling, older/newer/tail requests, joining of pages.
*Hard.* Answers come after the reader went elsewhere, or are errors, pages are cut
by bytes and joined by counts, the log is truncated under a request. *Correct when*
the view is one uninterrupted stretch and a follower catches up or is shown why not.

Everything else (rendering of shellspecs, projections of records, MessagePack, DTOs,
HTTP routes) is sequential or pure; `PROJECT.json` lists each part with the reason
it has no module. Its `hazards` name the lines where the difficulties above bite.

### How the parts interact

The manager calls nobody; host and peer call the manager and receive its events and
chunks through channels. The host sends its subscriptions to the peers, they send
events and chunks back; input goes the other way with an acknowledgement. The
dashboard asks the host for windows, and the host reads the logs the manager writes.
Managers of different processes meet only in the metadata directory and in signals.

## 2. The modules

| Part | Modules | Abstract specification | Proofs |
|---|---|---|---|
| shell lifecycle | `ShellLifecycle`, `ShutdownPlan`, `MCShellLifecycle` | `ShellContract` | `ShellLifecycle_proofs` |
| stdout readers | `StdoutReaders`, `MCStdoutReaders` | | `StdoutReaders_proofs` |
| output subscriptions | `OutputSubscriptions`, `MCOutputSubscriptions` | `OutputContract` | `OutputSubscriptions_proofs` |
| peer output relay | `OutputRelay`, `PeerOutputRelay`, `MCPeerOutputRelay` | | `OutputRelay_proofs` (instance `Peer`) |
| host output relay | `OutputRelay`, `HostOutputRelay`, `MCHostOutputRelay` | | `OutputRelay_proofs` |
| input routing | `ShellInput`, `MCShellInput` | | `ShellInput_proofs` |
| shellspec application | `ShellspecApply`, `MCShellspecApply` | | `ShellspecApply_proofs` |
| log index | `LogIndex`, `MCLogIndex` | | `LogIndex_proofs` |
| log windows, dashboard | `LogWindow`, `LogDashboard`, `MCLogDashboard` | | `LogDashboard_proofs` |

An `MC` module instantiates its part for TLC. A definition whose comment begins with
*Mistake:* is a plausible error in the definition that follows it; it is not part of
the specification, and is there to show that a property notices it (`mutants` in
`PROJECT.json` pairs them).

A step is what one thread does between two points where another thread can see it: a
section under a lock, a system call, a file written, an event sent. Texts, paths,
payloads and timestamps are left out; sizes and offsets are kept where a property
depends on them.

### ShellLifecycle

Three kinds of threads and the operating system. `os`, `cause`, `sig` and `home` are
the child processes; `disk` the metadata directory; `entry` the manager's table;
`queued`, `watched`, `found` and `rpub` the reactor's command channel, its list and
the locals of a poll; `call` the program counters and locals of client threads;
`told` what a lifecycle subscriber has been sent.

* Spawn (`spawn_*_with_metadata_blocking`): `SpawnLaunch`, `SpawnPersist` or
  `SpawnPersistFails`, `SpawnInsert`, `SpawnWatch`, `SpawnPublish`, each a moment
  where others can interfere.
* Reactor (`reactor_loop`): `ReactorReceive`, `ReactorScan` (try_wait of all),
  `ReactorRecord` (entry and file under the lock; a failed write is ignored),
  `ReactorPublish`.
* Terminate: `TerminateLookup`, then `TerminateChild` on the owned child or
  `TerminateLoad`/`Check`/`Signal`/`Await` by pid or process group, then the marks.
* Shutdown: `ShutdownBegin`, `Term`, `Escalate`, `Sweep`; then `MarkEntry`,
  `MarkNoEntry`, `MarkDisk`, `MarkPublish` for each dead shell.
* Purge (`purge_shell`, `purge_exited_shells` of the host): `PurgeBegin` looks at
  the records once, `PurgeNext` removes the files of one, without a lock and without
  touching its entry; a file that cannot be removed ends the call.
* `Eof`, `EofPublish`; `ChildDies`; `Crash`, after which the next manager finds the
  files and the children that live, and nothing else.

A shell and its pid are one: pids are not reused. `ReactorScan` leaves out that
`try_wait` fails or a child's lock is poisoned, which the code counts as an exit
with -1: nobody else waits for these children, and no code panics under that lock.
`ShellContract` says what a caller may rely on: a shell is absent, then Running,
then Exited or purged, these only of a dead child, and a dead child does not stay
Running. A purged shell may come back as Exited. `ShellLifecycle` implements it with
`view` mapped to what `get_shell` answers (`VisibleStatus`) from the moment the
record is written; a shell that has neither entry nor record although its spawn went
past writing the record is purged. Between `persist_record` and the insert of the
entry (`src/native_runtime.rs:1118`) the answer comes from the record: a child that
dies there is seen Exited, and Running again when its entry appears, until the
reactor has recorded the exit. The contract allows this one return to Running, when
a shell becomes `known`, and no other. `ExitIsFinal` is about entries: Exited stays,
and the exit code changes only of a shell somebody asked to stop. Of such a shell
the last mark counts: a terminate that found no entry and the record still Running
marks with `None` (1507, 1967), which may withdraw the code the reactor has stored
meanwhile.

### ShutdownPlan

The pure part of `shutdown_process_tree_blocking`: from one snapshot of `/proc` (a
function from pids to parents) and the requested roots, which processes are
signalled (`Selected`, without `Protected`) and in which order (`Depth`, `Sooner`,
`KillPlan`). The loops of the code are rounds of a function: `Select` adds the
children of what is selected, `Climb` goes from a process to its parent; `Rounds` is
what so many of them lead to. A climb ends at a root, at a process that was not seen
or at one it has met before, so that a snapshot may have a cycle (`/proc` is read
entry by entry, and pids are used again). `PlanSound` compares the plan with the
least sets that are closed under children and parents (`Tree`, `Lineage`); what it
says of the order is about snapshots without a cycle (`Sane`). `ShellLifecycle` has
what comes after the plan; a shell has no descendants there.

### StdoutReaders

A `Caller` makes blocking calls, one of line, pipe (`FerrousFrameworkPipe`), chunk,
flush and tail (`log_tail`): `EnsureBlocking` is the check of who owns the output,
`Lock` the mutex, `TakeLine`, `ReadSome`, `ReadNothing` and `ForceFlush` what is
done under it, `PipeStatus` the look at the record before a pipe asks again. A
`Task` runs `read_stdout_available`: `AsyncLook`, `AsyncHandover` (flush and
duplicate), `AsyncInsert`, `AsyncRead` or `AsyncEnd`, `AsyncLog`. Calls fail where
the code returns an error or may be cancelled: `ReadFails` and `AsyncReadFails` (a
write or flush of the log, or a read that comes after others, with what was drained
until then: 2588-2600, 2640), `AsyncLogFails` (2662-2664, also an async call that is
dropped while it waits for the log's lock), `HandoverFails` and `InsertFails`. The
tokens such a call had drained are `lost`; when it had not given all of them to a
log writer, the log misses some (`unlogged`). The child prints numbered tokens of
which every second one ends a line. The log is the file's content; the blocking
writer writes at `offset` (`Overwrite`), the async one appends.

### OutputSubscriptions

A reader for each stream takes batches and broadcasts them chunk by chunk under the
table's lock; `SkipBroadcast` is the fast path on the count. Subscribing and
counting are two steps (`SubscribePush`, `SubscribeCount`), as are sending to all
and correcting the count (`PutBack`, `Settle`). Channels are bounded; a full or
closed one removes its subscriber in the middle of a batch. `since` is a history
variable: what the stream's reader had done with (`Done`) when a subscription was
handed out.

`OutputContract` is what a subscriber may rely on, without lock, table, counter or
thread: a subscription begins with the batch its stream's reader is busy with, or
with the next one; it is given every chunk, once and in order (`Deliver`), until it
is a whole channel behind (`Lose`), keeps then what it was given, and takes it in
its own time (`Take`); and a reader has done with a batch (`Finish`) only when
everybody who is not lost has all of it. `OutputSubscriptions` implements it with a
subscription's `View`: it is open from the count on, `taken` is the number of the
last chunk it received and `given` of the last one in its channel.

### OutputRelay and PeerOutputRelay

`OutputRelay` has the map (a cell: one stream), relay threads, subscriptions with
bounded channels and the ensurer's steps; `PeerOutputRelay` drives it as
`FerrousNativePeer` does: one ensuring thread woken by subscription messages,
`Disconnect` that raises the flag and wakes it, and its `LoopDrain` at the end. A
relay slot that is free again stands for a new thread.

### HostOutputRelay

The second driver of `OutputRelay`. A handler starts with `LogsOpen`, `LogsClose`,
`BrowserGone`, `PeerConnects` or `CloseFlag` and goes through the whole chain,
others beside it: `CloseTest`, `SetShell` (the subscription), `LeaveRoom`,
`JoinRoom`, `Ensure` (the steps of `OutputRelay`) or `SubscribeRefused` (the shell
is another manager's), `Payload` and `Emit` (what the peers are told), or
`CloseDrain`. `PeerLeaves` and `ShellSpawned` come from outside. `overlapped` and a
handler's `alone` remember whether handlers have run beside each other.

### ShellInput

A request, data or EOF, runs in a handler of the host and, if the host has no live
input for the shell, in the socket callback of every connected peer. A handler is a
task of the host's runtime and `write_blocking` runs in it without `spawn_blocking`
(`src/native_host.rs:1226`), so a write that waits keeps one of the runtime's
`workers` (`OnWorker`); a step of a handler that is not running needs one that is
free (`WorkerFree`), and so does a timer that is to be noticed. With as many blocked
writes as workers nothing moves at the host: no EOF, no acknowledgement, no timeout.
The number of workers is Tokio's default (`src/native_host.rs:428` sets none). Both
go through the same steps (`InputUnavailable`, `WriteBegins`, `WriteLocks`, `Write`,
`Eof`). `lock` is the mutex of the writer, held while a pipe is full. `Timeout` may
come whenever an acknowledgement is awaited, so acknowledgements may be late or
lost; a peer may disconnect with requests unread. `Response` is what the text of an
error becomes (`error_code_for_peer_failure`). The model starts with an entry that
says Running and at most one owner; spawns are in `ShellLifecycle`.

### ShellspecApply

Any number of threads apply documents at once, as the host's requests do
(`src/native_host.rs:1629`). `Look` is `live_running_record_by_spec_id`, under the
state lock; `Spawn` comes after it was released. A shell is unborn, up, killed (its
entry still says Running), exited or stray; `ShellLifecycle` has the detail. A spawn
fails before the fork (`SpawnFails`) or after it (`SpawnFailsLate`), and then leaves
a child that runs on without an entry (stray: what follows the fork up to
`persist_record` failed, 1053-1118), or with one (1129): the first no apply will
ever see or prune, the second counts as started. A probe succeeds, times out (the
shell is terminated) or cannot be tried (it stays). `BeginPrune` takes the records,
`PruneNext` terminates one, `PruneFails` is the error of a terminate (997). The
first error ends the call. `before`, `looked` and `seen` are history: the entries
there were when a call began, when it last looked, and when the call that spawned a
shell had looked. Shells that others spawn with a spec's id, outside apply, are left
out.

### LogIndex

Records are the number of truncations before they were written (`epoch`), files are
numbered, and the reader's steps are its system calls: `Open`, `Compare`, `Scan`,
`CheckStat`, `CheckToken`, then `ReadToken` to `ReadValidated` for every record,
then `EndStat` and `Answer`. Against it run the writer, `Truncate`, `MarkReset` or
`MarkFails`, `Invalidate` and `Replace`. `shown` collects which epochs were answered
under which generation, `raced` the epochs in which the shell wrote while its log
was truncated and not marked (`Resetting`). The loop of reads in `refresh_inner` is
one `Scan`: whatever changes between two of its reads is noticed or missed by the
same checks after it.

### LogWindow and LogDashboard

`LogWindow` is the arithmetic of `LineIndex::window`: boundary, direction, count and
the byte budget as a number of records. `LogDashboard` composes it with the
dashboard: `Request` and `Serve` (`loadWindow`), `Slide` (`slideWindow`), `Ask`,
`Receive`, `Dropped` and `GoOn` (`requestProjection`), `Chunk`
(`routeLogNotification`, `projectionChanged`), `Navigate` and `ScrollAway`. A
request may fail (`Refused`): a second conflict, or any other answer that is not ok,
is shown as an `error` unless another request is queued, and nothing is asked again.
The drawer is opened (`Open`, `Opened`, `OpenFails`), for the same shell or another,
and closed (`Close`); a peer may announce a reset (`ResetAnnounced`); both make what
is in flight `void` (`projectionEpoch`, `resetRevision`, the shell). `Pause` is the
box of that name. Another shell's log is not told from the same shell's after a
truncation. Chunks are announced before they are flushed, and `Truncate` starts a
new generation.

## 3. The runs

| Run | Instance | Shows |
|---|---|---|
| `shell_safety` | 2 shells, one of them piped, 2 clients, 2 managers of different process groups, 1 failing write, within `Small` | `ExitedIsDead`, `RunningIsWatched`, `DiskNotStale`, `KillScope`, `ExitIsFinal` |
| `shell_liveness` | 1 piped shell, 1 client, 2 managers, 1 failing write, fair; shutdown plans over 4 pids | `PlansAreSound`, `ImplementsContract`, `EveryExitPublished`, `TerminateKills`, `CallsReturn` |
| `stdout` | 2 callers, 2 tasks, 3 tokens, drains of at most 2, 3 calls, 1 token lost, fair | `ReadOnce`, `LogWhole`, `LinesWhole`, `CallsEnd` |
| `subscriptions` | 2 streams, 2 subscribers, channels of 2, 4 chunks, fair | `CountExact`, `NothingMissed`, `ImplementsOutputContract`, `ReaderGoesOn` |
| `peer_relay` | 3 relays, channels of 1, 2 chunks, 3 messages, fair | `NoOrphan`, `ActiveIsAlive`, `RelaysEnd` |
| `peer_relay_subscribed` | 2 relays, fair | counterexample to `SubscribedIsRelayed` |
| `host_relay` | 2 relays, 2 handlers at a time, 2 browsers, 2 shells, channels of 1, 2 chunks, 4 requests within `Bound` | `ActiveIsAlive`, `SettlesWhenAlone`, `NoOrphanInOrder`, `ViewsInOrder` |
| `shell_input` | 2 requests, 2 peers, 1 or 2 workers, a pipe or PTY with room for 1, within `Few`, fair | `AtMostOnce`, `AnswersHold`, `NothingAfterEof`, `CallsAnswered` |
| `shell_input_pty` | 2 requests, 1 peer | counterexample to `FanOutWithoutInput` |
| `apply` | 2 specs, 4 shells, 2 appliers, 3 calls, the third alone | `OnePerSpec`, `Pruned` |
| `log_index` | 3 records, 3 writes, 2 resets, 3 windows | `OneGenerationOneContent` |
| `dashboard` | windows of 3, shifts of 1, budget of 2 or more, 4 records, 1 truncation, 1 failure, 2 reader's actions, within `Few`, fair | `ViewConsecutive`, `NoStalePartial`, `PagesMove`, `FollowerCatchesUp` |

The runs `stdout`, `subscriptions`, `log_index` and `dashboard` also have their
module's type invariant; those of the other modules are proved (section 4) and are
not checked again.

**Why the bounds are enough.** *Shells*: everything in `ShellLifecycle` except group
signals, shutdowns and purges of several concerns one shell at a time, and a crash,
a failing write, the spawner, the reactor and two clients on one shell include every
pair of actors. The second shell is there for what one call does to the other. The
constraint `Small` of `MCShellLifecycle` keeps the product finite in practice: `One`
explores the first shell alone in full, with purges one at a time; `Both` has two
shells with one call at a time and no failing writes; `InTurn` lets spawns, calls
and the reactor's findings come one by one there, until a second manager runs or
while everything lives. A third manager repeats what the second finds. *Plans*: four
processes besides process 0 allow a root above another, the manager below a root,
and two branches of different depth; all 2^4 sets of roots and all snapshots are
tried, in the initial state, since the plan depends on no state. *Stdout*: tokens 1
and 3 end a line, so three give two lines, one of two tokens, and drains of at most
two cut them in every way; one lost token is enough to join the rest of two lines;
three calls are one before, one during and one after the output changes hands.
*Subscriptions*: two streams make the count shared; two subscribers let one be
dropped while the other must get the batch; channels of two fill up within a batch
of two. *Relays of the peer*: three let an old relay clean up while one serves and
another is being made; three messages are enough to unsubscribe, subscribe and
unsubscribe again. *Relays of the host*: two handlers overlap in all ways, two
browsers share a shell or look at different ones; four requests let both look at
something, move or leave, while a peer comes or goes. `Bound` allows the fourth only
when one of the browsers is out of it. *Input*: two requests race for the lock and
for the EOF; with two peers one may own the shell while the other answers, or both
answer and neither owns it. One worker is held by one blocked write, two by two of
them. `Few` leaves out beginnings that differ by names only, and has both peers in
the room for data and an EOF on a pipe of one of them, and a single worker for a
pipe of the host only, since writes to peers' shells hold none of the host's
workers. *Apply*: four shells are more than the two specs can have running, so a
second one of a spec would have room to appear; two calls overlap in every way, and
the third, which `LastAlone` lets begin and go on only while no other runs, meets
what they leave behind. *Logs*: the third window is the first that can be answered
under a generation two resets may have invalidated. *Dashboard*: windows of three
and shifts of one are the smallest for which a shift is less than a window and a
joined window must be cut; the budget of two is the least the 1 MiB response and the
8 KiB record text leave room for (it is far more, so pages of all sizes occur).
`Few` allows two of the reader's acts, failures and truncations together, and the
longest logs with one of them or two acts.

**Fairness.** *Weak* for the reactor, spawning threads and client threads, and for a
signalled child's death (SIGKILL): a thread that can run does. Not for a crash, a
child's own end or clients' decisions. `ReactorScan` polls forever in the code, so
weak fairness is what its loop gives. *Strong* only in `OutputSubscriptions`: a
reader that competes for the table's mutex is assumed to get it at last. The
standard library promises no such fairness, but the sections under this mutex are
short and never block; subscribers need not receive. *Weak* for the peer's threads;
the host and the shell owe nothing. *Weak* for the callers and tasks of
`StdoutReaders` and for the reactor's note of an exit: a caller in `Lock` competes
for a mutex that is held only while others have calls left, and a poll with its
timeout behind it returns; the child need not print or end. *Weak* for serving and
receiving in the dashboard; nobody has to flush or print. *Weak* for each handler of
`ShellInput`, whose steps are enabled only while a worker is free: Tokio is taken to
give a free worker every task that is ready and every timer that has run out.
Callbacks of peers owe nothing, and a child need not read. `CallsAnswered` says that
in the end every call is answered, unless it is itself held up by a child of the
host that does not read, or as many others as there are workers are.

Deadlock is not looked for: every system here may come to rest (bounds used up,
nothing to do).

## 4. The proofs

Checked by TLAPS for all values of the constants under the modules' named
assumptions (finite bounds are arbitrary numbers; sets of shells, clients, relays,
readers and specs are arbitrary, infinite ones included; the streams and subscribers
of `OutputSubscriptions` are finitely many, because they are counted).

**ShellLifecycle_proofs.** `Inv` is the conjunction of `TypeOK`, the safety
invariants and five strengthenings:

* `BornInv`: nothing happened to a shell before its fork, and it was forked by this
  process or an earlier one. Without it a crash could be followed by an entry for an
  unborn shell.
* `SpawnInv`: an entry is there exactly from the insertion to the end of the
  process; its record was written before, and is missing only when the child is
  dead, that is when it was purged. It is what makes `DiskNotStale` go through a
  spawn, and `RunningIsWatched` through `SpawnWatch`.
* `GoneInv`: what the reactor is about to record or announce as Exited is dead; the
  poll and the record are two steps.
* `ClientInv`: the same for clients: a shell that is to be marked or purged is dead,
  one that is to be signalled was asked for. `ExitedIsDead` and `KillScope` rest on
  it, and so does the refinement of a purge.
* `CodeInv`: the code of an Exited entry is the reactor's, unless somebody asked to
  stop the shell. The reactor writes it once, so `ExitIsFinal` follows.


`Invariance` proves it inductive, with one lemma for the types and one for the other
conjuncts of each group of actions. From it follow `TypeCorrect`,
`ExitedIsDeadAlways`, `RunningIsWatchedAlways`, `DiskNotStaleAlways`,
`KillScopeAlways` and `ExitIsFinalAlways` (an action property). `Refinement` proves
`Spec => Contract!Safety`: the initial states map to initial states, and every step
to steps of the contract or stuttering. A crash leaves the answer for a shell whose
record is on disk as it was or makes it Exited, because that record and a living pid
answer what the lost entry did; it turns one whose record was taken into purged,
which by `SpawnInv` is dead. The one step from Exited or purged to Running is the
insert of the entry, which makes the shell known.

`PlansSound` is about `ShutdownPlan` alone: for every finite set of processes, every
snapshot of them and all roots. What `Selected` gathers is closed after as many
rounds as there are processes (`SelectedFamily`), because a round that is not the
last one adds one of them, and is in every closed set that has the roots
(`SelectedLeast`); so it is `Tree`. `AscentEnds` has a climb end, because otherwise
it would meet more processes than there are; `ProtectedIsLineage` and
`DeeperThanParent` (a process that is no root is one deeper than its parent, unless
it is its own ancestor) rest on it. `Places` says of any strict order of finitely
many things that counting what is before each numbers them from 1 on, and
`SoonerOrder` that the plan's order is one: hence `KillPlan` has everybody once, the
deeper first. The inductions are over sets of numbers (`Induction`, from a least
element), and `RoundsRounded` ties them to the recursive function in `Rounds`.
`PlansAreSoundAlways` is what of this the run makes TLC evaluate.

**OutputRelay_proofs** has both drivers of `OutputRelay`. At the host any number of
handlers run beside each other, and what can be relied on depends on who was alone.
`AliveInv` needs nothing: the map never holds a relay that has ended
(`HostActiveIsAliveAlways`), because whoever ends empties the map, be it of another
relay's stopper. `LoneInv` speaks of a handler beside which no other has run: what
it found at one step still holds at the next, since relays only take from the map
and only handlers change what is looked at; `SoleInv` says that there is at most one
such handler and no other beside it. It gives `SettlesWhenAlone` without any
assumption about the past. `RelayOrder`, `RoomOrder` and `GoneOrder` hold as long as
handlers have not overlapped, and say for every place a handler can be in which of
the relays, rooms and what peers know is in line and which is what it is about to
repair; from them follow `NoOrphanInOrder` and `ViewsInOrder`. `StepInv` reduces
every step of a handler to the case that it is alone: without it, nothing of the
order is left to keep.

At the peer (the instance `Peer`; the two assumptions `PeerOutputRelay` adds are the
hypotheses `WakesBounded` and `OneEnsurer`), `PeerInv` adds to `TypeOK`, `NoOrphan`
and `ActiveIsAlive` that the map stays empty from the ensurer's look to its
insertion (`PeerEnsureInv`) and that every wake has a cause (`PeerWakeInv`).
`PeerEnsureInv` takes `OneEnsurer`: one thread ensures (`start_output_relay`). The
host has several, and `NoOrphanInOrder` says what is left there. `PeerEmptyMap` is
the lemma behind every removal: whoever empties the map stops what was in it.

**ShellInput_proofs.** A request may be in its handler, in inboxes and in callbacks
at the same time, but only the owner of the shell can write it (`ThreadInv`).
`InboxInv` says that it is in each peer's inbox or callback at most once, and only
after it was sent out; the lemmas `AppendDistinct` and `TailDistinct` let an inbox
be treated as a set. `Ahead` says that the owner is a peer and has the request
before it: then it was not written yet, which is `AtMostOnce` in its inductive form
(`EffectOf`). `FallbackOf` is what a 404 rests on: a peer that was not asked or let
the host go on neither wrote the request nor has it ahead, so that when all are
through without an error the owner is none of them or was among those. The exception
for a PTY is where the code's non-blocking write breaks this chain. `EofInv` says
that an EOF with an effect has taken the input for good, and that what begins later
is at no place where it could still write: `NothingAfterEof`. `ApartInv` disposes of
the requests a step is not about.

**ShellspecApply_proofs.** For any number of appliers whose calls overlap as they
like. Entries are not taken away (`EntryInv`). `LookInv` is behind `OnePerSpec`: of
the shells a thread saw when it found none running for its spec, none has come up
since, for a shell that is not running never runs again. `PruneInv` is behind
`Pruned`: of the shells there were when the call began, those of an unlisted spec
that are up are still among those to be terminated.

**StdoutReaders_proofs.** `TokenTypes` bounds the blocking writer: it stands within
the file (`offset` is at most the log's length) and has been given no more than was
drained. `Places` is `ReadOnce` token by token (a token is in the line buffer, with
one task, given out or lost); a step moves tokens between two of these, and
`CutSet`, `ConcatSet` and `IntervalSet` say what taking a line, joining and draining
do to the sets of tokens. That a line buffer of distinct tokens is no longer than
what was drained (`DistinctTokens`, a cardinality argument) bounds it in `TypeOK`.
`LogInv` is what `LogWhole` needs: as long as nobody raced and no failing call kept
from the log what it had drained, the blocking writer stands at the end of the log
until the output is handed over and has nothing to write afterwards, and one task at
a time logs. Then every write of either writer is an append (`OverwriteEnd`). Where
it fails, the writer overwrites: that is what the hazards at the hand-over are
about. `LineOfTwo` (with `Least`, from the least element of a set of numbers) finds
the line in a buffer whose tokens rise, so that `LinesWhole` is inductive once the
buffer is said to be later than every line, and, while only `read_line` drains, to
be with them and what is lost all that was drained.

**OutputSubscriptions_proofs.** `SubscriptionInv` puts together who holds the lock
(`LockInv`), what a reader has in hand at each stage (`Stage`), where a subscriber
is (`PlaceInv`: in its stream's table, waiting, kept, or dropped), the counter
(`CountInv`: exact but for what the holder of the lock has pushed and not counted,
or removed and not subtracted), the drops (`DropInv`), and what each channel holds
(`ChanInv`, `ProgressInv`). `CountExact` is `CountInv` when the lock is free.
`ProgressInv` is the strengthening behind `NothingMissed`: the last chunk a
subscriber was sent is the one its place in the current round says. That the fast
path loses nothing follows from both: a reader that sees a count of zero has nobody
in its table who was counted, and one who was not counted yet has not been handed
out (`SkipsNobody`). `Refinement` proves `Spec => Contract!Spec`. A subscription's
`given` is the number of the last chunk in its channel (`GivenIs`), which by
`ProgressInv` is how far the reader has come with it, and exceeds `taken` by the
length of the channel, since the channel's chunks are consecutive and follow the one
that was taken (`Numbered`, `Begun`). So a `try_send` is `Deliver` or `Lose` by the
room there is, and nothing if the subscriber hung up (`SendStep`); a reader that
goes back to its stream, be it by the fast path, with an empty table or after
settling, takes `Finish`: nobody is left behind (`FinishStep`).

**LogIndex_proofs.** Types hold with what the reader has looked at tied to its place
in the call (`Looked`). `OneGenerationOneContent` says of any two contents answered
under one generation that the later one is in `raced`; `Explained` is that of a set.
`FilesInv` says that a file holds records of one content, the live one of the
current one. `IndexInv` says what an index is worth while it is to be believed
(`Believed`: no mark was written since the index was compared with the token, and a
refresh not yet validated is of the file the path still names): all that its
generation has shown, that it has scanned and that can still be read under it is
`Explained` (`OneContent`), and once validated, outside a reset, the writer's file
has what was scanned (`Covered`). A step either keeps that or makes one of the
reader's later looks fail, which starts a new generation or refuses the answer.

**LogDashboard_proofs.** For windows, shifts, budgets and logs of any size.
`WindowInLog` bounds what `LineIndex::window` answers; `StretchJoined` and
`StretchCut` say that consecutive records stay consecutive when pages are joined or
cut, from which `SlideStretch` follows for `slideWindow`. `Inv` says that the view
and the answer in flight are such stretches and that no request asks for more than a
window: an answer alone decides what is shown next, so the answer must be in it.
This is `ViewConsecutive`; an answer that is void is a stretch too, but need not
continue the view, and is dropped. `PagesInv` ties a request and its answer to the
view they were made for and to the log's generation: the answer begins or ends at
the record that was asked for again, and only the last record shown can be partial.
From it follow `NoStalePartial` and, with `SlideOlder` and `SlideNewer`,
`PagesMove`, an action property of every answer that is taken (`Paged`), whether or
not the view is another afterwards: the repeated record takes no room from the page
for any shift below a window and any budget of at least two records. `BoundsInv`
completes `TypeOK`.

**Only model-checked:** all liveness properties (`Noticed`, the liveness half of
`ShellContract`, and `CallsAnswered` included). Every other invariant and action
property that a passing run checks is a theorem, and so is the safety of both
abstract specifications.

## 5. Disagreements

* **Exited before Spawned**. The spawn hands the child to the reactor before it
  publishes Spawned; a child that exits at once may be announced Exited first.
  `tests/native_manager.rs:1224` expects Spawned first. `SpawnedFirst` of
  `ShellLifecycle` states it; TLC finds the counterexample with one shell and no
  client when a configuration lists it as a property, which none does.
* **A subscribed stream without a relay** (`peer_relay_subscribed`). A relay that
  ends takes the map's entry by key and stops it, though it may be a newer relay's;
  unsubscribing and subscribing again in quick succession may leave the stream
  without a relay until the next message. README.md:213 says the peer forwards
  subscribed output.
* **Fan-out with live input at hand** (`shell_input_pty`). `set_nonblocking` on a
  PTY's output (`src/native_runtime.rs:1311`) acts on the open file description its
  input shares, so a write to a full PTY stops with "Resource temporarily
  unavailable", possibly half-way; the host reads "unavailable" as missing input and
  asks its peers, and the caller is told 404 although a part was written.
  README.md:211 says peers are asked when local input is unavailable. For the same
  reason the second half of `AnswersHold` is stated of pipes.
* **A reader of the log takes from the reader of a protocol.** `log_tail`
  (`src/native_host.rs:1816-1819`) drains the shell's stdout into the log, and drops
  what it drained; README.md:82 says pipe and PTY stdout "stay on the direct read
  path so protocol readers keep ownership of the bytes". `LinesWhole` says that
  every token is in a line only while nobody but `read_line` drains.
* **A shutdown of a tree that changes.** README.md:271 says that roots "plus procfs
  descendants" are shut down. `/proc` is read once and entry by entry: what is
  forked or reparented meanwhile is in no plan. A requested root below another one
  counts as depth 0 and is signalled after its parent; `PlanSound` promises the
  order of the others.

Some properties hold only under a condition the code does not enforce; the condition
is a part of the property, and TLC finds a counterexample without it:

* `OnePerSpec` forbids two running shells of a spec only when one of the calls that
  spawned them looked after the other's shell was there. The host serves
  `apply_shellspec` requests concurrently (`src/native_host.rs:1629`), and two calls
  that look before either spawns start a spec twice. `Pruned` speaks of shells that
  had an entry when the call began: what other calls start meanwhile, and the child
  of a spawn that failed between its fork and its insert, which has no entry, are
  beyond it.
* `OneGenerationOneContent` but for contents in `raced`. A shell that prints between
  the truncation of its log and the mark (`src/native_host.rs:1370`), or after a
  mark that could not be written, may regrow the log past the indexed size, and what
  it wrote is answered under the old generation, which
  `docs/LOG_PROJECTION_PLAN.md:490` excludes. That this is the only way is what is
  checked and proved.
* `NoOrphanInOrder` and `ViewsInOrder` when the host's handlers have not overlapped.
  When they have: two that find a stream free both subscribe, and the second stopper
  replaces the first, whose relay then serves beside the second (chunks come twice)
  until its stream leaves the map; a handler prunes by a set it computed before
  another one wanted the stream; one that is refused a subscription removes the
  stopper another has inserted; of two sets computed for the peers the older one may
  be sent last; two handlers of one socket may leave it in the rooms of two shells
  or of the wrong one; and a handler that goes on after its socket's disconnect
  leaves a subscription nobody removes. `SettlesWhenAlone` says how much of that the
  next handler repairs if it runs alone.
* `LogWhole` when no two readers have drained or logged beside each other, and no
  call has failed that had not logged all it drained. The owner of the output is
  checked before the mutex is taken (`src/native_runtime.rs:1998`), so a blocking
  reader past the check writes at its old offset over what the async one appends;
  and two tasks that drain one after the other may log the other way round (2641).

Also worth knowing, and visible in the models: a purge that overtakes a write of the
same record is undone by it, and the purged shell's entry stays visible in its
manager (`ShellContract` lets a purged shell come back as Exited); a
`FerrousFrameworkPipe` may answer that there is no line although one was printed
after its last poll, and an unterminated last line is never handed out
(`PipeStatus`).

## 6. What is not modelled

* Rendering of shellspecs, projection of records, MessagePack observation, DTOs,
  paths and environment: pure and sequential, covered by fixtures and tests.
* HTTP routes, authentication, payload validation: no shared state beyond the calls
  they make.
* Reuse of pids, and two writers of one record's temporary file
  (`src/native_runtime.rs:3120`).
* A memory order weaker than sequential consistency: the relaxed load of the
  subscriber count (`OutputSubscriptions`) reads the last value written.
* Several readers that broadcast one stream: `OutputSubscriptions` has one reader of
  each, although a blocking reader and async tasks (`StdoutReaders`) may broadcast
  the same stream beside each other, and then in another order than they drained.
* The process tree below a shell: `ShutdownPlan` has the plan for a tree as it was
  found, `ShellLifecycle` the signals to shells without descendants.
* Reconnecting sockets: a peer or browser that connects again is another one.
* Lifecycle events that a lagging peer loses (`src/native_peer.rs:345`); a failure
  of a spawn's first write of the record is modelled (`SpawnPersistFails`), what the
  caller does about the child that runs on is not.
* That dashboards are not told of a truncation (`src/native_host.rs:927`): one that
  follows shows the old content until the next chunk.
* The contents of browsers' answers: the open handler reads the initial text before
  it subscribes, so that what is printed in between is in neither; the dashboard
  closes the gap with its own requests (`LogDashboard`).
* The cache of log indexes and its eviction; a new index is a new generation, which
  `LogDashboard` meets as a conflict.
* The resize of a PTY: one ioctl.

`hazards` in `PROJECT.json` lists, at its line, what could go wrong in this code;
one that no property covers has a note with the reason.

## 7. The plan

In order of weight; what is above is done.

1. A process tree that changes while it is shut down, with forks and reparenting
   between the snapshot and the signals, composed with `ShutdownPlan`.
2. The lifecycle channel of the peer with its lag, and the cache of log indexes.
