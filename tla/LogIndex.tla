------------------------------ MODULE LogIndex ------------------------------
(***************************************************************************)
(* The index of one log and the windows read through it (src/log_window.rs *)
(* LineIndex, behind its manager's lock), against the writer of the log,   *)
(* the host that truncates it (src/native_host.rs) and somebody who        *)
(* replaces it.                                                            *)
(*                                                                         *)
(* A log is a sequence of records, each represented by the number of       *)
(* truncations and replacements before it was written (its epoch), so that *)
(* records of different contents of the log can be told apart.  A window   *)
(* is answered under a generation; what the model asks is whether all that *)
(* is ever answered under one generation comes from one epoch.             *)
(*                                                                         *)
(* Nothing is locked between the threads: the steps of a reader are its    *)
(* system calls.                                                           *)
(***************************************************************************)
EXTENDS Naturals, SequencesExt

CONSTANTS
  Appends,     \* is the log open for appending, or written at its own offset?
  MaxLen,      \* bound: records of a log
  MaxWrites,   \* bound: records written
  MaxResets,   \* bound: truncations and replacements
  MaxWindows   \* bound: windows asked for

ASSUME FlagAssumption  == Appends \in BOOLEAN
ASSUME BoundAssumption == {MaxLen, MaxWrites, MaxResets, MaxWindows} \subseteq Nat

VARIABLES
  \* the file system
  files,    \* the contents of each file that was ever at the log's path
  path,     \* which of them is there now
  mtime,    \* when each was last modified, in modifications
  token,    \* the .fws-reset marker: how many were written
  epoch,    \* truncations and replacements so far
  clock,    \* modifications so far
  \* the writer
  wfile,    \* the file it has open
  woff,     \* its offset
  writes,   \* records written
  \* the host's truncate_all_logs
  tpc,      \* idle, truncated, marked, or unmarked when marking failed
  \* LineIndex
  index,    \* file (0: none), size, mtime, token, generation, epochs scanned
  \* the request that holds the index
  rpc,      \* where it stands
  stat,     \* what it took from its last stat
  out,      \* epochs of the records it has read
  windows,  \* requests so far
  \* history
  shown,    \* pairs of a generation and an epoch that answers have shown
  raced     \* epochs in which the writer wrote before the log was marked

fileVars   == <<files, path, mtime, token, epoch, clock>>
writerVars == <<wfile, woff, writes, raced>>
readerVars == <<index, rpc, stat, out, windows, shown>>
vars == <<fileVars, writerVars, tpc, readerVars>>

-----------------------------------------------------------------------------
File == 1..(MaxResets + 1)

Init ==
  /\ files = [f \in File |-> <<>>]
  /\ path = 1
  /\ mtime = [f \in File |-> 0]
  /\ token = 0
  /\ epoch = 0
  /\ clock = 0
  /\ wfile = 1 /\ woff = 0 /\ writes = 0 /\ raced = {}
  /\ tpc = "idle"
  /\ index = [file |-> 0, size |-> 0, mtime |-> 0, token |-> 0, generation |-> 0,
              epochs |-> {}]
  /\ rpc = "idle"
  /\ stat = [file |-> 0, size |-> 0, mtime |-> 0]
  /\ out = {}
  /\ windows = 0
  /\ shown = {}

Modified(f) == clock' = clock + 1 /\ mtime' = [mtime EXCEPT ![f] = clock + 1]

-----------------------------------------------------------------------------
(* The world.                                                              *)

\* Truncated, but not marked, or not yet.
Resetting == tpc \in {"truncated", "unmarked"}

\* The writer adds a record: at the end of the file, or at its own offset,
\* which leaves a hole when the file was truncated behind its back.
Write ==
  LET data == files[wfile]
      at   == IF Appends THEN Len(data) ELSE woff
      hole == [i \in 1..(at - Len(data)) |-> epoch] IN
  /\ writes < MaxWrites /\ at < MaxLen
  /\ writes' = writes + 1
  /\ woff' = at + 1
  /\ raced' = IF Resetting THEN raced \cup {epoch} ELSE raced
  /\ files' = [files EXCEPT ![wfile] = data \o hole \o <<epoch>>]
  /\ Modified(wfile)
  /\ UNCHANGED <<path, token, epoch, wfile, tpc, readerVars>>

\* truncate_log_file: the file at the log's path is truncated ...
Truncate ==
  /\ tpc \in {"idle", "unmarked"} /\ epoch < MaxResets
  /\ tpc' = "truncated"
  /\ epoch' = epoch + 1
  /\ files' = [files EXCEPT ![path] = <<>>]
  /\ Modified(path)
  /\ UNCHANGED <<path, token, writerVars, readerVars>>

\* ... mark_log_reset writes a new marker and renames it into place ...
MarkReset ==
  /\ tpc = "truncated"
  /\ tpc' = "marked"
  /\ token' = token + 1
  /\ UNCHANGED <<files, path, mtime, epoch, clock, writerVars, readerVars>>

\* ... which may fail: the error ends truncate_all_logs.
MarkFails ==
  /\ tpc = "truncated"
  /\ tpc' = "unmarked"
  /\ UNCHANGED <<fileVars, writerVars, readerVars>>

\* invalidate_log_index, under the lock of the indexes.
Invalidate ==
  /\ tpc = "marked"
  /\ rpc = "idle"
  /\ tpc' = "idle"
  /\ index' = [index EXCEPT !.file = 0]
  /\ UNCHANGED <<fileVars, writerVars, rpc, stat, out, windows, shown>>

\* Another file is renamed over the log; the writer keeps the old one.
Replace(n) ==
  /\ epoch < MaxResets /\ n \in 0..MaxLen
  /\ epoch' = epoch + 1
  /\ path' = path + 1
  /\ files' = [files EXCEPT ![path + 1] = [i \in 1..n |-> epoch + 1]]
  /\ Modified(path + 1)
  /\ UNCHANGED <<token, writerVars, tpc, readerVars>>

-----------------------------------------------------------------------------
(* refresh_inner.                                                          *)

\* File::open and its metadata.
Open ==
  /\ rpc = "idle" /\ windows < MaxWindows
  /\ windows' = windows + 1
  /\ rpc' = "opened"
  /\ stat' = [file |-> path, size |-> Len(files[path]), mtime |-> mtime[path]]
  /\ out' = {}
  /\ UNCHANGED <<fileVars, writerVars, tpc, index, shown>>

\* Mistake: a reset known only by what stat says.
ResetByStat ==
  \/ index.file # stat.file
  \/ stat.size < index.size
  \/ stat.size = index.size /\ stat.mtime # index.mtime

\* What makes the index start over under a new generation.
Reset ==
  \/ index.token # token
  \/ index.file # stat.file
  \/ stat.size < index.size
  \/ stat.size = index.size /\ stat.mtime # index.mtime

\* reset_token, and the decision.
Compare ==
  /\ rpc = "opened"
  /\ rpc' = "scan"
  /\ index' = IF Reset
              THEN [file |-> stat.file, size |-> 0, mtime |-> index.mtime, token |-> token,
                    generation |-> index.generation + 1, epochs |-> {}]
              ELSE [index EXCEPT !.file = stat.file, !.token = token]
  /\ UNCHANGED <<fileVars, writerVars, tpc, stat, out, windows, shown>>

\* The request fails; a refresh that fails makes the index start over.
FailRefresh ==
  /\ rpc' = "idle"
  /\ index' = [index EXCEPT !.file = 0]
  /\ UNCHANGED <<fileVars, writerVars, tpc, stat, out, windows, shown>>

Fail ==
  /\ rpc' = "idle"
  /\ UNCHANGED <<fileVars, writerVars, tpc, index, stat, out, windows, shown>>

\* Mistake: the size of the scanned part is taken for that of the file.
ScanOn ==
  /\ rpc = "scan"
  /\ rpc' = "check stat"
  /\ index' = [index EXCEPT !.size = @ + stat.size, !.mtime = stat.mtime]
  /\ UNCHANGED <<fileVars, writerVars, tpc, stat, out, windows, shown>>

\* The file that was opened is scanned from where the index ends to the size
\* it had; it may be shorter by now.
Scan ==
  /\ rpc = "scan"
  /\ LET data == files[stat.file] IN
     IF index.size < stat.size /\ Len(data) < stat.size
     THEN FailRefresh
     ELSE /\ rpc' = "check stat"
          /\ index' = [index EXCEPT !.size = stat.size, !.mtime = stat.mtime,
               !.epochs = @ \cup ToSet(SubSeq(data, index.size + 1, stat.size))]
          /\ UNCHANGED <<fileVars, writerVars, tpc, stat, out, windows, shown>>

-----------------------------------------------------------------------------
(* validate_snapshot after the refresh, and again after every read.        *)

\* The conditions on a stat of the log's path.
Agrees(s) ==
  /\ s.file = index.file
  /\ s.size >= index.size
  /\ s.size = index.size => s.mtime = index.mtime

StatNow == [file |-> path, size |-> Len(files[path]), mtime |-> mtime[path]]

Goto(l) ==
  /\ rpc' = l
  /\ UNCHANGED <<fileVars, writerVars, tpc, index, out, windows, shown>>

CheckStat ==
  /\ rpc = "check stat"
  /\ stat' = StatNow
  /\ Goto("check token")

\* The token is compared first, then what was found by stat.
CheckToken ==
  /\ rpc = "check token"
  /\ IF index.token = token /\ Agrees(stat)
     THEN UNCHANGED stat /\ Goto("window")
     ELSE FailRefresh

-----------------------------------------------------------------------------
(* window or raw: read, one record after the other.                        *)

ReadToken ==
  /\ rpc = "window" /\ index.size > 0
  /\ IF index.token = token THEN UNCHANGED stat /\ Goto("read open") ELSE Fail

ReadOpen ==
  /\ rpc = "read open"
  /\ IF Agrees(StatNow) THEN stat' = StatNow /\ Goto("read data") ELSE Fail

\* read_exact of record i from the file that was opened.
ReadData(i) ==
  /\ rpc = "read data"
  /\ i \in 1..index.size
  /\ IF i > Len(files[stat.file]) THEN Fail
     ELSE /\ rpc' = "read stat"
          /\ out' = out \cup {files[stat.file][i]}
          /\ UNCHANGED <<fileVars, writerVars, tpc, index, stat, windows, shown>>

ReadStat ==
  /\ rpc = "read stat"
  /\ stat' = StatNow
  /\ Goto("read token")

ReadValidated ==
  /\ rpc = "read token"
  /\ IF index.token = token /\ Agrees(stat)
     THEN UNCHANGED stat /\ Goto("window")
     ELSE Fail

\* The window is complete: it is validated once more and answered.
EndStat ==
  /\ rpc = "window"
  /\ stat' = StatNow
  /\ Goto("end token")

Answer ==
  /\ rpc = "end token"
  /\ IF index.token = token /\ Agrees(stat)
     THEN /\ rpc' = "idle"
          /\ shown' = shown \cup {<<index.generation, e>> : e \in out \cup index.epochs}
          /\ UNCHANGED <<fileVars, writerVars, tpc, index, stat, out, windows>>
     ELSE Fail

Request ==
  \/ Open \/ Compare \/ Scan \/ CheckStat \/ CheckToken
  \/ ReadToken \/ ReadOpen \/ (\E i \in 1..MaxLen : ReadData(i))
  \/ ReadStat \/ ReadValidated \/ EndStat \/ Answer

-----------------------------------------------------------------------------
Next ==
  \/ Write
  \/ Truncate \/ MarkReset \/ MarkFails \/ Invalidate
  \/ \E n \in 0..MaxLen : Replace(n)
  \/ Request

Spec == Init /\ [][Next]_vars

-----------------------------------------------------------------------------
(* Correctness.                                                            *)

TypeOK ==
  /\ files \in [File -> BoundedSeq(0..MaxResets, MaxLen)]
  /\ path \in File /\ wfile \in File
  /\ mtime \in [File -> 0..clock]
  /\ token \in 0..MaxResets /\ epoch \in 0..MaxResets
  /\ woff \in 0..MaxLen /\ writes \in 0..MaxWrites
  /\ tpc \in {"idle", "truncated", "marked", "unmarked"}
  /\ index.file \in File \cup {0} /\ index.size \in 0..MaxLen
  /\ index.epochs \cup out \subseteq 0..MaxResets
  /\ rpc \in {"idle", "opened", "scan", "check stat", "check token", "window",
              "read open", "read data", "read stat", "read token", "end token"}
  /\ windows \in 0..MaxWindows
  /\ raced \subseteq 0..MaxResets

\* "Replacement/reset is rejected rather than returned under an old
\* generation" (docs/LOG_PROJECTION_PLAN.md:490): of what is answered under one
\* generation, the offsets that delimit its records included, a second content
\* of the log can only be one that the writer began between
\* truncate_log_file's truncation and its mark, or that was never marked.
OneGenerationOneContent ==
  \A x, y \in shown : x[1] = y[1] /\ x[2] < y[2] => y[2] \in raced
=============================================================================
