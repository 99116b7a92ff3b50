----------------------------- MODULE ShellInput -----------------------------
(***************************************************************************)
(* Input for one shell that is sent to a host (src/native_host.rs:         *)
(* write_shell_input_control): the host's own manager is tried first, and  *)
(* when it has no live input for the shell, every connected peer is asked  *)
(* (src/native_peer.rs: handle_peer_request) and acknowledges or lets the  *)
(* time run out.  At most one manager owns the shell.                      *)
(*                                                                         *)
(* Requests are handled concurrently by the host, on the worker threads of *)
(* its runtime, and one at a time by the socket callback of each peer.     *)
(* Both write into the child's stdin under the lock of the input, which    *)
(* they may hold for as long as the child does not read; a handler of the  *)
(* host keeps its worker while it waits.  EOF takes the input out of the   *)
(* entry under the state lock, whoever is writing.                         *)
(***************************************************************************)
EXTENDS Naturals, Sequences, FiniteSets

CONSTANTS
  Request,   \* inputs sent to the host, data or EOF
  Peer,      \* managers connected to it as peers
  Host,      \* its own manager
  None,      \* nobody, no request
  Room,      \* inputs that fit into the child's stdin
  Workers    \* how many worker threads the host's runtime may have

ASSUME NameAssumption == Host \notin Peer /\ None \notin Request \cup Peer \cup {Host}
ASSUME ThreadAssumption == Request \cap Peer = {}
ASSUME RoomAssumption == Room \in Nat \ {0}
ASSUME WorkersAssumption == Workers \subseteq Nat \ {0} /\ IsFiniteSet(Request)

VARIABLES
  \* the shell
  owner,    \* the manager that has its entry
  status,   \* the status of that entry
  pty,      \* its stdin is a PTY, not a pipe
  stdin,    \* its input has not been taken by an EOF
  child,    \* live or dead
  unread,   \* inputs in the pipe
  lock,     \* the thread that holds the lock of the input
  \* threads: the handler of each request, the callback of each peer
  pc,
  \* the host
  workers,  \* worker threads of its runtime
  kind,     \* data or eof
  joined,   \* peers in the room
  acks,     \* what each peer has acknowledged of each request
  errors,   \* fallback_errors is not empty
  answer,   \* what the caller was answered
  \* the peers
  inbox,    \* requests that have reached a peer's socket
  cur,      \* the one its callback is handling
  \* history
  effects,  \* how often each request was written, or took the input
  late      \* requests that began after an EOF had been accepted

shellVars == <<owner, status, pty, stdin, child, unread, lock>>
fixedVars == <<workers, kind>>
hostVars  == <<fixedVars, joined, acks, errors, answer>>
peerVars  == <<inbox, cur>>
histVars  == <<effects, late>>
vars == <<shellVars, pc, hostVars, peerVars, histVars>>

-----------------------------------------------------------------------------
Thread  == Request \cup Peer

\* Where a thread is in its manager's part, and how it ends.
Trying  == {"local", "lock", "write"}
Outcome == {"accepted", "unavailable", "failed"}

ManagerOf(t) == IF t \in Peer THEN t ELSE Host
Serves(t)    == IF t \in Peer THEN cur[t] ELSE t

Goto(t, l) == pc' = [pc EXCEPT ![t] = l]

Init ==
  /\ owner \in Peer \cup {Host, None}
  /\ status = "Running" /\ pty \in BOOLEAN /\ stdin = TRUE /\ child = "live"
  /\ unread = 0 /\ lock = None
  /\ pc = [t \in Thread |-> "idle"]
  /\ workers \in Workers /\ kind \in [Request -> {"data", "eof"}]
  /\ joined \in SUBSET Peer
  /\ acks = [q \in Request |-> [p \in Peer |-> "none"]]
  /\ errors = [q \in Request |-> FALSE]
  /\ answer = [q \in Request |-> "none"]
  /\ inbox = [p \in Peer |-> <<>>]
  /\ cur = [p \in Peer |-> None]
  /\ effects = [q \in Request |-> 0]
  /\ late = {}

-----------------------------------------------------------------------------
(* The child and the reactor of its owner.                                 *)

ChildReads ==
  /\ child = "live" /\ unread > 0
  /\ unread' = unread - 1
  /\ UNCHANGED <<owner, status, pty, stdin, child, lock, pc, hostVars, peerVars, histVars>>

ChildDies ==
  /\ child = "live"
  /\ child' = "dead"
  /\ UNCHANGED <<owner, status, pty, stdin, unread, lock, pc, hostVars, peerVars, histVars>>

ExitRecorded ==
  /\ child = "dead" /\ status = "Running"
  /\ status' = "Exited"
  /\ UNCHANGED <<owner, pty, stdin, child, unread, lock, pc, hostVars, peerVars, histVars>>

-----------------------------------------------------------------------------
(* A manager's part, in a thread of the host or of a peer: write_blocking  *)
(* and send_stdin_eof_blocking.  A thread that is through stands at the    *)
(* outcome: accepted, unavailable or failed, as the host reads the error.       *)

HasInput(t) == owner = ManagerOf(t) /\ stdin

\* No entry: Ok(false); no input: an error that says so.
InputUnavailable(t) ==
  /\ pc[t] = "local" /\ ~HasInput(t)
  /\ Goto(t, "unavailable")
  /\ UNCHANGED <<shellVars, hostVars, peerVars, histVars>>

\* Under the state lock, the input is cloned.
WriteBegins(t) ==
  /\ pc[t] = "local" /\ HasInput(t) /\ kind[Serves(t)] = "data"
  /\ Goto(t, "lock")
  /\ UNCHANGED <<shellVars, hostVars, peerVars, histVars>>

WriteLocks(t) ==
  /\ pc[t] = "lock" /\ lock = None
  /\ lock' = t
  /\ Goto(t, "write")
  /\ UNCHANGED <<owner, status, pty, stdin, child, unread, hostVars, peerVars, histVars>>

\* write_all and flush on a pipe wait for a child that lives to make room, and
\* fail when it is dead.  A PTY is written without waiting, because
\* set_nonblocking on its output also holds for the duplicate that is its
\* input: write_all stops where there is no room, with an error
\* ("Resource temporarily unavailable") that is taken for input that is not
\* available.
Write(t) ==
  /\ pc[t] = "write"
  /\ \/ /\ child = "dead"
        /\ Goto(t, "failed")
        /\ UNCHANGED <<unread, effects>>
     \/ /\ child = "live" /\ unread < Room
        /\ \/ Goto(t, "accepted") /\ unread' = unread + 1
           \/ pty /\ Goto(t, "unavailable") /\ unread' = Room
        /\ effects' = [effects EXCEPT ![Serves(t)] = @ + 1]
     \/ /\ pty /\ child = "live" /\ unread = Room
        /\ Goto(t, "unavailable")
        /\ UNCHANGED <<unread, effects>>
  /\ lock' = None
  /\ UNCHANGED <<owner, status, pty, stdin, child, hostVars, peerVars, late>>

\* Mistake: closing the input where it is instead of taking it.
EofInPlace(t) ==
  /\ pc[t] = "local" /\ HasInput(t) /\ kind[Serves(t)] = "eof"
  /\ effects' = [effects EXCEPT ![Serves(t)] = @ + 1]
  /\ Goto(t, "accepted") \/ Goto(t, "failed")
  /\ UNCHANGED <<shellVars, hostVars, peerVars, late>>

\* Under the state lock.  When the record cannot be written the caller is told
\* that it failed, but the input is gone.
Eof(t) ==
  /\ pc[t] = "local" /\ HasInput(t) /\ kind[Serves(t)] = "eof"
  /\ stdin' = FALSE
  /\ effects' = [effects EXCEPT ![Serves(t)] = @ + 1]
  /\ Goto(t, "accepted") \/ Goto(t, "failed")
  /\ UNCHANGED <<owner, status, pty, child, unread, lock, hostVars, peerVars, late>>

Input(t) ==
  InputUnavailable(t) \/ WriteBegins(t) \/ WriteLocks(t) \/ Write(t) \/ Eof(t)

-----------------------------------------------------------------------------
(* write_shell_input_control and call_peer_shell_input.                    *)

EofAccepted == \E q \in Request : kind[q] = "eof" /\ answer[q] = "accepted"

\* The handlers that have a worker: they give it back where they await, or
\* are through.
OnWorker == {q \in Request : pc[q] \in Trying \cup Outcome}

WorkerFree == Cardinality(OnWorker) < workers

\* The request is on its way to the host.
Call(q) ==
  /\ pc[q] = "idle"
  /\ Goto(q, "called")
  /\ late' = IF EofAccepted THEN late \cup {q} ELSE late
  /\ UNCHANGED <<shellVars, hostVars, peerVars, effects>>

Begin(q) ==
  /\ pc[q] = "called" /\ WorkerFree
  /\ Goto(q, "local")
  /\ UNCHANGED <<shellVars, hostVars, peerVars, histVars>>

Answer(q, a) ==
  /\ answer' = [answer EXCEPT ![q] = a]
  /\ Goto(q, "done")
  /\ UNCHANGED <<shellVars, fixedVars, joined, errors, peerVars, histVars>>

AnswerLocally(q) ==
  /\ \/ pc[q] = "accepted" /\ Answer(q, "accepted")
     \/ pc[q] = "failed" /\ Answer(q, "conflict")
  /\ UNCHANGED acks

NoPeers(q) ==
  /\ pc[q] = "unavailable" /\ joined = {}
  /\ Answer(q, "not found")
  /\ UNCHANGED acks

\* emit_with_ack to the peers that are in the room.
Emit(q) ==
  /\ pc[q] = "unavailable" /\ joined # {}
  /\ Goto(q, "await")
  /\ acks' = [acks EXCEPT ![q] = [p \in Peer |-> IF p \in joined THEN "sent" ELSE "none"]]
  /\ inbox' = [p \in Peer |-> IF p \in joined THEN Append(inbox[p], q) ELSE inbox[p]]
  /\ UNCHANGED <<shellVars, fixedVars, joined, errors, answer, cur, histVars>>

\* Mistake: waiting for peers that may never acknowledge.
TimeoutGone(q, p) ==
  /\ pc[q] = "await" /\ WorkerFree
  /\ acks[q][p] \in {"sent", "accepted", "fallback"} /\ p \notin joined
  /\ acks' = [acks EXCEPT ![q][p] = "failed"]
  /\ UNCHANGED <<shellVars, pc, fixedVars, joined, errors, answer, peerVars, histVars>>

\* Three seconds without an acknowledgement that the host has read, for
\* whatever reason.  The timer needs a worker, too.
Timeout(q, p) ==
  /\ pc[q] = "await" /\ WorkerFree /\ acks[q][p] \in {"sent", "accepted", "fallback"}
  /\ acks' = [acks EXCEPT ![q][p] = "failed"]
  /\ UNCHANGED <<shellVars, pc, fixedVars, joined, errors, answer, peerVars, histVars>>

\* Mistake: asking a peer again that did not acknowledge.
TakeAckOrRetry(q, p) ==
  /\ pc[q] = "await" /\ WorkerFree /\ acks[q][p] \in {"accepted", "fallback", "failed"}
  /\ CASE acks[q][p] = "accepted" ->
            Answer(q, "accepted") /\ UNCHANGED acks
       [] acks[q][p] = "fallback" ->
            /\ acks' = [acks EXCEPT ![q][p] = "taken"]
            /\ UNCHANGED <<shellVars, pc, fixedVars, joined, errors, answer, peerVars, histVars>>
       [] acks[q][p] = "failed" /\ ~errors[q] ->
            /\ acks' = [acks EXCEPT ![q][p] = "sent"]
            /\ errors' = [errors EXCEPT ![q] = TRUE]
            /\ inbox' = [inbox EXCEPT ![p] = Append(@, q)]
            /\ UNCHANGED <<shellVars, pc, fixedVars, joined, answer, cur, histVars>>
       [] OTHER ->
            /\ acks' = [acks EXCEPT ![q][p] = "taken"]
            /\ UNCHANGED <<shellVars, pc, fixedVars, joined, errors, answer, peerVars, histVars>>

\* The stream yields acknowledgements as they come: the first that accepts
\* ends the call, one that fails is remembered, one that does not own the
\* shell is ignored.
TakeAck(q, p) ==
  /\ pc[q] = "await" /\ WorkerFree /\ acks[q][p] \in {"accepted", "fallback", "failed"}
  /\ IF acks[q][p] = "accepted"
     THEN Answer(q, "accepted") /\ UNCHANGED acks
     ELSE /\ acks' = [acks EXCEPT ![q][p] = "taken"]
          /\ errors' = [errors EXCEPT ![q] = @ \/ acks[q][p] = "failed"]
          /\ UNCHANGED <<shellVars, pc, fixedVars, joined, answer, peerVars, histVars>>

\* Mistake: taking a peer that failed for one that does not own the shell.
GiveUpNotFound(q) ==
  /\ pc[q] = "await" /\ WorkerFree
  /\ \A p \in Peer : acks[q][p] \in {"none", "taken"}
  /\ Answer(q, "not found")
  /\ UNCHANGED acks

GiveUp(q) ==
  /\ pc[q] = "await" /\ WorkerFree
  /\ \A p \in Peer : acks[q][p] \in {"none", "taken"}
  /\ Answer(q, IF errors[q] THEN "conflict" ELSE "not found")
  /\ UNCHANGED acks

Handle(q) ==
  \/ Begin(q) \/ Input(q) \/ AnswerLocally(q) \/ NoPeers(q) \/ Emit(q)
  \/ \E p \in Peer : Timeout(q, p) \/ TakeAck(q, p)
  \/ GiveUp(q)

-----------------------------------------------------------------------------
(* Peers: acknowledge_peer_request.  One that connects again is another    *)
(* peer, and one that connects later is not asked by what was sent before. *)

\* What has not been read from its socket is lost or not.
PeerLeaves(p) ==
  /\ p \in joined
  /\ joined' = joined \ {p}
  /\ inbox' \in {inbox, [inbox EXCEPT ![p] = <<>>]}
  /\ UNCHANGED <<shellVars, pc, fixedVars, acks, errors, answer, cur, histVars>>

\* live_shell_backend: no entry is an error that lets the host go on, an
\* entry that is not Running one that does not.
PeerBegins(p) ==
  /\ pc[p] = "idle" /\ inbox[p] # <<>>
  /\ cur' = [cur EXCEPT ![p] = Head(inbox[p])]
  /\ inbox' = [inbox EXCEPT ![p] = Tail(@)]
  /\ Goto(p, IF owner # p THEN "unavailable"
             ELSE IF status = "Running" THEN "local" ELSE "failed")
  /\ UNCHANGED <<shellVars, hostVars, histVars>>

\* error_code_for_peer_failure and parse_peer_response_value.  When the record
\* of a shell that is not the peer's cannot be read, that is an error too.
Response(outcome) ==
  CASE outcome = "accepted"    -> {"accepted"}
    [] outcome = "unavailable" -> {"fallback", "failed"}
    [] outcome = "failed"      -> {"failed"}

\* An acknowledgement that comes too late, or over a connection that is gone,
\* changes nothing.
PeerAcknowledges(p) ==
  LET q == cur[p] IN
  /\ pc[p] \in {"accepted", "unavailable", "failed"}
  /\ \E response \in Response(pc[p]) :
       acks' = IF p \in joined /\ acks[q][p] = "sent" /\ pc[q] = "await"
               THEN [acks EXCEPT ![q][p] = response] ELSE acks
  /\ cur' = [cur EXCEPT ![p] = None]
  /\ Goto(p, "idle")
  /\ UNCHANGED <<shellVars, fixedVars, joined, errors, answer, inbox, histVars>>

Callback(p) == PeerBegins(p) \/ Input(p) \/ PeerAcknowledges(p)

-----------------------------------------------------------------------------
Next ==
  \/ ChildReads \/ ChildDies \/ ExitRecorded
  \/ \E q \in Request : Call(q) \/ Handle(q)
  \/ \E p \in Peer : PeerLeaves(p) \/ Callback(p)

Spec == Init /\ [][Next]_vars

\* A handler that has a worker runs on, a worker that is free takes up what is
\* ready, and the timers run while one is.  Neither the child nor a peer is
\* sure to do anything.
Fairness == \A q \in Request : WF_vars(Handle(q))

FairSpec == Spec /\ Fairness

-----------------------------------------------------------------------------
(* Correctness.                                                            *)

TypeOK ==
  /\ owner \in Peer \cup {Host, None}
  /\ status \in {"Running", "Exited"} /\ pty \in BOOLEAN /\ stdin \in BOOLEAN
  /\ child \in {"live", "dead"} /\ unread \in 0..Room
  /\ lock \in Thread \cup {None}
  /\ pc \in [Thread -> Trying \cup Outcome \cup {"idle", "called", "await", "done"}]
  /\ workers \in Workers /\ kind \in [Request -> {"data", "eof"}]
  /\ joined \subseteq Peer
  /\ acks \in [Request -> [Peer -> {"none", "sent", "accepted", "fallback", "failed",
                                    "taken"}]]
  /\ errors \in [Request -> BOOLEAN]
  /\ answer \in [Request -> {"none", "accepted", "conflict", "not found"}]
  /\ inbox \in [Peer -> Seq(Request)]
  /\ cur \in [Peer -> Request \cup {None}]
  /\ effects \in [Request -> Nat]
  /\ late \subseteq Request

\* Input is never doubled: although a request goes to the host's manager and
\* then to every peer, and may be acknowledged late or not at all, it is
\* written at most once.  (write_shell_input_control, call_peer_shell_input)
AtMostOnce == \A q \in Request : effects[q] <= 1

\* A caller who is told that its input was accepted can rely on it, whichever
\* manager wrote it.  One who is told that nobody has live input for the shell
\* (404) may send the input elsewhere: it was not written and will not be,
\* unlike after a conflict (409), which a peer that was merely slow may belie.
\* The second is so when the shell's stdin is a pipe; see FanOutWithoutInput
\* for a PTY.  (parse_peer_response_value, local_input_error_can_fallback)
AnswersHold ==
  \A q \in Request :
    /\ answer[q] = "accepted" => effects[q] = 1
    /\ answer[q] = "not found" /\ ~pty => effects[q] = 0

\* What is sent after an EOF was accepted is refused, the EOF of a peer's shell
\* included, although others may still be writing into the pipe then.
\* (send_stdin_eof_blocking takes the input before it answers)
NothingAfterEof == \A q \in late : effects[q] = 0

\* Writes that the child keeps waiting: its stdin is full, and it is alive.
Blocked == {q \in Request : pc[q] \in {"lock", "write"} /\ child = "live" /\ unread = Room}

\* Every call is answered, however slow or stuck the peers are and whether
\* they are still there, and whatever the children of peers do.  Only a child
\* of the host that does not read can hold calls up: the data for it, and,
\* because write_blocking waits in the async handler, every call once as many
\* of its writes wait as there are workers; EOF, which does not wait for the
\* input's lock, and the calls of other managers wait for nothing else.
\* (write_shell_input_control, call_peer_shell_input)
CallsAnswered ==
  []<>(\A q \in Request : \/ pc[q] \in {"idle", "done"}
                          \/ q \in Blocked \/ Cardinality(Blocked) >= workers)

-----------------------------------------------------------------------------
(* A claim of the README that the code does not keep.                      *)

\* "routes shell input local-first before fanning out to peers when local live
\* input is unavailable" (README.md:211): peers are asked only when the host's
\* own manager has no live input for the shell.
FanOutWithoutInput == \A q \in Request : pc[q] = "await" => owner # Host \/ ~stdin
=============================================================================
