-------------------------- MODULE HostOutputRelay --------------------------
(***************************************************************************)
(* How a FerrousNativeHost (src/native_host.rs) drives OutputRelay for one *)
(* stream, of the shell Served: browsers say which shell's logs they look  *)
(* at, and every request or disconnect that changes it runs, in a handler  *)
(* of its own, the whole chain: the subscription map, the rooms, the       *)
(* relays, and the set that the peers are told.                            *)
(*                                                                         *)
(* Handlers run concurrently, those of one socket too: Socket.IO starts a  *)
(* task for each event.  An Ensurer of OutputRelay is one such task here.  *)
(***************************************************************************)
EXTENDS OutputRelay

CONSTANTS
  Browser,      \* sockets; one that reconnects is another
  Shell,        \* shells whose logs are looked at
  Served,       \* the one whose stream OutputRelay models
  MaxRequests   \* bound: handlers that run, one after or beside the other

ASSUME ServedAssumption   == Served \in Shell
ASSUME HostNoneAssumption == None \notin Shell \cup Browser
ASSUME RequestsAssumption == MaxRequests \in Nat

VARIABLES
  viewing,      \* browser_log_subscriptions: the shell of each browser
  rooms,        \* the shell rooms each socket is in
  here,         \* sockets that are connected
  inRoom,       \* a peer is in the room of the peers
  told,         \* the last set of shells it was sent
  owned,        \* the manager has an entry for Served
  job,          \* the locals of each handler
  requests,     \* handlers started
  overlapped    \* history: two handlers have run at the same time

hostVars == <<viewing, rooms, here, inRoom, told, owned, job, requests, overlapped>>
vars == <<baseVars, hostVars>>

\* What a handler keeps: the browser, the shell it asks for, the one it had
\* before, the set to send, and whether no other handler has run meanwhile.
Job == [kind : {"view", "gone", "other"}, who : Browser \cup {None},
        shell : Shell \cup {None}, prev : Shell \cup {None},
        set : SUBSET Shell, alone : BOOLEAN]

NoJob == [kind |-> "other", who |-> None, shell |-> None, prev |-> None,
          set |-> {}, alone |-> TRUE]

\* active_log_shell_ids
Viewed == {viewing[b] : b \in Browser} \ {None}

\* desired_local_output_streams, of this stream
Desired == Served \in Viewed

Init ==
  /\ BaseInit
  /\ epc = [e \in Ensurer |-> "idle"]
  /\ viewing = [b \in Browser |-> None]
  /\ rooms = [b \in Browser |-> {}]
  /\ here = Browser
  /\ inRoom = FALSE /\ told = {}
  /\ owned \in BOOLEAN
  /\ job = [e \in Ensurer |-> NoJob]
  /\ requests = 0 /\ overlapped = FALSE

-----------------------------------------------------------------------------
(* Handlers begin and return.                                              *)

Busy == {e \in Ensurer : epc[e] # "idle"}

\* A handler starts at `pc', beside those that are running.
Begin(e, pc, kind, b, s) ==
  /\ requests < MaxRequests
  /\ requests' = requests + 1
  /\ Step(e, "idle", pc)
  /\ overlapped' = (overlapped \/ Busy # {})
  /\ job' = [d \in Ensurer |->
               IF d = e
               THEN [NoJob EXCEPT !.kind = kind, !.who = b, !.shell = s, !.alone = (Busy = {})]
               ELSE [job[d] EXCEPT !.alone = (d \notin Busy)]]
  /\ UNCHANGED <<relayVars, mine, printed, viewing, rooms, told, owned>>

\* fws.logs.open; with the initial text or without, the subscription follows.
\* What is asked for reaches the handler although its socket is closed by then.
LogsOpen(e) ==
  \E b \in here, s \in Shell :
    Begin(e, "set", "view", b, s) /\ UNCHANGED <<closing, here, inRoom>>

\* fws.logs.close names the shell that it thinks is looked at.
LogsClose(e) ==
  \E b \in here, s \in Shell :
    Begin(e, "test", "view", b, s) /\ UNCHANGED <<closing, here, inRoom>>

\* on_disconnect; the socket is gone before.
BrowserGone(e) ==
  \E b \in here :
    /\ Begin(e, "set", "gone", b, None)
    /\ here' = here \ {b}
    /\ UNCHANGED <<closing, inRoom>>

\* A peer that connects joins the room of the peers, and is then sent the set.
PeerConnects(e) ==
  /\ ~inRoom
  /\ Begin(e, "payload", "other", None, None)
  /\ inRoom' = TRUE
  /\ UNCHANGED <<closing, here>>

\* SocketIoRuntimeState::close raises the flag, and then drains the map.
CloseFlag(e) ==
  /\ ~closing
  /\ Begin(e, "drain", "other", None, None)
  /\ closing' = TRUE
  /\ UNCHANGED <<here, inRoom>>

-----------------------------------------------------------------------------
(* Handlers go on.                                                         *)

\* fws.logs.close looks the subscription up, and then drops whatever it is.
CloseTest(e) ==
  LET found == viewing[job[e].who] = job[e].shell IN
  /\ Step(e, "test", IF found THEN "set" ELSE "idle")
  /\ job' = [job EXCEPT ![e] = IF found THEN [@ EXCEPT !.shell = None] ELSE NoJob]
  /\ UNCHANGED <<closing, relayVars, mine, printed, viewing, rooms, here, inRoom,
                 told, owned, requests, overlapped>>

\* SocketIoRuntimeState::set_browser_log_shell and remove_browser: under the
\* lock, the previous shell comes out and the new one goes in.  A browser that
\* looked at nothing has nothing to undo when it disconnects.
SetShell(e) ==
  LET b == job[e].who
      nothing == job[e].kind = "gone" /\ viewing[b] = None IN
  /\ Step(e, "set", IF nothing THEN "idle" ELSE "leave")
  /\ viewing' = [viewing EXCEPT ![b] = job[e].shell]
  /\ job' = [job EXCEPT ![e] = IF nothing THEN NoJob ELSE [@ EXCEPT !.prev = viewing[b]]]
  /\ UNCHANGED <<closing, relayVars, mine, printed, rooms, here, inRoom, told,
                 owned, requests, overlapped>>

\* Mistake: staying in the room of the previous shell.
LeaveNothing(e) ==
  /\ Step(e, "leave", "join")
  /\ job' = [job EXCEPT ![e].prev = None]
  /\ UNCHANGED <<closing, relayVars, mine, printed, viewing, rooms, here, inRoom,
                 told, owned, requests, overlapped>>

LeaveRoom(e) ==
  /\ Step(e, "leave", "join")
  /\ rooms' = [rooms EXCEPT ![job[e].who] = @ \ {job[e].prev}]
  /\ job' = [job EXCEPT ![e].prev = None]
  /\ UNCHANGED <<closing, relayVars, mine, printed, viewing, here, inRoom, told,
                 owned, requests, overlapped>>

JoinRoom(e) ==
  /\ Step(e, "join", "read")
  /\ rooms' = [rooms EXCEPT ![job[e].who] = @ \cup ({job[e].shell} \ {None})]
  /\ UNCHANGED <<closing, relayVars, mine, printed, viewing, here, inRoom, told,
                 owned, job, requests, overlapped>>

\* ensure_local_output_streams.
Ensure(e) ==
  /\ \/ EnsureRead(e, Desired)
     \/ EnsurePrune(e, "payload")
     \/ EnsureCheck(e, "payload")
     \/ owned /\ \E r \in Relay : EnsureSubscribe(e, r)
     \/ EnsureInsert(e, "payload")
  /\ UNCHANGED hostVars

\* subscribe_output answers None for a shell of another manager, and the key
\* is removed: a stopper that another handler has put there is forgotten.
SubscribeRefused(e) ==
  /\ ~owned
  /\ Step(e, "subscribe", "payload")
  /\ active' = None
  /\ UNCHANGED <<closing, rpc, stop, linked, queue, mine, printed, hostVars>>

\* Mistake: telling the peers what this handler changed.
PayloadOwn(e) ==
  /\ Step(e, "payload", "emit")
  /\ job' = [job EXCEPT ![e].set = {job[e].shell} \ {None}]
  /\ UNCHANGED <<closing, relayVars, mine, printed, viewing, rooms, here, inRoom,
                 told, owned, requests, overlapped>>

\* broadcast_peer_subscriptions computes the set ...
Payload(e) ==
  /\ Step(e, "payload", "emit")
  /\ job' = [job EXCEPT ![e].set = Viewed]
  /\ UNCHANGED <<closing, relayVars, mine, printed, viewing, rooms, here, inRoom,
                 told, owned, requests, overlapped>>

\* ... and sends it to the peers that are in their room.
Emit(e) ==
  /\ Step(e, "emit", "idle")
  /\ told' = IF inRoom THEN job[e].set ELSE told
  /\ job' = [job EXCEPT ![e] = NoJob]
  /\ UNCHANGED <<closing, relayVars, mine, printed, viewing, rooms, here, inRoom,
                 owned, requests, overlapped>>

CloseDrain(e) ==
  /\ Step(e, "drain", "idle")
  /\ active' = None
  /\ stop' = Stopped(active)
  /\ job' = [job EXCEPT ![e] = NoJob]
  /\ UNCHANGED <<closing, rpc, linked, queue, mine, printed, viewing, rooms, here,
                 inRoom, told, owned, requests, overlapped>>

HandlerStep(e) ==
  \/ CloseTest(e) \/ SetShell(e) \/ LeaveRoom(e) \/ JoinRoom(e)
  \/ Ensure(e) \/ SubscribeRefused(e) \/ Payload(e) \/ Emit(e) \/ CloseDrain(e)

-----------------------------------------------------------------------------
(* The rest of the system.                                                 *)

\* on_disconnect of a peer has nothing to undo but its place in the room.
PeerLeaves ==
  /\ requests < MaxRequests
  /\ requests' = requests + 1
  /\ inRoom /\ inRoom' = FALSE /\ told' = {}
  /\ UNCHANGED <<baseVars, viewing, rooms, here, owned, job, overlapped>>

ShellSpawned ==
  /\ ~owned /\ owned' = TRUE
  /\ UNCHANGED <<baseVars, viewing, rooms, here, inRoom, told, job, requests, overlapped>>

RelayThread(r) == RelayStep(r) /\ UNCHANGED hostVars

Output == ShellPrints /\ UNCHANGED hostVars

Next ==
  \/ \E e \in Ensurer :
       \/ LogsOpen(e) \/ LogsClose(e) \/ BrowserGone(e) \/ PeerConnects(e)
       \/ CloseFlag(e) \/ HandlerStep(e)
  \/ \E r \in Relay : RelayThread(r)
  \/ PeerLeaves \/ ShellSpawned \/ Output

Spec == Init /\ [][Next]_vars

-----------------------------------------------------------------------------
(* Correctness.                                                            *)

HandlerPc == {"idle", "test", "set", "leave", "join", "read", "prune", "check",
              "subscribe", "insert", "payload", "emit", "drain"}

TypeOK ==
  /\ BaseTypeOK
  /\ epc \in [Ensurer -> HandlerPc]
  /\ viewing \in [Browser -> Shell \cup {None}]
  /\ rooms \in [Browser -> SUBSET Shell]
  /\ here \subseteq Browser
  /\ inRoom \in BOOLEAN /\ told \subseteq Shell /\ owned \in BOOLEAN
  /\ job \in [Ensurer -> Job]
  /\ requests \in 0..MaxRequests /\ overlapped \in BOOLEAN

\* However handlers have interleaved before, one that runs while no other does
\* brings the host back in line: the peers are about to be told the shells
\* that are looked at now, the map keeps no relay that nobody wants, and the
\* browser is in the room of the shell it asked for.
\* (set_browser_log_shell, ensure_local_output_streams,
\* broadcast_peer_subscriptions)
SettlesWhenAlone ==
  \A e \in Ensurer : epc[e] = "emit" /\ job[e].alone =>
    /\ job[e].set = Viewed
    /\ active # None => (Desired \/ job[e].who = None) /\ rpc[active] # "free"
    /\ job[e].shell # None => job[e].shell \in rooms[job[e].who]

\* As long as handlers have not overlapped, every relay that serves is the one
\* the map can reach, so that no chunk is relayed twice for long; and between
\* handlers every relay that nobody wants has its stop message, those of a
\* closed host too.
\* (ensure_local_output_streams, spawn_local_output_stream_relay, close)
NoOrphanInOrder ==
  ~overlapped =>
    /\ NoOrphan
    /\ Busy = {} /\ (closing \/ ~Desired) => \A r \in Relay : rpc[r] = "recv" => stop[r]

\* As long as handlers have not overlapped, between them a browser is in the
\* room of the shell it looks at and in no other, a browser that is gone looks
\* at nothing, and a peer knows what is looked at.
\* (set_browser_log_shell, on_disconnect, broadcast_peer_subscriptions)
ViewsInOrder ==
  ~overlapped /\ Busy = {} =>
    /\ \A b \in Browser : rooms[b] = {viewing[b]} \ {None}
    /\ \A b \in Browser \ here : viewing[b] = None
    /\ inRoom => told = Viewed
=============================================================================
