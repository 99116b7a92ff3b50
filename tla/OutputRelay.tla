---------------------------- MODULE OutputRelay ----------------------------
(***************************************************************************)
(* The relays of one output stream of one shell, as src/native_peer.rs     *)
(* runs them (src/native_host.rs has the same machinery): a map holds the  *)
(* stopper of the relay that serves the stream, an ensurer brings the map  *)
(* in line with what is wanted, and each relay is a thread that moves      *)
(* chunks from its subscription to the socket until it finds its stream    *)
(* gone from the map, is stopped, or loses its subscription, and then      *)
(* removes the stream from the map.                                        *)
(*                                                                         *)
(* The map is a cell here, because the key of the stream is all that an    *)
(* entry is found by: two relays of one stream cannot be told apart in it. *)
(*                                                                         *)
(* This module holds the state and the steps; a driver module says who     *)
(* wants the stream, when ensurers run and what shutting down is.          *)
(***************************************************************************)
EXTENDS Naturals

CONSTANTS
  Relay,       \* relay threads; one that ended may serve as a new one
  Ensurer,     \* threads that run ensure_*_output_streams
  None,        \* no relay
  Capacity,    \* bound of a subscription's channel, in chunks
  MaxChunks    \* bound: chunks the shell prints

ASSUME RelayNoneAssumption == None \notin Relay
ASSUME CapacityAssumption  == Capacity \in Nat \ {0} /\ MaxChunks \in Nat

VARIABLES
  closing,  \* the relay_shutdown or closed flag
  active,   \* the relay whose stopper the map holds
  rpc,      \* where each relay thread stands
  stop,     \* its stop channel, of capacity one, holds a message
  linked,   \* the sender of its subscription is in OutputSubscriptions
  queue,    \* chunks in its channel
  epc,      \* where each ensurer stands
  mine,     \* the subscription an ensurer has made
  printed   \* chunks the shell has printed

relayVars == <<active, rpc, stop, linked, queue>>
baseVars  == <<closing, relayVars, epc, mine, printed>>

-----------------------------------------------------------------------------
BaseInit ==
  /\ closing = FALSE
  /\ active = None
  /\ rpc = [r \in Relay |-> "free"]
  /\ stop = [r \in Relay |-> FALSE]
  /\ linked = [r \in Relay |-> FALSE]
  /\ queue = [r \in Relay |-> 0]
  /\ mine = [e \in Ensurer |-> None]
  /\ printed = 0

\* stopper.stop(): try_send, which leaves a full channel alone.
Stopped(r) == IF r = None THEN stop ELSE [stop EXCEPT ![r] = TRUE]

Step(e, from, to) == epc[e] = from /\ epc' = [epc EXCEPT ![e] = to]

-----------------------------------------------------------------------------
(* ensure_peer_output_streams.  `done' is where the ensurer goes next.     *)

\* The desired streams are computed, and those that are not desired any more
\* are removed under the map's lock and stopped.  With nothing desired the
\* call ends there.
EnsureRead(e, desired) ==
  /\ Step(e, "read", IF desired THEN "check" ELSE "prune")
  /\ UNCHANGED <<closing, relayVars, mine, printed>>

\* Mistake: dropping a stopper without using it.
PruneUnstopped(e, done) ==
  /\ Step(e, "prune", done)
  /\ active' = None
  /\ UNCHANGED <<closing, rpc, stop, linked, queue, mine, printed>>

EnsurePrune(e, done) ==
  /\ Step(e, "prune", done)
  /\ active' = None
  /\ stop' = Stopped(active)
  /\ UNCHANGED <<closing, rpc, linked, queue, mine, printed>>

\* already_active, under the map's lock.
EnsureCheck(e, done) ==
  /\ Step(e, "check", IF active = None THEN "subscribe" ELSE done)
  /\ UNCHANGED <<closing, relayVars, mine, printed>>

\* subscribe_output: a new channel, whose sender joins OutputSubscriptions.
EnsureSubscribe(e, r) ==
  /\ Step(e, "subscribe", "insert")
  /\ rpc[r] = "free"
  /\ rpc' = [rpc EXCEPT ![r] = "made"]
  /\ stop' = [stop EXCEPT ![r] = FALSE]
  /\ linked' = [linked EXCEPT ![r] = TRUE]
  /\ queue' = [queue EXCEPT ![r] = 0]
  /\ mine' = [mine EXCEPT ![e] = r]
  /\ UNCHANGED <<closing, active, printed>>

\* The stopper is inserted, replacing one that may be there, and the relay's
\* thread is spawned.
EnsureInsert(e, done) ==
  /\ Step(e, "insert", done)
  /\ active' = mine[e]
  /\ rpc' = [rpc EXCEPT ![mine[e]] = "check"]
  /\ mine' = [mine EXCEPT ![e] = None]
  /\ UNCHANGED <<closing, stop, linked, queue, printed>>

-----------------------------------------------------------------------------
(* spawn_output_stream_relay.                                              *)

RelayCheck(r) ==
  /\ rpc[r] = "check"
  /\ rpc' = [rpc EXCEPT ![r] = IF closing \/ active = None THEN "clean" ELSE "recv"]
  /\ UNCHANGED <<closing, active, stop, linked, queue, epc, mine, printed>>

\* recv(): select! takes any of the channels that are ready, and a chunk that
\* was taken is emitted.
RelayChunk(r) ==
  /\ rpc[r] = "recv"
  /\ queue[r] > 0
  /\ queue' = [queue EXCEPT ![r] = @ - 1]
  /\ rpc' = [rpc EXCEPT ![r] = "check"]
  /\ UNCHANGED <<closing, active, stop, linked, epc, mine, printed>>

\* The channel is empty and its sender gone, or a stop message was there.
RelayEnds(r) ==
  /\ rpc[r] = "recv"
  /\ \/ queue[r] = 0 /\ ~linked[r] /\ UNCHANGED stop
     \/ stop[r] /\ stop' = [stop EXCEPT ![r] = FALSE]
  /\ rpc' = [rpc EXCEPT ![r] = "clean"]
  /\ UNCHANGED <<closing, active, linked, queue, epc, mine, printed>>

\* Mistake: removing the stream from the map without stopping what is there.
CleanUnstopped(r) ==
  /\ rpc[r] = "clean"
  /\ rpc' = [rpc EXCEPT ![r] = "free"]
  /\ active' = None
  /\ linked' = [linked EXCEPT ![r] = FALSE]
  /\ UNCHANGED <<closing, stop, queue, epc, mine, printed>>

\* Mistake: leaving the stream in the map when the relay ends.
CleanNothing(r) ==
  /\ rpc[r] = "clean"
  /\ rpc' = [rpc EXCEPT ![r] = "free"]
  /\ linked' = [linked EXCEPT ![r] = FALSE]
  /\ UNCHANGED <<closing, active, stop, queue, epc, mine, printed>>

\* Whatever the map holds for the stream is removed and stopped.  The receiver
\* is dropped with the thread, so the sender, which stays in
\* OutputSubscriptions until the next chunk, receives nothing more.
RelayClean(r) ==
  /\ rpc[r] = "clean"
  /\ rpc' = [rpc EXCEPT ![r] = "free"]
  /\ active' = None
  /\ stop' = Stopped(active)
  /\ linked' = [linked EXCEPT ![r] = FALSE]
  /\ UNCHANGED <<closing, queue, epc, mine, printed>>

RelayStep(r) == RelayCheck(r) \/ RelayChunk(r) \/ RelayEnds(r) \/ RelayClean(r)

-----------------------------------------------------------------------------
(* broadcast_output.                                                       *)

\* A chunk goes to every subscriber, and one whose channel is full loses its
\* subscription.
ShellPrints ==
  /\ printed < MaxChunks
  /\ printed' = printed + 1
  /\ linked' = [r \in Relay |-> linked[r] /\ queue[r] < Capacity]
  /\ queue' = [r \in Relay |-> IF linked'[r] THEN queue[r] + 1 ELSE queue[r]]
  /\ UNCHANGED <<closing, active, rpc, stop, epc, mine>>

-----------------------------------------------------------------------------
\* A relay that waits for chunks, or is about to, and nobody has stopped.
Serving(r) == rpc[r] \in {"check", "recv"} /\ ~stop[r]

BaseTypeOK ==
  /\ closing \in BOOLEAN
  /\ active \in Relay \cup {None}
  /\ rpc \in [Relay -> {"free", "made", "check", "recv", "clean"}]
  /\ stop \in [Relay -> BOOLEAN]
  /\ linked \in [Relay -> BOOLEAN]
  /\ queue \in [Relay -> 0..Capacity]
  /\ mine \in [Ensurer -> Relay \cup {None}]
  /\ printed \in 0..MaxChunks

\* The map never holds the stopper of a relay that has ended, which would keep
\* the stream from being served again, however many threads ensure streams.
\* (spawn_output_stream_relay, spawn_local_output_stream_relay)
ActiveIsAlive == active # None => rpc[active] # "free"

\* No relay is forgotten: one that serves is the one whose stopper the map
\* holds, so that whoever unsubscribes, disconnects or replaces it can reach
\* it, and no two relays serve one stream.  It rests on a single thread
\* inserting, and on every removal being followed by stop.
\* (ensure_peer_output_streams, spawn_output_stream_relay, start_output_relay)
NoOrphan == \A r \in Relay : Serving(r) => active = r
=============================================================================
