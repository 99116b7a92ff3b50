-------------------------- MODULE PeerOutputRelay --------------------------
(***************************************************************************)
(* How a FerrousNativePeer (src/native_peer.rs) drives OutputRelay for one *)
(* stream: the host's subscription messages say whether the stream is      *)
(* wanted and wake the one thread that ensures it; disconnecting raises a  *)
(* flag and wakes that thread too, which then stops what is left.          *)
(***************************************************************************)
EXTENDS OutputRelay

CONSTANT MaxWakes   \* bound: wakes on their way to the ensurer, and changes of mind

ASSUME WakesAssumption == MaxWakes \in Nat \ {0}

\* start_output_relay starts one thread, and nothing else ensures streams.
ASSUME EnsurerAssumption == \A d, e \in Ensurer : d = e

VARIABLES
  wanted,     \* the shell is among the peer's subscriptions
  changes,    \* subscription messages so far
  wakes,      \* messages in subscription_rx
  cpc,        \* the socket's callback: idle or about to send its wake
  dpc,        \* disconnect: idle, flagged or done
  owned       \* the peer's own manager has an entry for the shell

peerVars == <<wanted, changes, wakes, cpc, dpc, owned>>
vars == <<baseVars, peerVars>>

-----------------------------------------------------------------------------
\* connect leaves one wake behind, whatever the subscriptions are by then.
Init ==
  /\ BaseInit
  /\ epc = [e \in Ensurer |-> "top"]
  /\ wanted = FALSE /\ changes = 0 /\ wakes = 1
  /\ cpc = "idle" /\ dpc = "idle"
  /\ owned \in BOOLEAN

-----------------------------------------------------------------------------
(* The socket's callback.                                                  *)

\* update_subscriptions: the set is replaced under its lock ...
Subscriptions ==
  /\ cpc = "idle" /\ changes < MaxWakes
  /\ cpc' = "wake"
  /\ changes' = changes + 1
  /\ wanted' \in BOOLEAN
  /\ UNCHANGED <<baseVars, wakes, dpc, owned>>

\* ... and the ensurer is woken.
SubscriptionsWake ==
  /\ cpc = "wake"
  /\ cpc' = "idle"
  /\ wakes' = wakes + 1
  /\ UNCHANGED <<baseVars, wanted, changes, dpc, owned>>

-----------------------------------------------------------------------------
(* FerrousNativePeer::disconnect, and the first half of its Drop.          *)

Disconnect ==
  /\ dpc = "idle"
  /\ dpc' = "flagged"
  /\ closing' = TRUE
  /\ UNCHANGED <<relayVars, epc, mine, printed, wanted, changes, wakes, cpc, owned>>

\* Mistake: leaving the ensurer to notice the flag by itself.
DisconnectQuietly ==
  /\ dpc = "flagged"
  /\ dpc' = "done"
  /\ UNCHANGED <<baseVars, wanted, changes, wakes, cpc, owned>>

DisconnectWake ==
  /\ dpc = "flagged"
  /\ dpc' = "done"
  /\ wakes' = wakes + 1
  /\ UNCHANGED <<baseVars, wanted, changes, cpc, owned>>

\* The manager of the peer spawns the shell.
ShellSpawned ==
  /\ ~owned
  /\ owned' = TRUE
  /\ UNCHANGED <<baseVars, wanted, changes, wakes, cpc, dpc>>

-----------------------------------------------------------------------------
(* start_output_relay.                                                     *)

\* The top of the loop looks at the flag, then blocks in recv.
LoopTop(e) ==
  /\ Step(e, "top", IF closing THEN "drain" ELSE "wait")
  /\ UNCHANGED <<closing, relayVars, mine, printed, peerVars>>

LoopWake(e) ==
  /\ Step(e, "wait", IF closing THEN "drain" ELSE "read")
  /\ wakes > 0
  /\ wakes' = wakes - 1
  /\ UNCHANGED <<closing, relayVars, mine, printed, wanted, changes, cpc, dpc, owned>>

\* After the loop: every stopper that is left is removed and used.
LoopDrain(e) ==
  /\ Step(e, "drain", "done")
  /\ active' = None
  /\ stop' = Stopped(active)
  /\ UNCHANGED <<closing, rpc, linked, queue, mine, printed, peerVars>>

\* subscribe_output answers None for a shell of another manager.
SubscribeRefused(e) ==
  /\ ~owned
  /\ Step(e, "subscribe", "top")
  /\ UNCHANGED <<closing, relayVars, mine, printed, peerVars>>

Ensure(e) ==
  /\ \/ EnsureRead(e, wanted)
     \/ EnsurePrune(e, "top")
     \/ EnsureCheck(e, "top")
     \/ owned /\ \E r \in Relay : EnsureSubscribe(e, r)
     \/ EnsureInsert(e, "top")
  /\ UNCHANGED peerVars

EnsurerStep(e) ==
  LoopTop(e) \/ LoopWake(e) \/ LoopDrain(e) \/ SubscribeRefused(e) \/ Ensure(e)

RelayThread(r) == RelayStep(r) /\ UNCHANGED peerVars

Output == ShellPrints /\ UNCHANGED peerVars

Next ==
  \/ Subscriptions \/ SubscriptionsWake
  \/ Disconnect \/ DisconnectWake
  \/ ShellSpawned \/ Output
  \/ \E e \in Ensurer : EnsurerStep(e)
  \/ \E r \in Relay : RelayThread(r)

Spec == Init /\ [][Next]_vars

\* The threads of the peer run; the host, the shell and the owner of the peer
\* owe nothing, except that a callback and a disconnect that began go on.
Fairness ==
  /\ WF_vars(SubscriptionsWake) /\ WF_vars(DisconnectWake)
  /\ \A e \in Ensurer : WF_vars(EnsurerStep(e))
  /\ \A r \in Relay : WF_vars(RelayThread(r))

FairSpec == Spec /\ Fairness

-----------------------------------------------------------------------------
(* Correctness.                                                            *)

EnsurerPc == {"top", "wait", "read", "prune", "check", "subscribe", "insert",
              "drain", "done"}

TypeOK ==
  /\ BaseTypeOK
  /\ epc \in [Ensurer -> EnsurerPc]
  /\ wanted \in BOOLEAN /\ owned \in BOOLEAN
  /\ changes \in 0..MaxWakes
  /\ wakes \in 0..(MaxWakes + 2)
  /\ cpc \in {"idle", "wake"}
  /\ dpc \in {"idle", "flagged", "done"}

\* Disconnecting ends every relay, those too that wait for a chunk that never
\* comes and one that is being started at that moment; and a stream that nobody
\* wants any more is not relayed for ever.
\* (disconnect, update_subscriptions, start_output_relay)
RelaysEnd ==
  /\ closing ~> \A r \in Relay : rpc[r] = "free"
  /\ ~wanted ~> (wanted \/ \A r \in Relay : rpc[r] = "free")

-----------------------------------------------------------------------------
(* A claim of the README that the code does not keep.                      *)

\* "forwards lifecycle events and subscribed output chunks" (README.md:213):
\* when a peer has the shell and the host keeps the subscription, some relay
\* comes to serve the stream.
SubscribedIsRelayed ==
  []owned => (wanted ~> (~wanted \/ closing \/ \E r \in Relay : Serving(r)))
=============================================================================
