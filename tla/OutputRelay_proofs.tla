-------------------------- MODULE OutputRelay_proofs --------------------------
(***************************************************************************)
(* Proofs about the two drivers of OutputRelay: the host, for any number   *)
(* of handlers, browsers, shells and relays, any capacity and any number   *)
(* of requests; and then the peer, as the instance Peer.                   *)
(***************************************************************************)
EXTENDS HostOutputRelay, TLAPS

-----------------------------------------------------------------------------
(* The inductive invariant.                                                *)

Alone(e) == epc[e] # "idle" /\ job[e].alone

\* What `alone' and `overlapped' remember.
SoleInv ==
  /\ \A e, d \in Ensurer : Alone(e) /\ epc[d] # "idle" => d = e
  /\ ~overlapped => \A e \in Ensurer : epc[e] # "idle" => Alone(e)

\* The handlers of a browser's request know their browser, and the relay they
\* are about to enter; a browser that is gone asks for nothing.
JobInv ==
  \A e \in Ensurer :
    /\ epc[e] \notin {"idle", "payload", "emit", "drain"} => job[e].who \in Browser
    /\ job[e].shell # None => job[e].who \in Browser /\ job[e].kind # "gone"
    /\ epc[e] = "insert" => mine[e] \in Relay

\* The map holds no relay that has ended, however many handlers there are.
AliveInv == active # None => rpc[active] \in {"check", "recv", "clean"}

\* From JoinRoom on, and from its look at the map to its insertion.
Joined    == {"read", "prune", "check", "subscribe", "insert", "payload", "emit"}
Inserting == {"subscribe", "insert"}

\* What a handler has found stays true as long as it is alone.
LoneInv(e) ==
  /\ epc[e] = "prune" => ~Desired
  /\ epc[e] \in {"check"} \cup Inserting => Desired
  /\ epc[e] \in Inserting => active = None
  /\ epc[e] \in {"payload", "emit"} /\ job[e].who # None => Desired \/ active = None
  /\ epc[e] = "emit" => job[e].set = Viewed
  /\ epc[e] \in Joined /\ job[e].shell # None => job[e].shell \in rooms[job[e].who]

\* Where a handler is in the middle of bringing the relays, the rooms, or the
\* peers' set in line with the subscriptions.
Relaying == {"leave", "join", "read", "prune", "check"} \cup Inserting
Moving   == {"leave", "join"}
Settled  == {"idle", "test", "set", "drain"}

\* As long as handlers have not overlapped: the relays ...
RelayOrder ==
  /\ \A r \in Relay : Serving(r) => active = r
  /\ closing => \A r \in Relay : rpc[r] = "recv" => stop[r] \/ \E e \in Ensurer : epc[e] = "drain"
  /\ (\A e \in Ensurer : epc[e] \notin Relaying) => Desired \/ active = None

\* ... the rooms and what the peers know ...
RoomOrder ==
  /\ \A b \in Browser :
       (\A e \in Ensurer : epc[e] \in Moving => job[e].who # b)
         => rooms[b] = {viewing[b]} \ {None}
  /\ \A e \in Ensurer : epc[e] \in Moving => viewing[job[e].who] = job[e].shell
  /\ \A e \in Ensurer : epc[e] = "leave" => rooms[job[e].who] = {job[e].prev} \ {None}
  /\ \A e \in Ensurer : epc[e] = "join" => rooms[job[e].who] = {}
  /\ inRoom /\ (\A e \in Ensurer : epc[e] \in Settled) => told = Viewed

\* ... and the browsers that are gone.
GoneOrder ==
  /\ \A b \in Browser \ here :
       \/ viewing[b] = None
       \/ \E e \in Ensurer : epc[e] = "set" /\ job[e].who = b /\ job[e].kind = "gone"
  /\ \A e \in Ensurer :
       epc[e] \in {"test", "set"} /\ job[e].kind # "gone" => job[e].who \in here

Inv ==
  /\ TypeOK /\ SoleInv /\ JobInv /\ AliveInv
  /\ \A e \in Ensurer : Alone(e) => LoneInv(e)
  /\ ~overlapped => RelayOrder /\ RoomOrder /\ GoneOrder

-----------------------------------------------------------------------------
\* The invariant implies the properties.
LEMMA InvSettles ==
  ASSUME Inv
  PROVE  SettlesWhenAlone /\ NoOrphanInOrder /\ ViewsInOrder
<1>1. SettlesWhenAlone
  BY DEF Inv, SettlesWhenAlone, Alone, LoneInv, Joined, AliveInv
<1>2. NoOrphanInOrder
  <2>. SUFFICES ASSUME ~overlapped PROVE NoOrphanInOrder
    BY DEF NoOrphanInOrder
  <2>1. RelayOrder
    BY DEF Inv
  <2>2. ASSUME Busy = {}, closing \/ ~Desired, NEW r \in Relay, rpc[r] = "recv", ~stop[r]
        PROVE  FALSE
    <3>1. \A e \in Ensurer : epc[e] = "idle"
      BY <2>2 DEF Busy
    <3>2. active = r
      BY <2>1, <2>2 DEF RelayOrder, Serving
    <3>3. active # None
      BY <3>2, RelayNoneAssumption
    <3>. QED
      BY <2>1, <2>2, <3>1, <3>3 DEF RelayOrder, Relaying, Inserting
  <2>. QED
    BY <2>1, <2>2 DEF NoOrphanInOrder, NoOrphan, RelayOrder, Inv, TypeOK, BaseTypeOK
<1>3. ViewsInOrder
  <2>. SUFFICES ASSUME ~overlapped, Busy = {} PROVE ViewsInOrder
    BY DEF ViewsInOrder
  <2>1. RoomOrder /\ GoneOrder
    BY DEF Inv
  <2>2. \A e \in Ensurer : epc[e] = "idle"
    BY DEF Busy
  <2>. QED
    BY <2>1, <2>2 DEF ViewsInOrder, RoomOrder, GoneOrder, Moving, Settled
<1>. QED
  BY <1>1, <1>2, <1>3

-----------------------------------------------------------------------------
LEMMA NoJobType == NoJob \in Job
BY HostNoneAssumption DEF NoJob, Job

LEMMA ViewedType == TypeOK => Viewed \subseteq Shell
BY DEF TypeOK, Viewed

LEMMA InitInv == Init => Inv
<1>. SUFFICES ASSUME Init PROVE Inv
  OBVIOUS
<1>. USE DEF Init, BaseInit
<1>1. TypeOK
  <2>1. BaseTypeOK
    <3>1. queue \in [Relay -> 0..Capacity] /\ printed \in 0..MaxChunks
      BY CapacityAssumption
    <3>. QED
      BY <3>1 DEF BaseTypeOK
  <2>2. job \in [Ensurer -> Job] /\ requests \in 0..MaxRequests
    BY NoJobType, RequestsAssumption
  <2>3. epc \in [Ensurer -> HandlerPc]
    BY DEF HandlerPc
  <2>. QED
    BY <2>1, <2>2, <2>3 DEF TypeOK
<1>2. SoleInv /\ JobInv /\ AliveInv /\ \A e \in Ensurer : ~Alone(e)
  BY DEF SoleInv, JobInv, AliveInv, Alone, NoJob
<1>3. RelayOrder
  BY DEF RelayOrder, Serving
<1>4. RoomOrder /\ GoneOrder
  BY DEF RoomOrder, GoneOrder, Moving
<1>. QED
  BY <1>1, <1>2, <1>3, <1>4 DEF Inv

-----------------------------------------------------------------------------
(* Steps that are no handler's.                                            *)

\* They may take a relay out of the map and a peer out of its room.
LEMMA OutsideInv ==
  ASSUME Inv, TypeOK', AliveInv',
         UNCHANGED <<closing, epc, mine, viewing, rooms, here, job, overlapped>>,
         active' = active \/ active' = None,
         inRoom' => inRoom /\ told' = told,
         ~overlapped =>
           /\ \A r \in Relay : Serving(r)' => active' = r
           /\ closing => \A r \in Relay :
                rpc'[r] = "recv" => stop'[r] \/ (rpc[r] = "recv" /\ (stop[r] => stop'[r]))
  PROVE  Inv'
<1>. USE DEF Inv
<1>1. Viewed' = Viewed /\ Desired' = Desired
  BY DEF Viewed, Desired
<1>2. SoleInv' /\ JobInv'
  BY DEF SoleInv, JobInv, Alone
<1>3. ASSUME NEW e \in Ensurer, Alone(e)' PROVE LoneInv(e)'
  BY <1>1, <1>3 DEF Alone, LoneInv
<1>4. ASSUME ~overlapped PROVE RelayOrder' /\ RoomOrder' /\ GoneOrder'
  <2>1. RelayOrder'
    BY <1>1, <1>4 DEF RelayOrder
  <2>2. RoomOrder'
    BY <1>1, <1>4 DEF RoomOrder
  <2>3. GoneOrder'
    BY <1>4 DEF GoneOrder
  <2>. QED
    BY <2>1, <2>2, <2>3
<1>. QED
  BY <1>2, <1>3, <1>4

LEMMA PeerLeavesInv ==
  ASSUME Inv, PeerLeaves \/ ShellSpawned
  PROVE  Inv'
<1>1. UNCHANGED <<baseVars, viewing, rooms, here, job, overlapped>>
  BY DEF PeerLeaves, ShellSpawned
<1>2. TypeOK'
  <2>1. requests' \in 0..MaxRequests
    BY RequestsAssumption DEF Inv, TypeOK, PeerLeaves, ShellSpawned
  <2>2. BaseTypeOK'
    BY <1>1 DEF Inv, TypeOK, BaseTypeOK, baseVars, relayVars
  <2>3. epc' = epc /\ inRoom' \in BOOLEAN /\ told' \subseteq Shell /\ owned' \in BOOLEAN
    BY <1>1 DEF Inv, TypeOK, PeerLeaves, ShellSpawned, baseVars
  <2>. QED
    BY <1>1, <2>1, <2>2, <2>3 DEF Inv, TypeOK
<1>3. AliveInv'
  BY <1>1 DEF Inv, AliveInv, baseVars, relayVars
<1>4. inRoom' => inRoom /\ told' = told
  BY DEF PeerLeaves, ShellSpawned
<1>5. ~overlapped => \A r \in Relay : Serving(r)' => active' = r
  BY <1>1 DEF Inv, RelayOrder, Serving, baseVars, relayVars
<1>. QED
  BY <1>1, <1>2, <1>3, <1>4, <1>5, OutsideInv DEF baseVars, relayVars

LEMMA OutputInv ==
  ASSUME Inv, Output
  PROVE  Inv'
<1>. USE DEF Inv, Output, ShellPrints, hostVars
<1>1. TypeOK'
  <2>1. linked' \in [Relay -> BOOLEAN] /\ printed' \in 0..MaxChunks
    BY CapacityAssumption DEF TypeOK, BaseTypeOK
  <2>2. queue' \in [Relay -> 0..Capacity]
    <3>1. ASSUME NEW r \in Relay
          PROVE  (IF linked'[r] THEN queue[r] + 1 ELSE queue[r]) \in 0..Capacity
      <4>1. queue[r] \in 0..Capacity
        BY DEF TypeOK, BaseTypeOK
      <4>2. linked'[r] => queue[r] < Capacity
        OBVIOUS
      <4>. QED
        BY <4>1, <4>2, CapacityAssumption, SMT
    <3>. QED
      BY <3>1
  <2>. QED
    BY <2>1, <2>2 DEF TypeOK, BaseTypeOK
<1>2. AliveInv'
  BY DEF AliveInv
<1>3. ~overlapped => \A r \in Relay : Serving(r)' => active' = r
  BY DEF RelayOrder, Serving
<1>. QED
  BY <1>1, <1>2, <1>3, OutsideInv

\* Whoever empties the map stops what was in it.
LEMMA EmptyMap ==
  ASSUME TypeOK, RelayOrder, stop' = Stopped(active),
         \A r \in Relay : rpc'[r] = rpc[r] \/ rpc'[r] = "free"
  PROVE  /\ \A r \in Relay : Serving(r)' => active' = r
         /\ \A r \in Relay : rpc'[r] = "recv" => stop'[r]
<1>1. ASSUME NEW r \in Relay, rpc'[r] \in {"check", "recv"} PROVE stop'[r]
  <2>1. stop[r] \/ active = r
    BY <1>1 DEF RelayOrder, Serving
  <2>. QED
    BY <2>1, RelayNoneAssumption DEF Stopped, TypeOK, BaseTypeOK
<1>. QED
  BY <1>1 DEF Serving

LEMMA StoppedType ==
  ASSUME TypeOK
  PROVE  Stopped(active) \in [Relay -> BOOLEAN]
BY DEF Stopped, TypeOK, BaseTypeOK

LEMMA RelayInv ==
  ASSUME Inv, NEW r \in Relay, RelayThread(r)
  PROVE  Inv'
<1>. USE DEF Inv, hostVars
<1>1. CASE RelayCheck(r) \/ RelayChunk(r) \/ RelayEnds(r)
  <2>1. /\ UNCHANGED <<closing, active, linked, epc, mine, printed, hostVars>>
        /\ rpc[r] \in {"check", "recv"}
        /\ \E l \in {"check", "recv", "clean"} :
             /\ rpc' = [rpc EXCEPT ![r] = l]
             /\ l = "recv" => ~closing
        /\ stop' = stop \/ (rpc'[r] = "clean" /\ stop' = [stop EXCEPT ![r] = FALSE])
    BY <1>1 DEF RelayThread, RelayCheck, RelayChunk, RelayEnds, TypeOK, BaseTypeOK
  <2>2. queue' \in [Relay -> 0..Capacity]
    <3>1. queue' = queue \/ (queue[r] > 0 /\ queue' = [queue EXCEPT ![r] = @ - 1])
      BY <1>1 DEF RelayCheck, RelayChunk, RelayEnds
    <3>. QED
      BY <3>1, CapacityAssumption DEF TypeOK, BaseTypeOK
  <2>3. TypeOK'
    BY <2>1, <2>2 DEF TypeOK, BaseTypeOK
  <2>4. AliveInv'
    BY <2>1 DEF AliveInv, TypeOK, BaseTypeOK
  <2>5. ~overlapped => \A q \in Relay : Serving(q)' => active' = q
    BY <2>1 DEF RelayOrder, Serving, TypeOK, BaseTypeOK
  <2>6. closing => \A q \in Relay : rpc'[q] = "recv" => rpc[q] = "recv" /\ stop'[q] = stop[q]
    BY <2>1 DEF TypeOK, BaseTypeOK
  <2>. QED
    BY <2>1, <2>3, <2>4, <2>5, <2>6, OutsideInv
<1>2. CASE RelayClean(r)
  <2>1. /\ UNCHANGED <<closing, queue, epc, mine, printed, hostVars>>
        /\ rpc[r] = "clean" /\ rpc' = [rpc EXCEPT ![r] = "free"]
        /\ active' = None /\ stop' = Stopped(active)
        /\ linked' = [linked EXCEPT ![r] = FALSE]
    BY <1>2 DEF RelayThread, RelayClean
  <2>2. TypeOK'
    BY <2>1, StoppedType DEF TypeOK, BaseTypeOK
  <2>3. AliveInv'
    BY <2>1 DEF AliveInv
  <2>4. \A q \in Relay : rpc'[q] = rpc[q] \/ rpc'[q] = "free"
    BY <2>1 DEF TypeOK, BaseTypeOK
  <2>5. ~overlapped => /\ \A q \in Relay : Serving(q)' => active' = q
                       /\ \A q \in Relay : rpc'[q] = "recv" => stop'[q]
    BY <2>1, <2>4, EmptyMap
  <2>. QED
    BY <2>1, <2>2, <2>3, <2>5, OutsideInv
<1>. QED
  BY <1>1, <1>2 DEF RelayThread, RelayStep

-----------------------------------------------------------------------------
(* Handlers begin.                                                         *)

\* All that a beginning changes but the flag, the sockets and the peer's room.
LEMMA BeginInv ==
  ASSUME Inv, NEW e \in Ensurer, NEW b \in Browser \cup {None}, NEW s \in Shell \cup {None},
         NEW kind \in {"view", "gone", "other"}, NEW pc \in {"test", "set", "payload", "drain"},
         Begin(e, pc, kind, b, s),
         closing' \in BOOLEAN, here' \subseteq Browser, inRoom' \in BOOLEAN,
         s # None => b \in Browser /\ kind # "gone",
         pc \in {"test", "set"} => b \in Browser,
         pc \in {"payload", "drain"} => b = None /\ s = None,
         /\ ~overlapped
         /\ \A d \in Ensurer : epc[d] = "idle"
         /\ epc' = [epc EXCEPT ![e] = pc]
         /\ job'[e].kind = kind /\ job'[e].who = b
         => RelayOrder' /\ RoomOrder' /\ GoneOrder'
  PROVE  Inv'
<1>. /\ TypeOK /\ SoleInv /\ JobInv /\ AliveInv
     /\ ~overlapped => RelayOrder /\ RoomOrder /\ GoneOrder
  BY DEF Inv
<1>00. requests < MaxRequests /\ requests' = requests + 1
  BY DEF Begin
<1>0. /\ epc[e] = "idle" /\ epc' = [epc EXCEPT ![e] = pc]
      /\ overlapped' = (overlapped \/ Busy # {})
      /\ job' = [d \in Ensurer |->
                   IF d = e
                   THEN [NoJob EXCEPT !.kind = kind, !.who = b, !.shell = s, !.alone = (Busy = {})]
                   ELSE [job[d] EXCEPT !.alone = (d \notin Busy)]]
      /\ UNCHANGED <<active, rpc, stop, linked, queue, mine, printed, viewing, rooms, told, owned>>
  BY DEF Begin, Step, relayVars
<1>1. job' \in [Ensurer -> Job]
  <2>1. [NoJob EXCEPT !.kind = kind, !.who = b, !.shell = s, !.alone = (Busy = {})] \in Job
    BY NoJobType DEF Job
  <2>2. \A d \in Ensurer : [job[d] EXCEPT !.alone = (d \notin Busy)] \in Job
    BY DEF TypeOK, Job
  <2>. QED
    BY <1>0, <2>1, <2>2
<1>2. TypeOK'
  <2>1. requests' \in 0..MaxRequests
    <3>1. requests \in 0..MaxRequests
      BY DEF TypeOK
    <3>. QED
      BY <1>00, <3>1, RequestsAssumption
  <2>2. overlapped' \in BOOLEAN
    BY <1>0
  <2>3. BaseTypeOK'
    BY <1>0 DEF TypeOK, BaseTypeOK
  <2>4. epc' \in [Ensurer -> HandlerPc]
    BY <1>0 DEF TypeOK, HandlerPc
  <2>. QED
    BY <1>0, <1>1, <2>1, <2>2, <2>3, <2>4 DEF TypeOK
<1>3. /\ job'[e].kind = kind /\ job'[e].who = b /\ job'[e].shell = s
      /\ job'[e].alone = (Busy = {})
  BY <1>0, NoJobType DEF Job
<1>4. \A d \in Ensurer \ {e} :
        /\ epc'[d] = epc[d]
        /\ job'[d].kind = job[d].kind /\ job'[d].who = job[d].who
        /\ job'[d].shell = job[d].shell
        /\ job'[d].alone = (d \notin Busy)
  BY <1>0 DEF TypeOK, Job
<1>5. epc'[e] = pc
  BY <1>0 DEF TypeOK
<1>6. \A d \in Ensurer : Alone(d)' => d = e /\ Busy = {}
  BY <1>3, <1>4 DEF Alone, Busy
<1>7. SoleInv'
  <2>1. \A c, d \in Ensurer : Alone(c)' /\ epc'[d] # "idle" => d = c
    BY <1>4, <1>6 DEF Busy
  <2>2. ASSUME ~overlapped', NEW d \in Ensurer, epc'[d] # "idle" PROVE Alone(d)'
    BY <1>0, <1>3, <1>4, <2>2 DEF Alone, Busy
  <2>. QED
    BY <2>1, <2>2 DEF SoleInv
<1>8. JobInv'
  <2>. SUFFICES ASSUME NEW d \in Ensurer
                PROVE  /\ epc'[d] \notin {"idle", "payload", "emit", "drain"} => job'[d].who \in Browser
                       /\ job'[d].shell # None => job'[d].who \in Browser /\ job'[d].kind # "gone"
                       /\ epc'[d] = "insert" => mine'[d] \in Relay
    BY DEF JobInv
  <2>1. CASE d = e
    BY <1>3, <1>5, <2>1
  <2>2. CASE d # e
    BY <1>0, <1>4, <2>2 DEF JobInv
  <2>. QED
    BY <2>1, <2>2
<1>9. AliveInv'
  BY <1>0 DEF AliveInv
<1>10. ASSUME NEW d \in Ensurer, Alone(d)' PROVE LoneInv(d)'
  BY <1>3, <1>5, <1>6, <1>10 DEF LoneInv, Joined, Inserting
<1>11. ASSUME ~overlapped' PROVE RelayOrder' /\ RoomOrder' /\ GoneOrder'
  <2>1. ~overlapped /\ \A d \in Ensurer : epc[d] = "idle"
    BY <1>0, <1>11 DEF Busy
  <2>. QED
    BY <1>0, <2>1, <1>3
<1>. QED
  BY <1>2, <1>7, <1>8, <1>9, <1>10, <1>11 DEF Inv

\* What a handler that begins alone finds in order stays so, except for what
\* it is there to mend.
LEMMA BeginOrder ==
  ASSUME TypeOK, RelayOrder, RoomOrder, NEW e \in Ensurer,
         NEW pc \in {"test", "set", "payload", "drain"},
         \A d \in Ensurer : epc[d] = "idle", epc' = [epc EXCEPT ![e] = pc],
         UNCHANGED <<relayVars, viewing, rooms, told>>,
         closing' = closing \/ pc = "drain",
         inRoom' = inRoom \/ pc = "payload"
  PROVE  RelayOrder' /\ RoomOrder'
<1>. USE DEF relayVars
<1>1. Viewed' = Viewed /\ Desired' = Desired
  BY DEF Viewed, Desired
<1>2. epc'[e] = pc /\ \A d \in Ensurer \ {e} : epc'[d] = "idle"
  BY DEF TypeOK
<1>3. RelayOrder'
  BY <1>1, <1>2 DEF RelayOrder, Serving, Relaying, Inserting
<1>4. RoomOrder'
  <2>1. \A b \in Browser : rooms'[b] = {viewing'[b]} \ {None}
    BY DEF RoomOrder, Moving
  <2>2. \A d \in Ensurer : epc'[d] \notin Moving
    BY <1>2 DEF Moving
  <2>3. inRoom' /\ (\A d \in Ensurer : epc'[d] \in Settled) => told' = Viewed'
    BY <1>1, <1>2 DEF RoomOrder, Settled
  <2>. QED
    BY <2>1, <2>2, <2>3 DEF RoomOrder, Moving
<1>. QED
  BY <1>3, <1>4

LEMMA BeginsInv ==
  ASSUME Inv, NEW e \in Ensurer,
         LogsOpen(e) \/ LogsClose(e) \/ BrowserGone(e) \/ PeerConnects(e) \/ CloseFlag(e)
  PROVE  Inv'
<1>. USE DEF Inv
<1>1. here \subseteq Browser /\ closing \in BOOLEAN /\ inRoom \in BOOLEAN
  BY DEF TypeOK, BaseTypeOK
<1>2. ASSUME NEW b \in here, NEW s \in Shell, NEW pc \in {"test", "set"},
             Begin(e, pc, "view", b, s), UNCHANGED <<closing, here, inRoom>>
      PROVE  Inv'
  <2>1. ASSUME ~overlapped, \A d \in Ensurer : epc[d] = "idle",
               epc' = [epc EXCEPT ![e] = pc], job'[e].who = b
        PROVE  RelayOrder' /\ RoomOrder' /\ GoneOrder'
    <3>1. RelayOrder' /\ RoomOrder'
      <4>1. UNCHANGED <<relayVars, viewing, rooms, told>>
        BY <1>2 DEF Begin
      <4>. QED
        BY <1>2, <2>1, <4>1, BeginOrder
    <3>2. GoneOrder'
      <4>1. viewing' = viewing
        BY <1>2 DEF Begin
      <4>2. epc'[e] = pc /\ \A d \in Ensurer \ {e} : epc'[d] = "idle"
        BY <2>1 DEF TypeOK
      <4>3. GoneOrder
        BY <2>1
      <4>. QED
        BY <1>2, <2>1, <4>1, <4>2, <4>3 DEF GoneOrder
    <3>. QED
      BY <3>1, <3>2
  <2>. QED
    BY <1>1, <1>2, <2>1, BeginInv, HostNoneAssumption
<1>3. ASSUME NEW b \in here, Begin(e, "set", "gone", b, None), here' = here \ {b},
             UNCHANGED <<closing, inRoom>>
      PROVE  Inv'
  <2>1. ASSUME ~overlapped, \A d \in Ensurer : epc[d] = "idle",
               epc' = [epc EXCEPT ![e] = "set"], job'[e].kind = "gone", job'[e].who = b
        PROVE  RelayOrder' /\ RoomOrder' /\ GoneOrder'
    <3>1. RelayOrder' /\ RoomOrder'
      BY <1>3, <2>1, BeginOrder DEF Begin
    <3>2. GoneOrder'
      <4>1. viewing' = viewing
        BY <1>3 DEF Begin
      <4>2. epc'[e] = "set" /\ \A d \in Ensurer \ {e} : epc'[d] = "idle"
        BY <2>1 DEF TypeOK
      <4>3. GoneOrder
        BY <2>1
      <4>. QED
        BY <1>3, <2>1, <4>1, <4>2, <4>3 DEF GoneOrder
    <3>. QED
      BY <3>1, <3>2
  <2>. QED
    BY <1>1, <1>3, <2>1, BeginInv, HostNoneAssumption
<1>4. ASSUME NEW pc \in {"payload", "drain"}, Begin(e, pc, "other", None, None),
             UNCHANGED here, closing' \in BOOLEAN, inRoom' \in BOOLEAN,
             closing' = closing \/ pc = "drain", inRoom' = inRoom \/ pc = "payload"
      PROVE  Inv'
  <2>1. ASSUME ~overlapped, \A d \in Ensurer : epc[d] = "idle", epc' = [epc EXCEPT ![e] = pc]
        PROVE  RelayOrder' /\ RoomOrder' /\ GoneOrder'
    <3>1. RelayOrder' /\ RoomOrder'
      BY <1>4, <2>1, BeginOrder DEF Begin
    <3>2. GoneOrder'
      <4>1. viewing' = viewing
        BY <1>4 DEF Begin
      <4>2. epc'[e] = pc /\ \A d \in Ensurer \ {e} : epc'[d] = "idle"
        BY <2>1 DEF TypeOK
      <4>3. GoneOrder
        BY <2>1
      <4>. QED
        BY <1>4, <2>1, <4>1, <4>2, <4>3 DEF GoneOrder
    <3>. QED
      BY <3>1, <3>2
  <2>. QED
    BY <1>1, <1>4, <2>1, BeginInv
<1>5. CASE LogsOpen(e) \/ LogsClose(e)
  BY <1>2, <1>5 DEF LogsOpen, LogsClose
<1>6. CASE BrowserGone(e)
  BY <1>3, <1>6 DEF BrowserGone
<1>7. CASE PeerConnects(e) \/ CloseFlag(e)
  BY <1>1, <1>4, <1>7 DEF PeerConnects, CloseFlag
<1>. QED
  BY <1>5, <1>6, <1>7

-----------------------------------------------------------------------------
(* Handlers go on.                                                         *)

\* Only a handler that is alone has found anything, or leaves order behind it.
LEMMA StepInv ==
  ASSUME Inv, NEW e \in Ensurer, NEW l \in HandlerPc,
         epc[e] # "idle", epc' = [epc EXCEPT ![e] = l], overlapped' = overlapped,
         \A d \in Ensurer : epc'[d] # "idle" => job'[d].alone = job[d].alone,
         TypeOK', JobInv', AliveInv',
         Alone(e) /\ LoneInv(e) /\ l # "idle" => LoneInv(e)',
         /\ ~overlapped /\ RelayOrder /\ RoomOrder /\ GoneOrder
         /\ Alone(e) /\ LoneInv(e)
         /\ epc'[e] = l /\ \A d \in Ensurer \ {e} : epc[d] = "idle" /\ epc'[d] = "idle"
         => RelayOrder' /\ RoomOrder' /\ GoneOrder'
  PROVE  Inv'
<1>1. epc'[e] = l /\ \A d \in Ensurer \ {e} : epc'[d] = epc[d]
  BY DEF Inv, TypeOK
<1>2. \A d \in Ensurer : Alone(d)' => Alone(d) /\ d = e
  <2>1. \A d \in Ensurer : Alone(d)' => Alone(d)
    BY <1>1 DEF Alone
  <2>. QED
    BY <2>1 DEF Inv, SoleInv
<1>3. SoleInv'
  BY <1>1, <1>2 DEF Inv, SoleInv, Alone
<1>4. ASSUME NEW d \in Ensurer, Alone(d)' PROVE LoneInv(d)'
  <2>1. d = e /\ Alone(e) /\ l # "idle"
    BY <1>1, <1>2, <1>4 DEF Alone
  <2>. QED
    BY <2>1 DEF Inv
<1>5. ASSUME ~overlapped PROVE RelayOrder' /\ RoomOrder' /\ GoneOrder'
  <2>1. Alone(e) /\ \A d \in Ensurer \ {e} : epc[d] = "idle"
    BY <1>5 DEF Inv, SoleInv
  <2>. QED
    BY <1>1, <1>5, <2>1 DEF Inv
<1>. QED
  BY <1>3, <1>4, <1>5 DEF Inv

LEMMA CloseTestInv ==
  ASSUME Inv, NEW e \in Ensurer, CloseTest(e)
  PROVE  Inv'
<1>. DEFINE found == viewing[job[e].who] = job[e].shell
            l == IF found THEN "set" ELSE "idle"
<1>1. /\ epc[e] = "test" /\ epc' = [epc EXCEPT ![e] = l]
      /\ job' = [job EXCEPT ![e] = IF found THEN [@ EXCEPT !.shell = None] ELSE NoJob]
      /\ UNCHANGED <<closing, active, rpc, stop, linked, queue, mine, printed, viewing, rooms,
                     here, inRoom, told, owned, requests, overlapped>>
  BY DEF CloseTest, Step, relayVars
<1>. l \in {"set", "idle"} /\ l \in HandlerPc
  BY DEF HandlerPc
<1>. TypeOK /\ JobInv /\ AliveInv
  BY DEF Inv
<1>2. job' \in [Ensurer -> Job]
  BY <1>1, NoJobType DEF TypeOK, Job
<1>3. TypeOK'
  BY <1>1, <1>2 DEF TypeOK, BaseTypeOK, HandlerPc
<1>4. /\ epc'[e] = l /\ (l = "idle" => job'[e] = NoJob)
      /\ l = "set" => /\ job'[e].who = job[e].who /\ job'[e].kind = job[e].kind
                      /\ job'[e].shell = None /\ job'[e].alone = job[e].alone
      /\ \A d \in Ensurer \ {e} : epc'[d] = epc[d] /\ job'[d] = job[d]
  BY <1>1 DEF TypeOK, Job
<1>5. JobInv'
  BY <1>1, <1>4 DEF JobInv, NoJob
<1>6. AliveInv'
  BY <1>1 DEF AliveInv
<1>7. l # "idle" => LoneInv(e)'
  BY <1>4 DEF LoneInv, Joined, Inserting
<1>8. Viewed' = Viewed /\ Desired' = Desired
  BY <1>1 DEF Viewed, Desired
<1>9. ASSUME RelayOrder, RoomOrder, GoneOrder,
             \A d \in Ensurer \ {e} : epc[d] = "idle" /\ epc'[d] = "idle"
      PROVE  RelayOrder' /\ RoomOrder' /\ GoneOrder'
  <2>1. RelayOrder'
    BY <1>1, <1>4, <1>8, <1>9 DEF RelayOrder, Serving, Relaying, Inserting
  <2>2. RoomOrder'
    BY <1>1, <1>4, <1>8, <1>9 DEF RoomOrder, Moving, Settled
  <2>3. GoneOrder'
    BY <1>1, <1>4, <1>9 DEF GoneOrder
  <2>. QED
    BY <2>1, <2>2, <2>3
<1>. QED
  BY <1>1, <1>3, <1>4, <1>5, <1>6, <1>7, <1>9, StepInv

LEMMA SetShellInv ==
  ASSUME Inv, NEW e \in Ensurer, SetShell(e)
  PROVE  Inv'
<1>. DEFINE b == job[e].who
            nothing == job[e].kind = "gone" /\ viewing[b] = None
            l == IF nothing THEN "idle" ELSE "leave"
<1>1. /\ epc[e] = "set" /\ epc' = [epc EXCEPT ![e] = l]
      /\ viewing' = [viewing EXCEPT ![b] = job[e].shell]
      /\ job' = [job EXCEPT ![e] = IF nothing THEN NoJob ELSE [@ EXCEPT !.prev = viewing[b]]]
      /\ UNCHANGED <<closing, active, rpc, stop, linked, queue, mine, printed, rooms,
                     here, inRoom, told, owned, requests, overlapped>>
  BY DEF SetShell, Step, relayVars
<1>. l \in {"leave", "idle"} /\ l \in HandlerPc
  BY DEF HandlerPc
<1>. TypeOK /\ JobInv /\ AliveInv
  BY DEF Inv
<1>. b \in Browser /\ (nothing => job[e].shell = None)
  BY <1>1 DEF JobInv
<1>2. viewing' \in [Browser -> Shell \cup {None}] /\ job' \in [Ensurer -> Job]
  BY <1>1, NoJobType DEF TypeOK, Job
<1>3. TypeOK'
  BY <1>1, <1>2 DEF TypeOK, BaseTypeOK, HandlerPc
<1>4. /\ epc'[e] = l /\ (l = "idle" => job'[e] = NoJob)
      /\ l = "leave" => /\ job'[e].who = b /\ job'[e].kind = job[e].kind
                        /\ job'[e].shell = job[e].shell /\ job'[e].alone = job[e].alone
                        /\ job'[e].prev = viewing[b]
      /\ \A d \in Ensurer \ {e} : epc'[d] = epc[d] /\ job'[d] = job[d]
  BY <1>1 DEF TypeOK, Job
<1>5. JobInv'
  BY <1>1, <1>4 DEF JobInv, NoJob
<1>6. AliveInv'
  BY <1>1 DEF AliveInv
<1>7. l # "idle" => LoneInv(e)'
  BY <1>4 DEF LoneInv, Joined, Inserting
<1>8. nothing => viewing' = viewing
  BY <1>1 DEF TypeOK
<1>9. ASSUME RelayOrder, RoomOrder, GoneOrder,
             \A d \in Ensurer \ {e} : epc[d] = "idle" /\ epc'[d] = "idle"
      PROVE  RelayOrder' /\ RoomOrder' /\ GoneOrder'
  <2>1. RelayOrder'
    <3>1. nothing => Desired' = Desired
      BY <1>8 DEF Desired, Viewed
    <3>. QED
      BY <1>1, <1>4, <1>9, <3>1 DEF RelayOrder, Serving, Relaying, Inserting
  <2>2. RoomOrder'
    <3>1. \A c \in Browser : rooms[c] = {viewing[c]} \ {None}
      BY <1>1, <1>9 DEF RoomOrder, Moving
    <3>2. viewing'[b] = job[e].shell /\ \A c \in Browser \ {b} : viewing'[c] = viewing[c]
      BY <1>1 DEF TypeOK
    <3>3. CASE nothing
      <4>1. Viewed' = Viewed
        BY <1>8, <3>3 DEF Viewed
      <4>. QED
        BY <1>1, <1>4, <1>8, <1>9, <3>1, <3>3, <4>1 DEF RoomOrder, Moving, Settled
    <3>4. CASE ~nothing
      <4>1. epc'[e] = "leave" /\ \A d \in Ensurer : d # e => epc'[d] = "idle"
        BY <1>4, <1>9, <3>4
      <4>. QED
        BY <1>1, <1>4, <3>1, <3>2, <3>4, <4>1 DEF RoomOrder, Moving, Settled
    <3>. QED
      BY <3>3, <3>4
  <2>3. GoneOrder'
    <3>1. viewing'[b] = job[e].shell /\ \A c \in Browser \ {b} : viewing'[c] = viewing[c]
      BY <1>1 DEF TypeOK
    <3>2. ASSUME NEW c \in Browser \ here PROVE viewing'[c] = None
      <4>1. CASE c = b
        BY <1>1, <1>9, <3>1, <4>1 DEF GoneOrder, JobInv
      <4>2. CASE c # b
        BY <1>1, <1>9, <3>1, <4>2 DEF GoneOrder
      <4>. QED
        BY <4>1, <4>2
    <3>. QED
      BY <1>1, <1>4, <1>9, <3>2 DEF GoneOrder
  <2>. QED
    BY <2>1, <2>2, <2>3
<1>. QED
  BY <1>1, <1>3, <1>4, <1>5, <1>6, <1>7, <1>9, StepInv

LEMMA LeaveRoomInv ==
  ASSUME Inv, NEW e \in Ensurer, LeaveRoom(e)
  PROVE  Inv'
<1>. DEFINE b == job[e].who
<1>1. /\ epc[e] = "leave" /\ epc' = [epc EXCEPT ![e] = "join"]
      /\ rooms' = [rooms EXCEPT ![b] = @ \ {job[e].prev}]
      /\ job' = [job EXCEPT ![e].prev = None]
      /\ UNCHANGED <<closing, active, rpc, stop, linked, queue, mine, printed, viewing,
                     here, inRoom, told, owned, requests, overlapped>>
  BY DEF LeaveRoom, Step, relayVars
<1>. TypeOK /\ JobInv /\ AliveInv /\ "join" \in HandlerPc
  BY DEF Inv, HandlerPc
<1>. b \in Browser
  BY <1>1 DEF JobInv
<1>2. rooms' \in [Browser -> SUBSET Shell] /\ job' \in [Ensurer -> Job]
  BY <1>1 DEF TypeOK, Job
<1>3. TypeOK'
  BY <1>1, <1>2 DEF TypeOK, BaseTypeOK
<1>4. /\ epc'[e] = "join"
      /\ \A d \in Ensurer : /\ job'[d].who = job[d].who /\ job'[d].kind = job[d].kind
                            /\ job'[d].shell = job[d].shell /\ job'[d].alone = job[d].alone
      /\ \A d \in Ensurer \ {e} : epc'[d] = epc[d]
  BY <1>1 DEF TypeOK, Job
<1>5. JobInv'
  BY <1>1, <1>4 DEF JobInv
<1>6. AliveInv'
  BY <1>1 DEF AliveInv
<1>7. LoneInv(e)'
  BY <1>4 DEF LoneInv, Joined, Inserting
<1>9. ASSUME RelayOrder, RoomOrder, GoneOrder,
             \A d \in Ensurer \ {e} : epc[d] = "idle" /\ epc'[d] = "idle"
      PROVE  RelayOrder' /\ RoomOrder' /\ GoneOrder'
  <2>1. RelayOrder'
    BY <1>1, <1>4, <1>9 DEF RelayOrder, Serving, Relaying, Inserting
  <2>2. RoomOrder'
    <3>1. rooms'[b] = {} /\ \A c \in Browser \ {b} : rooms'[c] = rooms[c]
      BY <1>1, <1>9 DEF RoomOrder, TypeOK
    <3>2. viewing[b] = job[e].shell
      BY <1>1, <1>9 DEF RoomOrder, Moving
    <3>3. \A c \in Browser \ {b} : rooms[c] = {viewing[c]} \ {None}
      BY <1>9 DEF RoomOrder, Moving
    <3>. QED
      BY <1>1, <1>4, <1>9, <3>1, <3>2, <3>3 DEF RoomOrder, Moving, Settled
  <2>3. GoneOrder'
    BY <1>1, <1>4, <1>9 DEF GoneOrder
  <2>. QED
    BY <2>1, <2>2, <2>3
<1>. QED
  BY <1>1, <1>3, <1>4, <1>5, <1>6, <1>7, <1>9, StepInv

LEMMA JoinRoomInv ==
  ASSUME Inv, NEW e \in Ensurer, JoinRoom(e)
  PROVE  Inv'
<1>. DEFINE b == job[e].who
<1>1. /\ epc[e] = "join" /\ epc' = [epc EXCEPT ![e] = "read"]
      /\ rooms' = [rooms EXCEPT ![b] = @ \cup ({job[e].shell} \ {None})]
      /\ UNCHANGED <<closing, active, rpc, stop, linked, queue, mine, printed, viewing,
                     here, inRoom, told, owned, job, requests, overlapped>>
  BY DEF JoinRoom, Step, relayVars
<1>. TypeOK /\ JobInv /\ AliveInv /\ "read" \in HandlerPc
  BY DEF Inv, HandlerPc
<1>. b \in Browser
  BY <1>1 DEF JobInv
<1>2. rooms' \in [Browser -> SUBSET Shell]
  BY <1>1 DEF TypeOK, Job
<1>3. TypeOK'
  BY <1>1, <1>2 DEF TypeOK, BaseTypeOK
<1>4. epc'[e] = "read" /\ \A d \in Ensurer \ {e} : epc'[d] = epc[d]
  BY <1>1 DEF TypeOK
<1>5. JobInv'
  BY <1>1, <1>4 DEF JobInv
<1>6. AliveInv'
  BY <1>1 DEF AliveInv
<1>7. LoneInv(e)'
  <2>1. job[e].shell # None => job[e].shell \in rooms'[b]
    BY <1>1 DEF TypeOK
  <2>. QED
    BY <1>1, <1>4, <2>1 DEF LoneInv, Inserting
<1>9. ASSUME RelayOrder, RoomOrder, GoneOrder,
             \A d \in Ensurer \ {e} : epc[d] = "idle" /\ epc'[d] = "idle"
      PROVE  RelayOrder' /\ RoomOrder' /\ GoneOrder'
  <2>1. RelayOrder'
    BY <1>1, <1>4, <1>9 DEF RelayOrder, Serving, Relaying, Inserting
  <2>2. RoomOrder'
    <3>1. /\ rooms'[b] = rooms[b] \cup ({job[e].shell} \ {None})
          /\ \A c \in Browser \ {b} : rooms'[c] = rooms[c]
      BY <1>1 DEF TypeOK
    <3>2. rooms[b] = {} /\ viewing[b] = job[e].shell
      BY <1>1, <1>9 DEF RoomOrder, Moving
    <3>3. \A c \in Browser \ {b} : rooms[c] = {viewing[c]} \ {None}
      BY <1>9 DEF RoomOrder, Moving
    <3>4. \A c \in Browser : rooms'[c] = {viewing[c]} \ {None}
      BY <3>1, <3>2, <3>3
    <3>5. \A d \in Ensurer : epc'[d] \notin Moving
      BY <1>4, <1>9 DEF Moving
    <3>. QED
      BY <1>1, <1>4, <3>4, <3>5 DEF RoomOrder, Moving, Settled
  <2>3. GoneOrder'
    BY <1>1, <1>4, <1>9 DEF GoneOrder
  <2>. QED
    BY <2>1, <2>2, <2>3
<1>. QED
  BY <1>1, <1>3, <1>4, <1>5, <1>6, <1>7, <1>9, StepInv

-----------------------------------------------------------------------------
(* ensure_local_output_streams in a handler.                               *)

Ensuring == {"read", "prune", "check"} \cup Inserting

\* It changes neither rooms nor what is known, so it is enough to look at the
\* relays.
LEMMA EnsuringInv ==
  ASSUME Inv, NEW e \in Ensurer, NEW l \in Ensuring \cup {"payload"},
         epc[e] \in Ensuring, epc' = [epc EXCEPT ![e] = l],
         UNCHANGED <<closing, hostVars>>,
         TypeOK', AliveInv', l = "insert" => mine'[e] \in Relay,
         \A d \in Ensurer \ {e} : mine'[d] = mine[d],
         LoneInv(e) =>
           /\ l = "prune" => ~Desired
           /\ l \in {"check"} \cup Inserting => Desired
           /\ l \in Inserting => active' = None
           /\ l = "payload" => Desired \/ active' = None,
         RelayOrder /\ LoneInv(e) =>
           /\ \A r \in Relay : Serving(r)' => active' = r
           /\ closing => \A r \in Relay :
                rpc'[r] = "recv" => stop'[r] \/ (rpc[r] = "recv" /\ (stop[r] => stop'[r]))
  PROVE  Inv'
<1>. TypeOK /\ JobInv
  BY DEF Inv
<1>1. Viewed' = Viewed /\ Desired' = Desired
  BY DEF Viewed, Desired, hostVars
<1>2. epc'[e] = l /\ \A d \in Ensurer \ {e} : epc'[d] = epc[d]
  BY DEF TypeOK
<1>3. job[e].who \in Browser
  BY DEF JobInv, Ensuring, Inserting
<1>4. JobInv'
  BY <1>2, <1>3 DEF JobInv, hostVars
<1>5. ASSUME LoneInv(e) PROVE LoneInv(e)'
  BY <1>1, <1>2, <1>5 DEF LoneInv, Joined, Inserting, Ensuring, hostVars
<1>6. ASSUME RelayOrder, RoomOrder, GoneOrder, LoneInv(e),
             \A d \in Ensurer \ {e} : epc[d] = "idle" /\ epc'[d] = "idle"
      PROVE  RelayOrder' /\ RoomOrder' /\ GoneOrder'
  <2>1. RelayOrder'
    <3>1. closing => \A r \in Relay : rpc'[r] = "recv" => stop'[r]
      BY <1>6 DEF RelayOrder, Ensuring, Inserting
    <3>2. (\A d \in Ensurer : epc'[d] \notin Relaying) => Desired' \/ active' = None
      BY <1>1, <1>2, <1>6 DEF Relaying, Ensuring
    <3>. QED
      BY <1>6, <3>1, <3>2 DEF RelayOrder
  <2>2. RoomOrder'
    BY <1>1, <1>2, <1>6 DEF RoomOrder, Moving, Settled, Ensuring, Inserting, hostVars
  <2>3. GoneOrder'
    BY <1>2, <1>6 DEF GoneOrder, Ensuring, Inserting, hostVars
  <2>. QED
    BY <2>1, <2>2, <2>3
<1>7. l \in HandlerPc /\ epc[e] # "idle"
  BY DEF HandlerPc, Ensuring, Inserting
<1>. QED
  BY <1>2, <1>4, <1>5, <1>6, <1>7, StepInv DEF hostVars

LEMMA EnsureReadInv ==
  ASSUME Inv, NEW e \in Ensurer, UNCHANGED hostVars,
         EnsureRead(e, Desired) \/ EnsureCheck(e, "payload")
  PROVE  Inv'
<1>1. /\ UNCHANGED <<closing, active, rpc, stop, linked, queue, mine, printed, hostVars>>
      /\ \/ epc[e] = "read" /\ epc' = [epc EXCEPT ![e] = IF Desired THEN "check" ELSE "prune"]
         \/ /\ epc[e] = "check"
            /\ epc' = [epc EXCEPT ![e] = IF active = None THEN "subscribe" ELSE "payload"]
  BY DEF EnsureRead, EnsureCheck, Step, relayVars
<1>2. PICK l \in Ensuring \cup {"payload"} :
        /\ epc' = [epc EXCEPT ![e] = l] /\ l # "insert"
        /\ l = "check" => Desired
        /\ l = "prune" => ~Desired
        /\ l = "subscribe" => epc[e] = "check" /\ active = None
        /\ l = "payload" => epc[e] = "check"
  BY <1>1 DEF Ensuring, Inserting
<1>3. TypeOK'
  BY <1>1, <1>2 DEF Inv, TypeOK, BaseTypeOK, hostVars, HandlerPc, Ensuring, Inserting
<1>4. AliveInv'
  BY <1>1 DEF Inv, AliveInv
<1>5. epc[e] \in Ensuring
  BY <1>1 DEF Ensuring
<1>6. LoneInv(e) =>
        /\ l = "prune" => ~Desired
        /\ l \in {"check"} \cup Inserting => Desired
        /\ l \in Inserting => active' = None
        /\ l = "payload" => Desired \/ active' = None
  BY <1>1, <1>2 DEF LoneInv, Inserting
<1>7. RelayOrder => \A r \in Relay : Serving(r)' => active' = r
  BY <1>1 DEF RelayOrder, Serving
<1>. QED
  BY <1>1, <1>2, <1>3, <1>4, <1>5, <1>6, <1>7, EnsuringInv

LEMMA EnsurePruneInv ==
  ASSUME Inv, NEW e \in Ensurer, UNCHANGED hostVars, EnsurePrune(e, "payload")
  PROVE  Inv'
<1>1. /\ UNCHANGED <<closing, rpc, linked, queue, mine, printed, hostVars>>
      /\ active' = None /\ stop' = Stopped(active)
      /\ epc[e] = "prune" /\ epc' = [epc EXCEPT ![e] = "payload"]
  BY DEF EnsurePrune, Step
<1>2. TypeOK'
  BY <1>1, StoppedType DEF Inv, TypeOK, BaseTypeOK, hostVars, HandlerPc
<1>3. AliveInv'
  BY <1>1 DEF AliveInv
<1>4. RelayOrder => /\ \A r \in Relay : Serving(r)' => active' = r
                    /\ \A r \in Relay : rpc'[r] = "recv" => stop'[r]
  BY <1>1, EmptyMap DEF Inv
<1>5. epc[e] \in Ensuring
  BY <1>1 DEF Ensuring
<1>. QED
  BY <1>1, <1>2, <1>3, <1>4, <1>5, EnsuringInv DEF Inserting

LEMMA EnsureSubscribeInv ==
  ASSUME Inv, NEW e \in Ensurer, NEW r \in Relay, UNCHANGED hostVars, EnsureSubscribe(e, r)
  PROVE  Inv'
<1>1. /\ UNCHANGED <<closing, active, printed, hostVars>>
      /\ epc[e] = "subscribe" /\ epc' = [epc EXCEPT ![e] = "insert"]
      /\ rpc[r] = "free" /\ rpc' = [rpc EXCEPT ![r] = "made"]
      /\ stop' = [stop EXCEPT ![r] = FALSE]
      /\ linked' = [linked EXCEPT ![r] = TRUE] /\ queue' = [queue EXCEPT ![r] = 0]
      /\ mine' = [mine EXCEPT ![e] = r]
  BY DEF EnsureSubscribe, Step
<1>. TypeOK
  BY DEF Inv
<1>2. TypeOK'
  BY <1>1, CapacityAssumption DEF TypeOK, BaseTypeOK, hostVars, HandlerPc
<1>3. AliveInv'
  BY <1>1 DEF Inv, AliveInv, TypeOK, BaseTypeOK
<1>4. mine'[e] \in Relay /\ \A d \in Ensurer \ {e} : mine'[d] = mine[d]
  BY <1>1 DEF TypeOK, BaseTypeOK
<1>5. RelayOrder => \A q \in Relay : Serving(q)' => active' = q
  BY <1>1 DEF RelayOrder, Serving, TypeOK, BaseTypeOK
<1>6. \A q \in Relay : rpc'[q] = "recv" => rpc[q] = "recv" /\ stop'[q] = stop[q]
  BY <1>1 DEF TypeOK, BaseTypeOK
<1>7. LoneInv(e) => Desired /\ active' = None
  BY <1>1 DEF LoneInv, Inserting
<1>8. epc[e] \in Ensuring /\ "insert" \in Ensuring
  BY <1>1 DEF Ensuring, Inserting
<1>. QED
  BY <1>1, <1>2, <1>3, <1>4, <1>5, <1>6, <1>7, <1>8, EnsuringInv

LEMMA EnsureInsertInv ==
  ASSUME Inv, NEW e \in Ensurer, UNCHANGED hostVars, EnsureInsert(e, "payload")
  PROVE  Inv'
<1>1. /\ UNCHANGED <<closing, stop, linked, queue, printed, hostVars>>
      /\ epc[e] = "insert" /\ epc' = [epc EXCEPT ![e] = "payload"]
      /\ active' = mine[e] /\ rpc' = [rpc EXCEPT ![mine[e]] = "check"]
      /\ mine' = [mine EXCEPT ![e] = None]
  BY DEF EnsureInsert, Step
<1>. TypeOK
  BY DEF Inv
<1>2. mine[e] \in Relay
  BY <1>1 DEF Inv, JobInv
<1>3. TypeOK'
  BY <1>1, <1>2 DEF TypeOK, BaseTypeOK, hostVars, HandlerPc
<1>4. AliveInv'
  BY <1>1, <1>2 DEF AliveInv, TypeOK, BaseTypeOK
<1>5. \A d \in Ensurer \ {e} : mine'[d] = mine[d]
  BY <1>1 DEF TypeOK, BaseTypeOK
<1>6. LoneInv(e) => Desired /\ active = None
  BY <1>1 DEF LoneInv, Inserting
<1>7. RelayOrder /\ LoneInv(e) => \A q \in Relay : Serving(q)' => active' = q
  BY <1>1, <1>2, <1>6, RelayNoneAssumption DEF RelayOrder, Serving, TypeOK, BaseTypeOK
<1>8. \A q \in Relay : rpc'[q] = "recv" => rpc[q] = "recv" /\ stop'[q] = stop[q]
  BY <1>1, <1>2 DEF TypeOK, BaseTypeOK
<1>9. epc[e] \in Ensuring
  BY <1>1 DEF Ensuring, Inserting
<1>. QED
  BY <1>1, <1>3, <1>4, <1>5, <1>6, <1>7, <1>8, <1>9, EnsuringInv DEF Inserting

LEMMA SubscribeRefusedInv ==
  ASSUME Inv, NEW e \in Ensurer, SubscribeRefused(e)
  PROVE  Inv'
<1>1. /\ UNCHANGED <<closing, rpc, stop, linked, queue, mine, printed, hostVars>>
      /\ epc[e] = "subscribe" /\ epc' = [epc EXCEPT ![e] = "payload"]
      /\ active' = None
  BY DEF SubscribeRefused, Step
<1>2. TypeOK'
  BY <1>1 DEF Inv, TypeOK, BaseTypeOK, hostVars, HandlerPc
<1>3. AliveInv'
  BY <1>1 DEF AliveInv
<1>4. LoneInv(e) => active = None
  BY <1>1 DEF LoneInv, Inserting
<1>5. RelayOrder /\ LoneInv(e) => \A q \in Relay : Serving(q)' => active' = q
  BY <1>1, <1>4 DEF RelayOrder, Serving
<1>6. epc[e] \in Ensuring
  BY <1>1 DEF Ensuring, Inserting
<1>. QED
  BY <1>1, <1>2, <1>3, <1>5, <1>6, EnsuringInv DEF Inserting

-----------------------------------------------------------------------------
(* Telling the peers, and closing.                                         *)

LEMMA PayloadInv ==
  ASSUME Inv, NEW e \in Ensurer, Payload(e)
  PROVE  Inv'
<1>1. /\ epc[e] = "payload" /\ epc' = [epc EXCEPT ![e] = "emit"]
      /\ job' = [job EXCEPT ![e].set = Viewed]
      /\ UNCHANGED <<closing, active, rpc, stop, linked, queue, mine, printed, viewing, rooms,
                     here, inRoom, told, owned, requests, overlapped>>
  BY DEF Payload, Step, relayVars
<1>. TypeOK /\ JobInv /\ AliveInv /\ "emit" \in HandlerPc
  BY DEF Inv, HandlerPc
<1>2. job' \in [Ensurer -> Job]
  BY <1>1, ViewedType DEF TypeOK, Job
<1>3. TypeOK'
  BY <1>1, <1>2 DEF TypeOK, BaseTypeOK
<1>4. /\ epc'[e] = "emit" /\ job'[e].set = Viewed
      /\ \A d \in Ensurer : /\ job'[d].who = job[d].who /\ job'[d].kind = job[d].kind
                            /\ job'[d].shell = job[d].shell /\ job'[d].alone = job[d].alone
      /\ \A d \in Ensurer \ {e} : epc'[d] = epc[d]
  BY <1>1 DEF TypeOK, Job
<1>5. JobInv'
  BY <1>1, <1>4 DEF JobInv
<1>6. AliveInv'
  BY <1>1 DEF AliveInv
<1>7. Viewed' = Viewed /\ Desired' = Desired
  BY <1>1 DEF Viewed, Desired
<1>8. LoneInv(e) => LoneInv(e)'
  BY <1>1, <1>4, <1>7 DEF LoneInv, Joined, Inserting
<1>9. ASSUME RelayOrder, RoomOrder, GoneOrder,
             \A d \in Ensurer \ {e} : epc[d] = "idle" /\ epc'[d] = "idle"
      PROVE  RelayOrder' /\ RoomOrder' /\ GoneOrder'
  <2>1. RelayOrder'
    BY <1>1, <1>4, <1>7, <1>9 DEF RelayOrder, Serving, Relaying, Inserting
  <2>2. RoomOrder'
    BY <1>1, <1>4, <1>7, <1>9 DEF RoomOrder, Moving, Settled
  <2>3. GoneOrder'
    BY <1>1, <1>4, <1>9 DEF GoneOrder
  <2>. QED
    BY <2>1, <2>2, <2>3
<1>. QED
  BY <1>1, <1>3, <1>4, <1>5, <1>6, <1>8, <1>9, StepInv

LEMMA EmitInv ==
  ASSUME Inv, NEW e \in Ensurer, Emit(e)
  PROVE  Inv'
<1>1. /\ epc[e] = "emit" /\ epc' = [epc EXCEPT ![e] = "idle"]
      /\ told' = IF inRoom THEN job[e].set ELSE told
      /\ job' = [job EXCEPT ![e] = NoJob]
      /\ UNCHANGED <<closing, active, rpc, stop, linked, queue, mine, printed, viewing, rooms,
                     here, inRoom, owned, requests, overlapped>>
  BY DEF Emit, Step, relayVars
<1>. TypeOK /\ JobInv /\ AliveInv /\ "idle" \in HandlerPc
  BY DEF Inv, HandlerPc
<1>2. job' \in [Ensurer -> Job] /\ told' \subseteq Shell
  BY <1>1, NoJobType DEF TypeOK, Job
<1>3. TypeOK'
  BY <1>1, <1>2 DEF TypeOK, BaseTypeOK
<1>4. /\ epc'[e] = "idle" /\ job'[e] = NoJob
      /\ \A d \in Ensurer \ {e} : epc'[d] = epc[d] /\ job'[d] = job[d]
  BY <1>1 DEF TypeOK
<1>5. JobInv'
  BY <1>1, <1>4 DEF JobInv, NoJob
<1>6. AliveInv'
  BY <1>1 DEF AliveInv
<1>7. Viewed' = Viewed /\ Desired' = Desired
  BY <1>1 DEF Viewed, Desired
<1>8. LoneInv(e) => job[e].set = Viewed
  BY <1>1 DEF LoneInv
<1>9. ASSUME RelayOrder, RoomOrder, GoneOrder, LoneInv(e),
             \A d \in Ensurer \ {e} : epc[d] = "idle" /\ epc'[d] = "idle"
      PROVE  RelayOrder' /\ RoomOrder' /\ GoneOrder'
  <2>1. RelayOrder'
    BY <1>1, <1>4, <1>7, <1>9 DEF RelayOrder, Serving, Relaying, Inserting
  <2>2. RoomOrder'
    <3>1. inRoom' => told' = Viewed'
      BY <1>1, <1>7, <1>8, <1>9
    <3>. QED
      BY <1>1, <1>4, <1>9, <3>1 DEF RoomOrder, Moving
  <2>3. GoneOrder'
    BY <1>1, <1>4, <1>9 DEF GoneOrder
  <2>. QED
    BY <2>1, <2>2, <2>3
<1>. QED
  BY <1>1, <1>3, <1>4, <1>5, <1>6, <1>9, StepInv

LEMMA CloseDrainInv ==
  ASSUME Inv, NEW e \in Ensurer, CloseDrain(e)
  PROVE  Inv'
<1>1. /\ epc[e] = "drain" /\ epc' = [epc EXCEPT ![e] = "idle"]
      /\ active' = None /\ stop' = Stopped(active)
      /\ job' = [job EXCEPT ![e] = NoJob]
      /\ UNCHANGED <<closing, rpc, linked, queue, mine, printed, viewing, rooms,
                     here, inRoom, told, owned, requests, overlapped>>
  BY DEF CloseDrain, Step
<1>. TypeOK /\ JobInv /\ AliveInv /\ "idle" \in HandlerPc
  BY DEF Inv, HandlerPc
<1>2. job' \in [Ensurer -> Job]
  BY <1>1, NoJobType DEF TypeOK
<1>3. TypeOK'
  BY <1>1, <1>2, StoppedType DEF TypeOK, BaseTypeOK
<1>4. /\ epc'[e] = "idle" /\ job'[e] = NoJob
      /\ \A d \in Ensurer \ {e} : epc'[d] = epc[d] /\ job'[d] = job[d]
  BY <1>1 DEF TypeOK
<1>5. JobInv'
  BY <1>1, <1>4 DEF JobInv, NoJob
<1>6. AliveInv'
  BY <1>1 DEF AliveInv
<1>7. Viewed' = Viewed
  BY <1>1 DEF Viewed
<1>9. ASSUME RelayOrder, RoomOrder, GoneOrder,
             \A d \in Ensurer \ {e} : epc[d] = "idle" /\ epc'[d] = "idle"
      PROVE  RelayOrder' /\ RoomOrder' /\ GoneOrder'
  <2>1. RelayOrder'
    <3>1. /\ \A r \in Relay : Serving(r)' => active' = r
          /\ \A r \in Relay : rpc'[r] = "recv" => stop'[r]
      BY <1>1, <1>9, EmptyMap
    <3>. QED
      BY <1>1, <3>1 DEF RelayOrder
  <2>2. RoomOrder'
    BY <1>1, <1>4, <1>7, <1>9 DEF RoomOrder, Moving, Settled
  <2>3. GoneOrder'
    BY <1>1, <1>4, <1>9 DEF GoneOrder
  <2>. QED
    BY <2>1, <2>2, <2>3
<1>. QED
  BY <1>1, <1>3, <1>4, <1>5, <1>6, <1>9, StepInv

-----------------------------------------------------------------------------
(* The theorems.                                                           *)

\* The invariant holds in every reachable state of a host.
THEOREM HostInvariance == Spec => []Inv
<1>1. Init => Inv
  BY InitInv
<1>2. Inv /\ [Next]_vars => Inv'
  <2>. SUFFICES ASSUME Inv, [Next]_vars PROVE Inv'
    OBVIOUS
  <2>1. CASE UNCHANGED vars
    BY <2>1 DEF vars, baseVars, relayVars, hostVars, Inv, TypeOK, BaseTypeOK, SoleInv, JobInv,
                AliveInv, Alone, LoneInv, RelayOrder, RoomOrder, GoneOrder, Serving, Desired, Viewed
  <2>2. ASSUME NEW e \in Ensurer, Ensure(e) PROVE Inv'
    BY <2>2, EnsureReadInv, EnsurePruneInv, EnsureSubscribeInv, EnsureInsertInv DEF Ensure
  <2>3. ASSUME NEW e \in Ensurer, HandlerStep(e) PROVE Inv'
    BY <2>2, <2>3, CloseTestInv, SetShellInv, LeaveRoomInv, JoinRoomInv, SubscribeRefusedInv,
       PayloadInv, EmitInv, CloseDrainInv DEF HandlerStep
  <2>4. CASE Next
    BY <2>3, <2>4, BeginsInv, RelayInv, PeerLeavesInv, OutputInv DEF Next
  <2>. QED
    BY <2>1, <2>4
<1>. QED
  BY <1>1, <1>2, PTL DEF Spec

\* Every variable of a host keeps its type, the channels of its relays and the
\* handlers' requests stay within their bounds.
THEOREM HostTypeCorrect == Spec => []TypeOK
<1>1. Inv => TypeOK
  BY DEF Inv
<1>. QED
  BY <1>1, HostInvariance, PTL

\* The map of a host never holds the stopper of a relay that has ended, whatever
\* handlers run beside each other.
THEOREM HostActiveIsAliveAlways == Spec => []ActiveIsAlive
<1>1. Inv => ActiveIsAlive
  BY DEF Inv, AliveInv, ActiveIsAlive
<1>. QED
  BY <1>1, HostInvariance, PTL

\* A handler that runs while no other does leaves peers, map and rooms in line
\* with what browsers look at, whatever was left to it.
THEOREM SettlesWhenAloneAlways == Spec => []SettlesWhenAlone
<1>1. Inv => SettlesWhenAlone
  BY InvSettles
<1>. QED
  BY <1>1, HostInvariance, PTL

\* Without overlapping handlers no relay of a host is forgotten, and none that
\* nobody wants goes on unstopped.
THEOREM NoOrphanInOrderAlways == Spec => []NoOrphanInOrder
<1>1. Inv => NoOrphanInOrder
  BY InvSettles
<1>. QED
  BY <1>1, HostInvariance, PTL

\* Without overlapping handlers each browser is in the room of the shell it
\* looks at and in no other, and the peers know what is looked at.
THEOREM ViewsInOrderAlways == Spec => []ViewsInOrder
<1>1. Inv => ViewsInOrder
  BY InvSettles
<1>. QED
  BY <1>1, HostInvariance, PTL

-----------------------------------------------------------------------------
(* PeerOutputRelay: the same machinery with one thread that ensures, for   *)
(* any number of relays, any capacity and any number of messages.          *)

CONSTANT MaxWakes

VARIABLES wanted, changes, wakes, cpc, dpc

Peer == INSTANCE PeerOutputRelay

\* WakesAssumption and EnsurerAssumption of PeerOutputRelay.
WakesBounded == MaxWakes \in Nat \ {0}
OneEnsurer   == \A d, e \in Ensurer : d = e

\* From its look at the map to its insertion the only thread that inserts
\* finds the map empty: nobody else has filled it meanwhile, and the relay it
\* is about to enter has not been started.
PeerEnsureInv ==
  \A e \in Ensurer :
    /\ epc[e] \in {"subscribe", "insert"} => active = None
    /\ epc[e] = "insert" => mine[e] \in Relay /\ rpc[mine[e]] = "made"

\* Every wake on its way was left by connect, by a subscription message or by
\* disconnect.
PeerWakeInv ==
  wakes + (IF cpc = "wake" THEN 1 ELSE 0) <= 1 + changes + (IF dpc = "done" THEN 1 ELSE 0)

PeerInv ==
  /\ Peer!TypeOK /\ PeerEnsureInv /\ PeerWakeInv
  /\ Peer!NoOrphan /\ Peer!ActiveIsAlive

-----------------------------------------------------------------------------
LEMMA PeerInitInv == ASSUME WakesBounded PROVE Peer!Init => PeerInv
<1>. SUFFICES ASSUME Peer!Init PROVE PeerInv
  OBVIOUS
<1>. USE DEF Peer!Init, Peer!BaseInit
<1>1. Peer!TypeOK
  <2>1. Peer!BaseTypeOK
    <3>1. queue \in [Relay -> 0..Capacity] /\ printed \in 0..MaxChunks
      BY CapacityAssumption
    <3>. QED
      BY <3>1 DEF Peer!BaseTypeOK
  <2>2. wakes \in 0..(MaxWakes + 2) /\ changes \in 0..MaxWakes
    BY DEF WakesBounded
  <2>3. epc \in [Ensurer -> Peer!EnsurerPc]
    BY DEF Peer!EnsurerPc
  <2>. QED
    BY <2>1, <2>2, <2>3 DEF Peer!TypeOK
<1>2. PeerEnsureInv /\ PeerWakeInv
  BY DEF PeerEnsureInv, PeerWakeInv
<1>3. Peer!NoOrphan /\ Peer!ActiveIsAlive
  BY DEF Peer!NoOrphan, Peer!ActiveIsAlive, Peer!Serving
<1>. QED
  BY <1>1, <1>2, <1>3 DEF PeerInv

LEMMA PeerWakeBound ==
  ASSUME WakesBounded, NEW w \in Nat, NEW n \in Nat, n <= MaxWakes, NEW P, NEW Q,
         w + (IF P THEN 1 ELSE 0) <= 1 + n + (IF Q THEN 1 ELSE 0)
  PROVE  w \in 0..(MaxWakes + 2)
BY DEF WakesBounded

\* Messages, disconnecting and the spawn of the shell leave map, relays and
\* ensurer alone.
LEMMA PeerMessagesInv ==
  ASSUME WakesBounded, OneEnsurer, PeerInv,
         \/ Peer!Subscriptions \/ Peer!SubscriptionsWake
         \/ Peer!Disconnect \/ Peer!DisconnectWake
         \/ Peer!ShellSpawned
  PROVE  PeerInv'
<1>. USE DEF PeerInv, Peer!baseVars, Peer!relayVars
<1>0. UNCHANGED <<Peer!relayVars, epc, mine, printed>> /\ closing' \in BOOLEAN
  BY DEF Peer!Subscriptions, Peer!SubscriptionsWake, Peer!Disconnect,
         Peer!DisconnectWake, Peer!ShellSpawned, Peer!TypeOK, Peer!BaseTypeOK
<1>1. PeerWakeInv' /\ wakes' \in Nat /\ changes' \in 0..MaxWakes
  BY DEF WakesBounded, PeerWakeInv, Peer!TypeOK, Peer!Subscriptions,
         Peer!SubscriptionsWake, Peer!Disconnect, Peer!DisconnectWake,
         Peer!ShellSpawned
<1>2. /\ wanted' \in BOOLEAN /\ owned' \in BOOLEAN
      /\ cpc' \in {"idle", "wake"} /\ dpc' \in {"idle", "flagged", "done"}
  BY DEF Peer!TypeOK, Peer!Subscriptions, Peer!SubscriptionsWake, Peer!Disconnect,
         Peer!DisconnectWake, Peer!ShellSpawned
<1>3. wakes' \in 0..(MaxWakes + 2)
  <2>1. wakes' \in Nat /\ changes' \in Nat /\ changes' <= MaxWakes
    BY <1>1 DEF WakesBounded
  <2>. QED
    BY <1>1, <2>1, PeerWakeBound DEF PeerWakeInv
<1>4. Peer!TypeOK'
  BY <1>0, <1>1, <1>2, <1>3 DEF Peer!TypeOK, Peer!BaseTypeOK
<1>5. PeerEnsureInv'
  BY <1>0 DEF PeerEnsureInv
<1>6. Peer!NoOrphan' /\ Peer!ActiveIsAlive'
  BY <1>0 DEF Peer!NoOrphan, Peer!ActiveIsAlive, Peer!Serving
<1>. QED
  BY <1>1, <1>4, <1>5, <1>6

\* A chunk ends subscriptions but neither starts nor stops a relay.
LEMMA PeerOutputInv ==
  ASSUME WakesBounded, OneEnsurer, PeerInv, Peer!Output
  PROVE  PeerInv'
<1>. USE DEF PeerInv, Peer!Output, Peer!ShellPrints, Peer!peerVars
<1>1. Peer!TypeOK'
  <2>1. linked' \in [Relay -> BOOLEAN] /\ printed' \in 0..MaxChunks
    BY CapacityAssumption DEF Peer!TypeOK, Peer!BaseTypeOK
  <2>2. queue' \in [Relay -> 0..Capacity]
    <3>1. ASSUME NEW r \in Relay
          PROVE  (IF linked'[r] THEN queue[r] + 1 ELSE queue[r]) \in 0..Capacity
      <4>1. queue[r] \in 0..Capacity
        BY DEF Peer!TypeOK, Peer!BaseTypeOK
      <4>2. linked'[r] => queue[r] < Capacity
        OBVIOUS
      <4>. QED
        BY <4>1, <4>2, CapacityAssumption, SMT
    <3>. QED
      BY <3>1
  <2>. QED
    BY <2>1, <2>2 DEF Peer!TypeOK, Peer!BaseTypeOK
<1>2. PeerEnsureInv' /\ PeerWakeInv' /\ Peer!NoOrphan' /\ Peer!ActiveIsAlive'
  BY DEF PeerEnsureInv, PeerWakeInv, Peer!NoOrphan, Peer!ActiveIsAlive, Peer!Serving
<1>. QED
  BY <1>1, <1>2

-----------------------------------------------------------------------------
(* The steps of the ensurer.                                               *)

\* Whoever takes the stopper out of the map also uses it, so the map may be
\* emptied by anybody at any time.
LEMMA PeerEmptyMap ==
  ASSUME WakesBounded, OneEnsurer, PeerInv, active' = None, stop' = Peer!Stopped(active),
         \A r \in Relay : Peer!Serving(r)' => rpc[r] \in {"check", "recv"}
                                         /\ (stop[r] => stop'[r])
  PROVE  Peer!NoOrphan' /\ Peer!ActiveIsAlive'
<1>1. ASSUME NEW r \in Relay, Peer!Serving(r)' PROVE FALSE
  <2>1. ~stop'[r] /\ Peer!Serving(r)
    BY <1>1 DEF Peer!Serving
  <2>2. active = r
    BY <2>1 DEF PeerInv, Peer!NoOrphan
  <2>3. stop'[r]
    BY <2>2, RelayNoneAssumption
    DEF Peer!Stopped, PeerInv, Peer!TypeOK, Peer!BaseTypeOK
  <2>. QED
    BY <2>1, <2>3
<1>. QED
  BY <1>1 DEF Peer!NoOrphan, Peer!ActiveIsAlive

LEMMA PeerEnsurerInv ==
  ASSUME WakesBounded, OneEnsurer, PeerInv, NEW e \in Ensurer, Peer!EnsurerStep(e)
  PROVE  PeerInv'
<1>. USE DEF PeerInv, Peer!Step, Peer!peerVars, Peer!relayVars
<1>1. CASE Peer!LoopTop(e) \/ Peer!LoopWake(e) \/ Peer!SubscribeRefused(e)
           \/ (\E d \in BOOLEAN : Peer!EnsureRead(e, d) /\ UNCHANGED Peer!peerVars)
  <2>1. /\ UNCHANGED <<closing, Peer!relayVars, mine, printed, wanted, changes, cpc, dpc, owned>>
        /\ \E l \in {"drain", "wait", "read", "top", "check", "prune"} :
             epc' = [epc EXCEPT ![e] = l]
    BY <1>1 DEF Peer!LoopTop, Peer!LoopWake, Peer!SubscribeRefused, Peer!EnsureRead
  <2>2. wakes' = wakes \/ (wakes > 0 /\ wakes' = wakes - 1)
    BY <1>1 DEF Peer!LoopTop, Peer!LoopWake, Peer!SubscribeRefused, Peer!EnsureRead
  <2>3. Peer!TypeOK' /\ PeerWakeInv'
    BY <2>1, <2>2
    DEF WakesBounded, Peer!TypeOK, Peer!BaseTypeOK, Peer!EnsurerPc, PeerWakeInv
  <2>4. PeerEnsureInv'
    BY <2>1 DEF PeerEnsureInv, Peer!TypeOK
  <2>5. Peer!NoOrphan' /\ Peer!ActiveIsAlive'
    BY <2>1 DEF Peer!NoOrphan, Peer!ActiveIsAlive, Peer!Serving
  <2>. QED
    BY <2>3, <2>4, <2>5
<1>2. CASE Peer!LoopDrain(e) \/ (Peer!EnsurePrune(e, "top") /\ UNCHANGED Peer!peerVars)
  <2>1. /\ active' = None /\ stop' = Peer!Stopped(active)
        /\ UNCHANGED <<closing, rpc, linked, queue, mine, printed, Peer!peerVars>>
        /\ \E l \in {"done", "top"} : epc' = [epc EXCEPT ![e] = l]
    BY <1>2 DEF Peer!LoopDrain, Peer!EnsurePrune
  <2>2. stop' \in [Relay -> BOOLEAN] /\ \A r \in Relay : stop[r] => stop'[r]
    BY <2>1 DEF Peer!Stopped, Peer!TypeOK, Peer!BaseTypeOK
  <2>3. Peer!TypeOK' /\ PeerWakeInv'
    BY <2>1, <2>2 DEF Peer!TypeOK, Peer!BaseTypeOK, Peer!EnsurerPc, PeerWakeInv
  <2>4. PeerEnsureInv'
    BY <2>1 DEF PeerEnsureInv, Peer!TypeOK
  <2>5. Peer!NoOrphan' /\ Peer!ActiveIsAlive'
    BY <2>1, <2>2, PeerEmptyMap DEF Peer!Serving
  <2>. QED
    BY <2>3, <2>4, <2>5
<1>3. CASE Peer!EnsureCheck(e, "top") /\ UNCHANGED Peer!peerVars
  <2>1. /\ UNCHANGED <<closing, Peer!relayVars, mine, printed, Peer!peerVars>>
        /\ epc' = [epc EXCEPT ![e] = IF active = None THEN "subscribe" ELSE "top"]
    BY <1>3 DEF Peer!EnsureCheck
  <2>2. Peer!TypeOK' /\ PeerWakeInv'
    BY <2>1 DEF Peer!TypeOK, Peer!BaseTypeOK, Peer!EnsurerPc, PeerWakeInv
  <2>3. PeerEnsureInv'
    BY <2>1 DEF PeerEnsureInv, Peer!TypeOK
  <2>4. Peer!NoOrphan' /\ Peer!ActiveIsAlive'
    BY <2>1 DEF Peer!NoOrphan, Peer!ActiveIsAlive, Peer!Serving
  <2>. QED
    BY <2>2, <2>3, <2>4
<1>4. ASSUME NEW r \in Relay, Peer!EnsureSubscribe(e, r), UNCHANGED Peer!peerVars
      PROVE  PeerInv'
  <2>1. /\ UNCHANGED <<closing, active, printed, Peer!peerVars>>
        /\ epc[e] = "subscribe" /\ epc' = [epc EXCEPT ![e] = "insert"]
        /\ rpc[r] = "free" /\ rpc' = [rpc EXCEPT ![r] = "made"]
        /\ stop' = [stop EXCEPT ![r] = FALSE]
        /\ linked' = [linked EXCEPT ![r] = TRUE] /\ queue' = [queue EXCEPT ![r] = 0]
        /\ mine' = [mine EXCEPT ![e] = r]
    BY <1>4 DEF Peer!EnsureSubscribe
  <2>2. Peer!TypeOK' /\ PeerWakeInv'
    BY <2>1, CapacityAssumption
    DEF Peer!TypeOK, Peer!BaseTypeOK, Peer!EnsurerPc, PeerWakeInv
  <2>3. PeerEnsureInv'
    BY <2>1 DEF OneEnsurer, PeerEnsureInv, Peer!TypeOK, Peer!BaseTypeOK
  <2>4. Peer!NoOrphan' /\ Peer!ActiveIsAlive'
    BY <2>1
    DEF Peer!NoOrphan, Peer!ActiveIsAlive, Peer!Serving, Peer!TypeOK,
        Peer!BaseTypeOK
  <2>. QED
    BY <2>2, <2>3, <2>4
<1>5. CASE Peer!EnsureInsert(e, "top") /\ UNCHANGED Peer!peerVars
  <2>1. /\ UNCHANGED <<closing, stop, linked, queue, printed, Peer!peerVars>>
        /\ epc[e] = "insert" /\ epc' = [epc EXCEPT ![e] = "top"]
        /\ active' = mine[e] /\ rpc' = [rpc EXCEPT ![mine[e]] = "check"]
        /\ mine' = [mine EXCEPT ![e] = None]
    BY <1>5 DEF Peer!EnsureInsert
  <2>2. active = None /\ mine[e] \in Relay
    BY <2>1 DEF PeerEnsureInv
  <2>3. Peer!TypeOK' /\ PeerWakeInv'
    BY <2>1 DEF Peer!TypeOK, Peer!BaseTypeOK, Peer!EnsurerPc, PeerWakeInv
  <2>4. PeerEnsureInv'
    BY <2>1 DEF OneEnsurer, PeerEnsureInv, Peer!TypeOK
  <2>5. Peer!NoOrphan' /\ Peer!ActiveIsAlive'
    BY <2>1, <2>2, RelayNoneAssumption
    DEF Peer!NoOrphan, Peer!ActiveIsAlive, Peer!Serving, Peer!TypeOK,
        Peer!BaseTypeOK
  <2>. QED
    BY <2>3, <2>4, <2>5
<1>. QED
  <2>1. wanted \in BOOLEAN
    BY DEF Peer!TypeOK
  <2>. QED
    BY <2>1, <1>1, <1>2, <1>3, <1>4, <1>5 DEF Peer!EnsurerStep, Peer!Ensure

-----------------------------------------------------------------------------
(* The steps of a relay.                                                   *)

LEMMA PeerRelayInv ==
  ASSUME WakesBounded, OneEnsurer, PeerInv, NEW r \in Relay, Peer!RelayThread(r)
  PROVE  PeerInv'
<1>. USE DEF PeerInv, Peer!peerVars
<1>1. CASE Peer!RelayCheck(r) \/ Peer!RelayChunk(r) \/ Peer!RelayEnds(r)
  <2>1. /\ UNCHANGED <<closing, active, linked, epc, mine, printed, Peer!peerVars>>
        /\ rpc[r] \in {"check", "recv"}
        /\ \E l \in {"check", "recv", "clean"} : rpc' = [rpc EXCEPT ![r] = l]
        /\ stop' = stop \/ (rpc'[r] = "clean" /\ stop' = [stop EXCEPT ![r] = FALSE])
    BY <1>1
    DEF Peer!RelayThread, Peer!RelayCheck, Peer!RelayChunk, Peer!RelayEnds,
        Peer!TypeOK, Peer!BaseTypeOK
  <2>2. queue' \in [Relay -> 0..Capacity]
    <3>1. queue' = queue \/ (queue[r] > 0 /\ queue' = [queue EXCEPT ![r] = @ - 1])
      BY <1>1 DEF Peer!RelayCheck, Peer!RelayChunk, Peer!RelayEnds
    <3>. QED
      BY <3>1, CapacityAssumption DEF Peer!TypeOK, Peer!BaseTypeOK
  <2>3. Peer!TypeOK' /\ PeerWakeInv'
    BY <2>1, <2>2 DEF Peer!TypeOK, Peer!BaseTypeOK, PeerWakeInv
  <2>4. PeerEnsureInv'
    BY <2>1 DEF PeerEnsureInv, Peer!TypeOK, Peer!BaseTypeOK
  <2>5. Peer!NoOrphan'
    BY <2>1 DEF Peer!NoOrphan, Peer!Serving, Peer!TypeOK, Peer!BaseTypeOK
  <2>6. Peer!ActiveIsAlive'
    BY <2>1 DEF Peer!ActiveIsAlive, Peer!TypeOK, Peer!BaseTypeOK
  <2>. QED
    BY <2>3, <2>4, <2>5, <2>6
<1>2. CASE Peer!RelayClean(r)
  <2>1. /\ UNCHANGED <<closing, queue, epc, mine, printed, Peer!peerVars>>
        /\ rpc[r] = "clean" /\ rpc' = [rpc EXCEPT ![r] = "free"]
        /\ active' = None /\ stop' = Peer!Stopped(active)
        /\ linked' = [linked EXCEPT ![r] = FALSE]
    BY <1>2 DEF Peer!RelayThread, Peer!RelayClean
  <2>2. stop' \in [Relay -> BOOLEAN] /\ \A q \in Relay : stop[q] => stop'[q]
    BY <2>1 DEF Peer!Stopped, Peer!TypeOK, Peer!BaseTypeOK
  <2>3. Peer!TypeOK' /\ PeerWakeInv'
    BY <2>1, <2>2 DEF Peer!TypeOK, Peer!BaseTypeOK, PeerWakeInv
  <2>4. PeerEnsureInv'
    BY <2>1 DEF PeerEnsureInv, Peer!TypeOK, Peer!BaseTypeOK
  <2>5. \A q \in Relay : Peer!Serving(q)' => rpc[q] \in {"check", "recv"}
    BY <2>1 DEF Peer!Serving, Peer!TypeOK, Peer!BaseTypeOK
  <2>6. Peer!NoOrphan' /\ Peer!ActiveIsAlive'
    BY <2>1, <2>2, <2>5, PeerEmptyMap
  <2>. QED
    BY <2>3, <2>4, <2>6
<1>. QED
  BY <1>1, <1>2 DEF Peer!RelayThread, Peer!RelayStep

-----------------------------------------------------------------------------
(* The theorems.                                                           *)

\* The invariant holds in every reachable state of a peer.
THEOREM PeerInvariance ==
  ASSUME WakesBounded, OneEnsurer
  PROVE  Peer!Spec => []PeerInv
<1>1. Peer!Init => PeerInv
  BY PeerInitInv
<1>2. PeerInv /\ [Peer!Next]_Peer!vars => PeerInv'
  <2>. SUFFICES ASSUME PeerInv, [Peer!Next]_Peer!vars PROVE PeerInv'
    OBVIOUS
  <2>1. CASE UNCHANGED Peer!vars
    BY <2>1
    DEF Peer!vars, Peer!baseVars, Peer!relayVars, Peer!peerVars, PeerInv,
        Peer!TypeOK, Peer!BaseTypeOK, PeerEnsureInv, PeerWakeInv, Peer!NoOrphan,
        Peer!ActiveIsAlive, Peer!Serving
  <2>2. CASE Peer!Next
    BY <2>2, PeerMessagesInv, PeerOutputInv, PeerEnsurerInv, PeerRelayInv
    DEF Peer!Next
  <2>. QED
    BY <2>1, <2>2
<1>. QED
  BY <1>1, <1>2, PTL DEF Peer!Spec

\* Every variable of a peer keeps its type, the channels of its relays and
\* the wakes of its ensurer stay within their bounds.
THEOREM PeerTypeCorrect ==
  ASSUME WakesBounded, OneEnsurer
  PROVE  Peer!Spec => []Peer!TypeOK
<1>1. PeerInv => Peer!TypeOK
  BY DEF PeerInv
<1>. QED
  BY <1>1, PeerInvariance, PTL

\* No relay of a peer is forgotten: one that serves is the one whose stopper
\* the map holds, however many there are (start_output_relay is one thread).
THEOREM NoOrphanAlways ==
  ASSUME WakesBounded, OneEnsurer
  PROVE  Peer!Spec => []NoOrphan
<1>1. PeerInv => NoOrphan
  BY DEF PeerInv, Peer!NoOrphan, NoOrphan, Peer!Serving, Serving
<1>. QED
  BY <1>1, PeerInvariance, PTL

\* The map of a peer never holds the stopper of a relay that has ended.
THEOREM ActiveIsAliveAlways ==
  ASSUME WakesBounded, OneEnsurer
  PROVE  Peer!Spec => []ActiveIsAlive
<1>1. PeerInv => ActiveIsAlive
  BY DEF PeerInv, Peer!ActiveIsAlive, ActiveIsAlive
<1>. QED
  BY <1>1, PeerInvariance, PTL
=============================================================================
