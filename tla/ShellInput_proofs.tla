-------------------------- MODULE ShellInput_proofs --------------------------
(***************************************************************************)
(* Proofs about ShellInput, for any number of requests and peers and any   *)
(* room in the child's stdin.                                              *)
(***************************************************************************)
EXTENDS ShellInput, TLAPS

-----------------------------------------------------------------------------
(* The inductive invariant.                                                *)

Elements(s) == {s[i] : i \in 1..Len(s)}
Distinct(s) == \A i, j \in 1..Len(s) : s[i] = s[j] => i = j

\* The requests that a peer has still to handle.
Unread(p) == Elements(inbox[p])

\* Only the manager that owns the shell gets beyond the look at its input, and
\* only data is written.
ThreadInv ==
  /\ \A q \in Request :
       /\ pc[q] \in {"lock", "write", "accepted", "failed"} => owner = Host
       /\ pc[q] \in {"lock", "write"} => kind[q] = "data"
  /\ \A p \in Peer :
       /\ pc[p] \in Trying \cup Outcome \cup {"idle"}
       /\ pc[p] = "idle" <=> cur[p] = None
       /\ pc[p] \in Trying \cup {"accepted"} => owner = p
       /\ pc[p] \in {"lock", "write"} => kind[cur[p]] = "data"

\* A request reaches each peer at most once, and not before it is awaited.
InboxInv ==
  \A p \in Peer :
    /\ Distinct(inbox[p])
    /\ cur[p] \notin Unread(p)
    /\ \A q \in Request : q \in Unread(p) \/ cur[p] = q => pc[q] \in {"await", "done"}

\* The owner of the shell, if it is a peer, has the request before it.
Ahead(q) ==
  owner \in Peer /\ (q \in Unread(owner) \/ (cur[owner] = q /\ pc[owner] \in Trying))

\* What has not been tried, or was found to be unavailable in a pipe, was not
\* written; what is said to be accepted was.
EffectOf(q) ==
  /\ effects[q] \in {0, 1}
  /\ pc[q] \in Trying \cup {"idle", "called"} \/ Ahead(q) => effects[q] = 0
  /\ pc[q] = "unavailable" /\ (~pty \/ owner # Host) => effects[q] = 0
  /\ owner \notin Peer /\ ~pty /\ pc[q] = "await" => effects[q] = 0
  /\ pc[q] = "accepted" \/ answer[q] = "accepted" => effects[q] = 1
  /\ \A p \in Peer :
       /\ cur[p] = q /\ pc[p] = "accepted" => effects[q] = 1
       /\ acks[q][p] = "accepted" => effects[q] = 1
  /\ pc[q] # "done" => answer[q] = "none"

\* A peer that was not asked, or has let the host go on, neither wrote the
\* request nor will.
FallbackOf(q) ==
  /\ owner \in Peer /\ cur[owner] = q /\ pc[owner] = "unavailable" /\ ~pty => effects[q] = 0
  /\ pc[q] = "await" /\ owner \in Peer
     /\ \/ acks[q][owner] \in {"none", "fallback"}
        \/ acks[q][owner] = "taken" /\ ~errors[q]
     => ~Ahead(q) /\ (~pty => effects[q] = 0)
  /\ answer[q] = "not found" => ~Ahead(q) /\ (~pty => effects[q] = 0)

RequestInv == \A q \in Request : EffectOf(q) /\ FallbackOf(q)

\* An EOF that had an effect has taken the input, for good.
EofInv ==
  /\ \A q \in Request : kind[q] = "eof" /\ effects[q] = 1 => ~stdin
  /\ late # {} => ~stdin
  /\ \A q \in late :
       /\ effects[q] = 0 /\ pc[q] \notin {"lock", "write"}
       /\ \A p \in Peer : cur[p] = q => pc[p] \notin {"lock", "write"}

Inv == TypeOK /\ ThreadInv /\ InboxInv /\ RequestInv /\ EofInv

-----------------------------------------------------------------------------
(* An inbox is a sequence without repetitions; what matters is its set.    *)

LEMMA AppendDistinct ==
  ASSUME NEW s \in Seq(Request), NEW q \in Request, q \notin Elements(s), Distinct(s)
  PROVE  /\ Append(s, q) \in Seq(Request) /\ Distinct(Append(s, q))
         /\ Elements(Append(s, q)) = Elements(s) \cup {q}
<1>. DEFINE t == Append(s, q)
<1>1. /\ t \in Seq(Request) /\ Len(t) = Len(s) + 1 /\ Len(s) \in Nat
      /\ t[Len(s) + 1] = q /\ \A i \in 1..Len(s) : t[i] = s[i]
  OBVIOUS
<1>2. Distinct(t)
  <2>. SUFFICES ASSUME NEW i \in 1..Len(t), NEW j \in 1..Len(t), t[i] = t[j] PROVE i = j
    BY DEF Distinct
  <2>1. \A k \in 1..Len(s) : s[k] # q
    BY DEF Elements
  <2>2. i \in 1..Len(s) \/ i = Len(s) + 1
    BY <1>1
  <2>3. j \in 1..Len(s) \/ j = Len(s) + 1
    BY <1>1
  <2>. HIDE DEF t
  <2>. QED
    BY <1>1, <2>1, <2>2, <2>3 DEF Distinct
<1>3. Elements(t) = Elements(s) \cup {q}
  <2>1. 1..Len(t) = 1..Len(s) \cup {Len(s) + 1}
    BY <1>1
  <2>. HIDE DEF t
  <2>. QED
    BY <1>1, <2>1 DEF Elements
<1>. QED
  BY <1>1, <1>2, <1>3

LEMMA TailDistinct ==
  ASSUME NEW s \in Seq(Request), s # <<>>, Distinct(s)
  PROVE  /\ Head(s) \in Elements(s) /\ Head(s) \in Request
         /\ Tail(s) \in Seq(Request) /\ Distinct(Tail(s))
         /\ Elements(Tail(s)) = Elements(s) \ {Head(s)}
<1>. DEFINE t == Tail(s)
<1>1. /\ t \in Seq(Request) /\ Len(s) \in Nat /\ Len(s) > 0 /\ Len(t) = Len(s) - 1
      /\ Head(s) = s[1] /\ Head(s) \in Request /\ \A i \in 1..Len(t) : t[i] = s[i + 1]
  OBVIOUS
<1>. HIDE DEF t
<1>2. \A i \in 1..Len(t) : i + 1 \in 1..Len(s)
  BY <1>1
<1>3. Head(s) \in Elements(s)
  BY <1>1 DEF Elements
<1>4. Distinct(t)
  BY <1>1, <1>2 DEF Distinct
<1>5. Elements(t) = Elements(s) \ {Head(s)}
  <2>1. ASSUME NEW x \in Elements(t) PROVE x \in Elements(s) \ {Head(s)}
    <3>1. PICK i \in 1..Len(t) : x = t[i]
      BY DEF Elements
    <3>2. x = s[i + 1] /\ i + 1 \in 1..Len(s) /\ i + 1 # 1 /\ 1 \in 1..Len(s)
      BY <1>1, <1>2, <3>1
    <3>. QED
      BY <1>1, <3>2 DEF Elements, Distinct
  <2>2. ASSUME NEW x \in Elements(s), x # Head(s) PROVE x \in Elements(t)
    <3>1. PICK i \in 1..Len(s) : x = s[i]
      BY DEF Elements
    <3>2. i # 1
      BY <1>1, <2>2, <3>1
    <3>3. i - 1 \in 1..Len(t) /\ (i - 1) + 1 = i
      BY <1>1, <3>1, <3>2
    <3>4. t[i - 1] = x
      BY <1>1, <3>1, <3>3
    <3>. QED
      BY <3>3, <3>4 DEF Elements
  <2>. QED
    BY <2>1, <2>2
<1>. QED
  BY <1>1, <1>3, <1>4, <1>5 DEF t

LEMMA EmptyDistinct ==
  <<>> \in Seq(Request) /\ Distinct(<<>>) /\ Elements(<<>>) = {}
BY DEF Distinct, Elements

-----------------------------------------------------------------------------
LEMMA InitInv == Init => Inv
<1>. SUFFICES ASSUME Init PROVE Inv
  OBVIOUS
<1>. USE DEF Init
<1>1. TypeOK
  BY RoomAssumption, EmptyDistinct DEF TypeOK
<1>2. ThreadInv
  BY ThreadAssumption DEF ThreadInv, Thread, Trying
<1>3. \A p \in Peer : Unread(p) = {} /\ Distinct(inbox[p]) /\ cur[p] = None
  BY EmptyDistinct DEF Unread
<1>4. InboxInv
  BY <1>3, NameAssumption DEF InboxInv
<1>5. \A q \in Request : pc[q] = "idle" /\ ~Ahead(q)
  BY <1>3, NameAssumption DEF Ahead, Thread
<1>6. RequestInv
  BY <1>3, <1>5, NameAssumption DEF RequestInv, EffectOf, FallbackOf
<1>7. EofInv
  BY DEF EofInv
<1>. QED
  BY <1>1, <1>2, <1>4, <1>6, <1>7 DEF Inv

\* The child and the reactor.
LEMMA OutsideInv ==
  ASSUME Inv, ChildReads \/ ChildDies \/ ExitRecorded
  PROVE  Inv'
<1>1. /\ UNCHANGED <<owner, pty, stdin, lock, pc, workers, kind, joined, acks, errors, answer,
                     inbox, cur, effects, late>>
      /\ child' \in {"live", "dead"} /\ status' \in {"Running", "Exited"}
  BY DEF ChildReads, ChildDies, ExitRecorded, fixedVars, hostVars, peerVars, histVars, Inv, TypeOK
<1>2. unread' \in 0..Room
  <2>1. unread' = unread \/ (unread > 0 /\ unread' = unread - 1)
    BY DEF ChildReads, ChildDies, ExitRecorded
  <2>2. unread \in 0..Room
    BY DEF Inv, TypeOK
  <2>. QED
    BY <2>1, <2>2, RoomAssumption
<1>3. TypeOK'
  BY <1>1, <1>2 DEF Inv, TypeOK
<1>4. ThreadInv' /\ EofInv'
  BY <1>1 DEF Inv, ThreadInv, EofInv
<1>5. \A p \in Peer : Unread(p)' = Unread(p)
  BY <1>1 DEF Unread
<1>6. \A q \in Request : Ahead(q)' = Ahead(q)
  BY <1>1, <1>5 DEF Ahead
<1>7. InboxInv'
  BY <1>1, <1>5 DEF Inv, InboxInv
<1>8. RequestInv'
  BY <1>1, <1>6 DEF Inv, RequestInv, EffectOf, FallbackOf
<1>. QED
  BY <1>3, <1>4, <1>7, <1>8 DEF Inv

-----------------------------------------------------------------------------
(* Other requests than the one that a step is about.                       *)

Apart(r) ==
  /\ UNCHANGED <<owner, pty, pc[r], effects[r], answer[r], acks[r], errors[r]>>
  /\ Ahead(r)' => Ahead(r)
  /\ \A p \in Peer : cur'[p] = r => cur[p] = r /\ pc'[p] = pc[p]

LEMMA ApartInv ==
  ASSUME NEW r \in Request, EffectOf(r), FallbackOf(r), Apart(r)
  PROVE  EffectOf(r)' /\ FallbackOf(r)'
<1>1. EffectOf(r)'
  BY DEF Apart, EffectOf
<1>2. FallbackOf(r)'
  BY DEF Apart, FallbackOf
<1>. QED
  BY <1>1, <1>2

LEMMA RequestsInv ==
  ASSUME RequestInv, NEW q \in Request, EffectOf(q)', FallbackOf(q)',
         \A r \in Request \ {q} : Apart(r)
  PROVE  RequestInv'
<1>1. ASSUME NEW r \in Request, r # q PROVE EffectOf(r)' /\ FallbackOf(r)'
  BY <1>1, ApartInv DEF RequestInv
<1>. QED
  BY <1>1 DEF RequestInv

-----------------------------------------------------------------------------
(* The manager's part.                                                     *)

\* What a step of it does, in whichever thread, for the request q: the thread
\* goes on to l, and the request has had an effect when n is 1.
Effect(t, q, l, n) ==
  /\ pc[t] \in Trying /\ l \in (Trying \ {"local"}) \cup Outcome /\ n \in {0, 1}
  /\ pc' = [pc EXCEPT ![t] = l]
  /\ effects' \in [Request -> Nat] /\ effects'[q] = effects[q] + n
  /\ \A r \in Request \ {q} : effects'[r] = effects[r]
  /\ UNCHANGED <<owner, status, pty, child, hostVars, peerVars, late>>
  /\ l # "unavailable" => owner = ManagerOf(t)
  /\ l \in Trying => n = 0 /\ kind[q] = "data" /\ (pc[t] = "local" => stdin)
  /\ l = "accepted" => n = 1
  /\ l = "unavailable" /\ n = 1 => pty
  /\ n = 1 => /\ owner = ManagerOf(t)
              /\ (kind[q] = "eof" => ~stdin') /\ (pc[t] = "local" => stdin)
  /\ stdin' => stdin
  /\ stdin' \in BOOLEAN /\ lock' \in Thread \cup {None} /\ unread' \in 0..Room

\* Every step of it is of this kind.
LEMMA InputEffect ==
  ASSUME TypeOK, NEW t \in Thread, Input(t), Serves(t) \in Request,
         pc[t] \in {"lock", "write"} => owner = ManagerOf(t) /\ kind[Serves(t)] = "data"
  PROVE  \E l \in (Trying \ {"local"}) \cup Outcome, n \in {0, 1} : Effect(t, Serves(t), l, n)
<1>. DEFINE q == Serves(t)
<1>. USE DEF Goto, HasInput, fixedVars, shellVars, histVars
<1>. DEFINE Change(n) == /\ effects' \in [Request -> Nat] /\ effects'[q] = effects[q] + n
                         /\ \A r \in Request \ {q} : effects'[r] = effects[r]
<1>a. effects \in [Request -> Nat] /\ q \in Request /\ effects[q] \in Nat
  BY DEF TypeOK
<1>1. /\ effects' = effects => Change(0)
      /\ effects' = [effects EXCEPT ![q] = @ + 1] => Change(1)
  BY <1>a
<1>2. stdin \in BOOLEAN /\ lock \in Thread \cup {None} /\ unread \in 0..Room
  BY DEF TypeOK
<1>. HIDE DEF q
<1>3. CASE InputUnavailable(t)
  <2>1. Effect(t, q, "unavailable", 0)
    BY <1>1, <1>2, <1>3 DEF InputUnavailable, Effect, Trying, Outcome
  <2>. QED
    BY <2>1 DEF q, Outcome
<1>4. CASE WriteBegins(t)
  <2>1. Effect(t, q, "lock", 0)
    BY <1>1, <1>2, <1>4 DEF WriteBegins, Effect, Trying, Outcome, q
  <2>. QED
    BY <2>1 DEF q, Trying
<1>5. CASE WriteLocks(t)
  <2>1. Effect(t, q, "write", 0)
    BY <1>1, <1>2, <1>5 DEF WriteLocks, Effect, Trying, Outcome, q
  <2>. QED
    BY <2>1 DEF q, Trying
<1>6. CASE Write(t)
  <2>1. /\ pc[t] = "write" /\ lock' = None /\ stdin' = stdin
        /\ UNCHANGED <<owner, status, pty, child, hostVars, peerVars, late>>
        /\ owner = ManagerOf(t) /\ kind[q] = "data"
    BY <1>6 DEF Write, q
  <2>2. unread' \in 0..Room
    <3>1. unread' = unread \/ (unread < Room /\ unread' = unread + 1) \/ unread' = Room
      BY <1>6 DEF Write
    <3>. QED
      BY <1>2, <3>1, RoomAssumption
  <2>3. \E l \in Outcome, n \in {0, 1} :
          /\ pc' = [pc EXCEPT ![t] = l]
          /\ Change(n)
          /\ l = "accepted" => n = 1
          /\ l = "unavailable" /\ n = 1 => pty
    BY <1>1, <1>6 DEF Write, Outcome, q
  <2>4. PICK l \in Outcome, n \in {0, 1} :
          /\ pc' = [pc EXCEPT ![t] = l]
          /\ Change(n)
          /\ l = "accepted" => n = 1
          /\ l = "unavailable" /\ n = 1 => pty
    BY <2>3
  <2>5. Effect(t, q, l, n)
    BY <1>2, <2>1, <2>2, <2>4 DEF Effect, Trying, Outcome
  <2>. QED
    BY <2>5 DEF q
<1>7. CASE Eof(t)
  <2>1. PICK l \in {"accepted", "failed"} : pc' = [pc EXCEPT ![t] = l]
    BY <1>7 DEF Eof
  <2>2. Effect(t, q, l, 1)
    BY <1>1, <1>2, <1>7, <2>1 DEF Eof, Effect, Trying, Outcome, q
  <2>. QED
    BY <2>1, <2>2 DEF q, Outcome
<1>. QED
  BY <1>3, <1>4, <1>5, <1>6, <1>7 DEF Input

\* In a handler of the host.
LEMMA HandlerInputInv ==
  ASSUME Inv, NEW q \in Request, Input(q)
  PROVE  Inv'
<1>. /\ TypeOK /\ ThreadInv /\ InboxInv /\ RequestInv /\ EofInv
     /\ q \notin Peer /\ Serves(q) = q /\ ManagerOf(q) = Host /\ q \in Thread
     /\ EffectOf(q) /\ FallbackOf(q)
  BY ThreadAssumption DEF Inv, RequestInv, Serves, ManagerOf, Thread
<1>1. PICK l \in (Trying \ {"local"}) \cup Outcome, n \in {0, 1} : Effect(q, q, l, n)
  BY InputEffect DEF ThreadInv
<1>2. /\ pc'[q] = l /\ \A t \in Thread \ {q} : pc'[t] = pc[t]
      /\ effects[q] = 0 /\ effects'[q] = n /\ \A r \in Request \ {q} : effects'[r] = effects[r]
  <2>1. effects[q] = 0
    BY <1>1 DEF Effect, EffectOf
  <2>2. effects'[q] = effects[q] + n /\ \A r \in Request \ {q} : effects'[r] = effects[r]
    BY <1>1 DEF Effect
  <2>3. pc'[q] = l /\ \A t \in Thread \ {q} : pc'[t] = pc[t]
    BY <1>1 DEF Effect, TypeOK
  <2>. QED
    BY <2>1, <2>2, <2>3
<1>3. UNCHANGED <<owner, pty, workers, kind, joined, acks, errors, answer, inbox, cur, late>>
  BY <1>1 DEF Effect, fixedVars, hostVars, peerVars
<1>4. TypeOK'
  <2>1. pc' \in [Thread -> Trying \cup Outcome \cup {"idle", "called", "await", "done"}]
    BY <1>1 DEF Effect, TypeOK, Trying
  <2>2. effects' \in [Request -> Nat]
    BY <1>1 DEF Effect, TypeOK
  <2>. QED
    BY <1>1, <1>3, <2>1, <2>2 DEF Effect, TypeOK
<1>5. \A p \in Peer : p \in Thread \ {q} /\ Unread(p)' = Unread(p) /\ pc'[p] = pc[p]
  BY <1>2, <1>3 DEF Unread, Thread
<1>6. ThreadInv'
  BY <1>1, <1>2, <1>3, <1>5 DEF ThreadInv, Effect, Thread, Trying, Outcome
<1>7. InboxInv'
  BY <1>1, <1>2, <1>3, <1>5 DEF InboxInv, Thread, Effect, Trying
<1>8. ~Ahead(q) /\ \A r \in Request : Ahead(r)' = Ahead(r)
  BY <1>1, <1>2, <1>3, <1>5 DEF Ahead, InboxInv, Effect, Trying
<1>9. RequestInv'
  <2>1. \A r \in Request \ {q} : Apart(r)
    BY <1>2, <1>3, <1>5, <1>8 DEF Apart, Thread
  <2>2. /\ answer[q] = "none" /\ (n = 1 => owner = Host) /\ l \in Trying \cup Outcome
        /\ \A p \in Peer : cur[p] # q /\ acks[q][p] # "accepted"
    BY <1>1, <1>2 DEF EffectOf, InboxInv, Effect, Trying
  <2>3. /\ n \in {0, 1} /\ (l \in Trying => n = 0) /\ (l = "accepted" => n = 1)
        /\ (l = "unavailable" /\ n = 1 => pty)
    BY <1>1 DEF Effect
  <2>4. EffectOf(q)'
    BY <1>2, <1>3, <1>8, <2>2, <2>3, NameAssumption DEF EffectOf, Trying, Outcome
  <2>5. FallbackOf(q)'
    BY <1>2, <1>3, <2>2 DEF FallbackOf, Trying, Outcome
  <2>. QED
    BY <2>1, <2>4, <2>5, RequestsInv
<1>10. EofInv'
  <2>1. /\ n = 1 => (kind[q] = "eof" => ~stdin') /\ (pc[q] = "local" => stdin)
        /\ l \in Trying => n = 0 /\ (pc[q] = "local" => stdin)
        /\ (stdin' => stdin) /\ n \in {0, 1}
    BY <1>1 DEF Effect
  <2>2. q \in late => pc[q] \notin {"lock", "write"} /\ ~stdin
    BY DEF EofInv
  <2>3. \A r \in Request : r # q => r \in Thread \ {q}
    BY DEF Thread
  <2>4. pc[q] \in Trying
    BY <1>1 DEF Effect
  <2>. QED
    BY <1>2, <1>3, <1>5, <2>1, <2>2, <2>3, <2>4 DEF EofInv, Trying, TypeOK
<1>. QED
  BY <1>4, <1>6, <1>7, <1>9, <1>10 DEF Inv

\* In the callback of a peer, which owns the shell.
LEMMA PeerInputInv ==
  ASSUME Inv, NEW p \in Peer, Input(p)
  PROVE  Inv'
<1>. /\ TypeOK /\ ThreadInv /\ InboxInv /\ RequestInv /\ EofInv
     /\ p \notin Request /\ ManagerOf(p) = p /\ p \in Thread
  BY ThreadAssumption DEF Inv, ManagerOf, Thread
<1>0. pc[p] \in Trying /\ owner = p /\ cur[p] \in Request
  <2>1. pc[p] \in Trying
    BY DEF Input, InputUnavailable, WriteBegins, WriteLocks, Write, Eof, Trying
  <2>2. owner = p /\ cur[p] # None
    BY <2>1 DEF ThreadInv, Trying
  <2>3. cur[p] \in Request \cup {None}
    BY DEF TypeOK
  <2>. QED
    BY <2>1, <2>2, <2>3
<1>b. PICK q \in Request : q = cur[p]
  BY <1>0
<1>. Serves(p) = q /\ EffectOf(q) /\ FallbackOf(q)
  BY <1>b DEF Serves, RequestInv
<1>1. PICK l \in (Trying \ {"local"}) \cup Outcome, n \in {0, 1} : Effect(p, q, l, n)
  BY <1>0, <1>b, InputEffect DEF ThreadInv
<1>a. Ahead(q) /\ q \notin Unread(p) /\ pc[q] \in {"await", "done"} /\ cur[p] = q
  BY <1>0, <1>b DEF Ahead, InboxInv
<1>2. /\ pc'[p] = l /\ \A t \in Thread \ {p} : pc'[t] = pc[t]
      /\ effects[q] = 0 /\ effects'[q] = n /\ \A r \in Request \ {q} : effects'[r] = effects[r]
  <2>1. effects[q] = 0
    BY <1>a DEF EffectOf
  <2>2. effects'[q] = effects[q] + n /\ \A r \in Request \ {q} : effects'[r] = effects[r]
    BY <1>1 DEF Effect
  <2>3. pc'[p] = l /\ \A t \in Thread \ {p} : pc'[t] = pc[t]
    BY <1>1 DEF Effect, TypeOK
  <2>. QED
    BY <2>1, <2>2, <2>3
<1>3. UNCHANGED <<owner, pty, workers, kind, joined, acks, errors, answer, inbox, cur, late>>
  BY <1>1 DEF Effect, fixedVars, hostVars, peerVars
<1>4. TypeOK'
  <2>1. pc' \in [Thread -> Trying \cup Outcome \cup {"idle", "called", "await", "done"}]
    BY <1>1 DEF Effect, TypeOK, Trying
  <2>2. effects' \in [Request -> Nat]
    BY <1>1 DEF Effect, TypeOK
  <2>. QED
    BY <1>1, <1>3, <2>1, <2>2 DEF Effect, TypeOK
<1>5. /\ \A r \in Request : r \in Thread \ {p} /\ pc'[r] = pc[r]
      /\ \A o \in Peer : Unread(o)' = Unread(o) /\ (o # p => pc'[o] = pc[o])
  BY <1>2, <1>3 DEF Unread, Thread
<1>6. ThreadInv'
  <2>1. l \in (Trying \ {"local"}) \cup Outcome /\ (l \in Trying => kind[q] = "data")
    BY <1>1 DEF Effect
  <2>. QED
    BY <1>0, <1>2, <1>3, <1>5, <1>a, <2>1 DEF ThreadInv, Trying, Outcome
<1>7. InboxInv'
  BY <1>3, <1>5 DEF InboxInv
<1>8. RequestInv'
  <2>1. \A r \in Request \ {q} : Apart(r)
    BY <1>0, <1>2, <1>3, <1>5, <1>a DEF Apart, Ahead
  <2>2. /\ n \in {0, 1} /\ (l \in Trying => n = 0) /\ (l = "accepted" => n = 1)
        /\ (l = "unavailable" /\ n = 1 => pty)
    BY <1>1 DEF Effect
  <2>3. /\ \A o \in Peer : acks[q][o] # "accepted" /\ ~(cur[o] = q /\ pc[o] = "accepted")
        /\ answer[q] # "accepted" /\ answer[q] # "not found"
        /\ ~ (pc[q] = "await" /\ (\/ acks[q][p] \in {"none", "fallback"}
                                  \/ acks[q][p] = "taken" /\ ~errors[q]))
    <3>1. effects[q] # 1
      BY <1>2
    <3>2. \A o \in Peer : acks[q][o] # "accepted" /\ ~(cur[o] = q /\ pc[o] = "accepted")
      BY <3>1 DEF EffectOf
    <3>3. answer[q] # "accepted"
      BY <3>1 DEF EffectOf
    <3>. QED
      BY <1>0, <1>a, <3>2, <3>3 DEF FallbackOf
  <2>4. Ahead(q)' => n = 0
    BY <1>0, <1>2, <1>3, <1>5, <1>a, <2>2 DEF Ahead
  <2>5. EffectOf(q)'
    BY <1>0, <1>2, <1>3, <1>5, <1>a, <2>2, <2>3, <2>4 DEF EffectOf, Trying
  <2>6. FallbackOf(q)'
    BY <1>0, <1>2, <1>3, <1>5, <2>2, <2>3 DEF FallbackOf
  <2>. QED
    BY <1>0, <2>1, <2>5, <2>6, RequestsInv
<1>9. EofInv'
  <2>1. /\ n = 1 => (kind[q] = "eof" => ~stdin') /\ (pc[p] = "local" => stdin)
        /\ l \in Trying => n = 0 /\ (pc[p] = "local" => stdin)
        /\ (stdin' => stdin) /\ n \in {0, 1}
    BY <1>1 DEF Effect
  <2>2. q \in late => pc[p] = "local" /\ ~stdin
    BY <1>0, <1>a DEF EofInv, Trying
  <2>3. l \in {"lock", "write"} => l \in Trying
    BY DEF Trying
  <2>4. \A r \in late : r \in Request
    BY DEF TypeOK
  <2>5. \A r \in Request : kind'[r] = "eof" /\ effects'[r] = 1 => ~stdin'
    BY <1>2, <1>3, <2>1 DEF EofInv
  <2>6. late' # {} => ~stdin'
    BY <1>3, <2>1 DEF EofInv
  <2>7. ASSUME NEW r \in late
        PROVE  /\ effects'[r] = 0 /\ pc'[r] \notin {"lock", "write"}
               /\ \A o \in Peer : cur'[o] = r => pc'[o] \notin {"lock", "write"}
    <3>1. effects'[r] = 0
      BY <1>2, <2>1, <2>2, <2>4 DEF EofInv
    <3>2. pc'[r] \notin {"lock", "write"}
      BY <1>5, <2>4 DEF EofInv
    <3>3. ASSUME NEW o \in Peer, cur'[o] = r PROVE pc'[o] \notin {"lock", "write"}
      <4>1. CASE o = p
        BY <1>2, <1>3, <1>a, <2>1, <2>2, <2>3, <3>3, <4>1
      <4>2. CASE o # p
        BY <1>3, <1>5, <3>3, <4>2 DEF EofInv
      <4>. QED
        BY <4>1, <4>2
    <3>. QED
      BY <3>1, <3>2, <3>3
  <2>. QED
    BY <1>3, <2>5, <2>6, <2>7 DEF EofInv
<1>. QED
  BY <1>4, <1>6, <1>7, <1>8, <1>9 DEF Inv

-----------------------------------------------------------------------------
(* The host.                                                               *)

LEMMA CallInv ==
  ASSUME Inv, NEW q \in Request, Call(q)
  PROVE  Inv'
<1>. /\ TypeOK /\ ThreadInv /\ InboxInv /\ RequestInv /\ EofInv
     /\ q \notin Peer /\ q \in Thread /\ EffectOf(q) /\ FallbackOf(q)
  BY ThreadAssumption DEF Inv, RequestInv, Thread
<1>1. /\ pc[q] = "idle" /\ pc' = [pc EXCEPT ![q] = "called"]
      /\ late' = IF EofAccepted THEN late \cup {q} ELSE late
      /\ UNCHANGED <<owner, status, pty, stdin, child, unread, lock, workers, kind, joined, acks, errors,
                     answer, inbox, cur, effects>>
  BY DEF Call, Goto, shellVars, fixedVars, hostVars, peerVars
<1>2. /\ pc'[q] = "called" /\ \A r \in Request \ {q} : pc'[r] = pc[r]
      /\ \A p \in Peer : pc'[p] = pc[p] /\ Unread(p)' = Unread(p)
  BY <1>1 DEF TypeOK, Thread, Unread
<1>3. TypeOK'
  <2>1. pc' \in [Thread -> Trying \cup Outcome \cup {"idle", "called", "await", "done"}]
    BY <1>1 DEF TypeOK
  <2>2. late' \subseteq Request
    BY <1>1 DEF TypeOK
  <2>. QED
    BY <1>1, <2>1, <2>2 DEF TypeOK
<1>4. ThreadInv'
  BY <1>1, <1>2 DEF ThreadInv
<1>5. /\ InboxInv'
      /\ effects[q] = 0 /\ q \notin late' \ (late \cup {q}) /\ \A p \in Peer : cur[p] # q
  BY <1>1, <1>2 DEF InboxInv, EffectOf
<1>6. RequestInv'
  <2>1. \A r \in Request : Ahead(r)' = Ahead(r)
    BY <1>1, <1>2 DEF Ahead
  <2>2. \A r \in Request \ {q} : Apart(r)
    BY <1>1, <1>2, <2>1 DEF Apart
  <2>3. EffectOf(q)'
    BY <1>1, <1>2, <1>5, <2>1 DEF EffectOf, Trying
  <2>4. FallbackOf(q)'
    BY <1>1, <1>2, <2>1 DEF FallbackOf
  <2>. QED
    BY <2>2, <2>3, <2>4, RequestsInv
<1>7. EofInv'
  <2>1. EofAccepted => ~stdin
    BY DEF EofAccepted, RequestInv, EffectOf, EofInv
  <2>2. late \subseteq Request
    BY DEF TypeOK
  <2>. QED
    BY <1>1, <1>2, <1>5, <2>1, <2>2 DEF EofInv
<1>. QED
  BY <1>3, <1>4, <1>5, <1>6, <1>7 DEF Inv

LEMMA BeginInv ==
  ASSUME Inv, NEW q \in Request, Begin(q)
  PROVE  Inv'
<1>. /\ TypeOK /\ ThreadInv /\ InboxInv /\ RequestInv /\ EofInv
     /\ q \notin Peer /\ q \in Thread /\ EffectOf(q) /\ FallbackOf(q)
  BY ThreadAssumption DEF Inv, RequestInv, Thread
<1>1. /\ pc[q] = "called" /\ pc' = [pc EXCEPT ![q] = "local"]
      /\ UNCHANGED <<owner, status, pty, stdin, child, unread, lock, workers, kind, joined, acks,
                     errors, answer, inbox, cur, effects, late>>
  BY DEF Begin, Goto, shellVars, fixedVars, hostVars, peerVars, histVars
<1>2. /\ pc'[q] = "local" /\ \A r \in Request \ {q} : pc'[r] = pc[r]
      /\ \A p \in Peer : pc'[p] = pc[p] /\ Unread(p)' = Unread(p)
  BY <1>1 DEF TypeOK, Thread, Unread
<1>3. TypeOK'
  <2>1. pc' \in [Thread -> Trying \cup Outcome \cup {"idle", "called", "await", "done"}]
    BY <1>1 DEF TypeOK, Trying
  <2>. QED
    BY <1>1, <2>1 DEF TypeOK
<1>4. ThreadInv' /\ InboxInv'
  BY <1>1, <1>2 DEF ThreadInv, InboxInv
<1>5. RequestInv'
  <2>1. \A r \in Request : Ahead(r)' = Ahead(r)
    BY <1>1, <1>2 DEF Ahead
  <2>2. \A r \in Request \ {q} : Apart(r)
    BY <1>1, <1>2, <2>1 DEF Apart
  <2>3. EffectOf(q)'
    BY <1>1, <1>2, <2>1 DEF EffectOf, Trying
  <2>4. FallbackOf(q)'
    BY <1>1, <1>2, <2>1 DEF FallbackOf
  <2>. QED
    BY <2>2, <2>3, <2>4, RequestsInv
<1>6. EofInv'
  <2>1. late \subseteq Request
    BY DEF TypeOK
  <2>. QED
    BY <1>1, <1>2, <2>1 DEF EofInv
<1>. QED
  BY <1>3, <1>4, <1>5, <1>6 DEF Inv

\* The answer to a request is final.
LEMMA AnswerInv ==
  ASSUME Inv, NEW q \in Request, NEW a \in {"accepted", "conflict", "not found"},
         Answer(q, a), acks' = acks,
         pc[q] \in Outcome \cup {"await"},
         a = "accepted" => effects[q] = 1,
         a = "not found" => ~Ahead(q) /\ (~pty => effects[q] = 0)
  PROVE  Inv'
<1>. /\ TypeOK /\ ThreadInv /\ InboxInv /\ RequestInv /\ EofInv
     /\ q \notin Peer /\ q \in Thread /\ EffectOf(q) /\ FallbackOf(q)
  BY ThreadAssumption DEF Inv, RequestInv, Thread
<1>1. /\ pc' = [pc EXCEPT ![q] = "done"] /\ answer' = [answer EXCEPT ![q] = a]
      /\ UNCHANGED <<owner, status, pty, stdin, child, unread, lock, workers, kind, joined, acks, errors,
                     inbox, cur, effects, late>>
  BY DEF Answer, Goto, fixedVars, shellVars, peerVars, histVars
<1>2. /\ pc'[q] = "done" /\ \A r \in Request \ {q} : pc'[r] = pc[r]
      /\ \A p \in Peer : pc'[p] = pc[p] /\ Unread(p)' = Unread(p)
      /\ answer'[q] = a /\ \A r \in Request \ {q} : answer'[r] = answer[r]
  BY <1>1 DEF TypeOK, Thread, Unread
<1>3. TypeOK'
  <2>1. pc' \in [Thread -> Trying \cup Outcome \cup {"idle", "called", "await", "done"}]
    BY <1>1 DEF TypeOK
  <2>2. answer' \in [Request -> {"none", "accepted", "conflict", "not found"}]
    BY <1>1 DEF TypeOK
  <2>. QED
    BY <1>1, <2>1, <2>2 DEF TypeOK
<1>4. ThreadInv'
  <2>1. \A r \in Request : pc'[r] = pc[r] \/ pc'[r] = "done"
    BY <1>2
  <2>2. UNCHANGED <<owner, kind, cur>> /\ \A p \in Peer : pc'[p] = pc[p]
    BY <1>1, <1>2
  <2>. QED
    BY <2>1, <2>2 DEF ThreadInv
<1>5. InboxInv'
  <2>1. pc[q] \in {"await", "done"} => pc'[q] \in {"await", "done"}
    BY <1>2
  <2>2. UNCHANGED <<inbox, cur>>
    BY <1>1
  <2>. QED
    BY <1>2, <2>1, <2>2 DEF InboxInv
<1>6. RequestInv'
  <2>1. \A r \in Request : Ahead(r)' = Ahead(r)
    BY <1>1, <1>2 DEF Ahead
  <2>2. \A r \in Request \ {q} : Apart(r)
    BY <1>1, <1>2, <2>1 DEF Apart
  <2>3. EffectOf(q)'
    BY <1>1, <1>2, <2>1 DEF EffectOf, Trying
  <2>4. FallbackOf(q)'
    BY <1>1, <1>2, <2>1 DEF FallbackOf
  <2>. QED
    BY <2>2, <2>3, <2>4, RequestsInv
<1>7. EofInv'
  <2>1. late \subseteq Request
    BY DEF TypeOK
  <2>. QED
    BY <1>1, <1>2, <2>1 DEF EofInv
<1>. QED
  BY <1>3, <1>4, <1>5, <1>6, <1>7 DEF Inv

LEMMA AnswersInv ==
  ASSUME Inv, NEW q \in Request, AnswerLocally(q) \/ NoPeers(q) \/ GiveUp(q)
  PROVE  Inv'
<1>. /\ TypeOK /\ ThreadInv /\ InboxInv /\ EffectOf(q) /\ FallbackOf(q)
  BY DEF Inv, RequestInv
<1>1. CASE AnswerLocally(q)
  <2>1. CASE pc[q] = "accepted" /\ Answer(q, "accepted")
    BY <1>1, <2>1, AnswerInv DEF AnswerLocally, EffectOf, Outcome
  <2>2. CASE pc[q] = "failed" /\ Answer(q, "conflict")
    BY <1>1, <2>2, AnswerInv DEF AnswerLocally, Outcome
  <2>. QED
    BY <1>1, <2>1, <2>2 DEF AnswerLocally
<1>2. CASE NoPeers(q)
  <2>1. pc[q] = "unavailable" /\ Answer(q, "not found") /\ acks' = acks
    BY <1>2 DEF NoPeers
  <2>2. ~Ahead(q)
    BY <2>1 DEF Ahead, InboxInv
  <2>3. ~pty => effects[q] = 0
    BY <2>1 DEF EffectOf
  <2>. QED
    BY <2>1, <2>2, <2>3, AnswerInv DEF Outcome
<1>3. CASE GiveUp(q)
  <2>1. /\ pc[q] = "await" /\ acks' = acks /\ \A p \in Peer : acks[q][p] \in {"none", "taken"}
        /\ Answer(q, IF errors[q] THEN "conflict" ELSE "not found")
    BY <1>3 DEF GiveUp
  <2>2. CASE errors[q]
    BY <2>1, <2>2, AnswerInv
  <2>3. CASE ~errors[q]
    <3>1. ~Ahead(q) /\ (~pty => effects[q] = 0)
      BY <2>1, <2>3 DEF FallbackOf, EffectOf, Ahead
    <3>. QED
      BY <2>1, <2>3, <3>1, AnswerInv
  <2>. QED
    BY <2>2, <2>3
<1>. QED
  BY <1>1, <1>2, <1>3

LEMMA EmitInv ==
  ASSUME Inv, NEW q \in Request, Emit(q)
  PROVE  Inv'
<1>. /\ TypeOK /\ ThreadInv /\ InboxInv /\ RequestInv /\ EofInv
     /\ q \notin Peer /\ q \in Thread /\ EffectOf(q) /\ FallbackOf(q)
  BY ThreadAssumption DEF Inv, RequestInv, Thread
<1>1. /\ pc[q] = "unavailable" /\ pc' = [pc EXCEPT ![q] = "await"]
      /\ acks' = [acks EXCEPT ![q] = [p \in Peer |-> IF p \in joined THEN "sent" ELSE "none"]]
      /\ inbox' = [p \in Peer |-> IF p \in joined THEN Append(inbox[p], q) ELSE inbox[p]]
      /\ UNCHANGED <<owner, status, pty, stdin, child, unread, lock, workers, kind, joined, errors,
                     answer, cur, effects, late>>
  BY DEF Emit, Goto, fixedVars, shellVars, histVars
<1>2. /\ pc'[q] = "await" /\ \A r \in Request \ {q} : pc'[r] = pc[r] /\ acks'[r] = acks[r]
      /\ \A p \in Peer : pc'[p] = pc[p]
      /\ \A p \in Peer : acks'[q][p] = IF p \in joined THEN "sent" ELSE "none"
  BY <1>1 DEF TypeOK, Thread
<1>3. \A p \in Peer : q \notin Unread(p) /\ cur[p] # q
  BY <1>1 DEF InboxInv
<1>4. ASSUME NEW p \in Peer
      PROVE  /\ inbox'[p] \in Seq(Request) /\ Distinct(inbox'[p])
             /\ Unread(p)' = IF p \in joined THEN Unread(p) \cup {q} ELSE Unread(p)
  <2>1. inbox[p] \in Seq(Request) /\ Distinct(inbox[p]) /\ q \notin Elements(inbox[p])
    BY <1>3 DEF TypeOK, InboxInv, Unread
  <2>2. inbox'[p] = IF p \in joined THEN Append(inbox[p], q) ELSE inbox[p]
    BY <1>1
  <2>3. Unread(p)' = Elements(inbox'[p]) /\ Unread(p) = Elements(inbox[p])
    BY DEF Unread
  <2>. QED
    BY <2>1, <2>2, <2>3, AppendDistinct
<1>5. TypeOK'
  <2>1. acks' \in [Request -> [Peer -> {"none", "sent", "accepted", "fallback", "failed", "taken"}]]
    BY <1>1 DEF TypeOK
  <2>2. pc' \in [Thread -> Trying \cup Outcome \cup {"idle", "called", "await", "done"}]
    BY <1>1 DEF TypeOK
  <2>. QED
    BY <1>1, <1>4, <2>1, <2>2 DEF TypeOK
<1>6. ThreadInv'
  BY <1>1, <1>2 DEF ThreadInv
<1>7. InboxInv'
  BY <1>1, <1>2, <1>3, <1>4 DEF InboxInv
<1>8. RequestInv'
  <2>1. \A r \in Request \ {q} : Ahead(r)' => Ahead(r)
    BY <1>1, <1>2, <1>4 DEF Ahead
  <2>2. \A r \in Request \ {q} : Apart(r)
    BY <1>1, <1>2, <2>1 DEF Apart
  <2>3. Ahead(q)' => owner \in Peer /\ owner \in joined
    BY <1>1, <1>3, <1>4 DEF Ahead
  <2>4. answer[q] = "none"
    BY <1>1 DEF EffectOf
  <2>5. ~pty \/ owner # Host => effects[q] = 0
    BY <1>1 DEF EffectOf
  <2>6. EffectOf(q)'
    BY <1>1, <1>2, <1>3, <2>3, <2>4, <2>5, NameAssumption DEF EffectOf, Trying
  <2>7. FallbackOf(q)'
    BY <1>1, <1>2, <1>3, <2>3, <2>4, <2>5 DEF FallbackOf
  <2>. QED
    BY <2>2, <2>6, <2>7, RequestsInv
<1>9. EofInv'
  <2>1. late \subseteq Request
    BY DEF TypeOK
  <2>. QED
    BY <1>1, <1>2, <2>1 DEF EofInv
<1>. QED
  BY <1>5, <1>6, <1>7, <1>8, <1>9 DEF Inv

\* What the stream of acknowledgements yields, and what runs out of time.
LEMMA AwaitInv ==
  ASSUME Inv, NEW q \in Request, NEW p \in Peer, Timeout(q, p) \/ TakeAck(q, p)
  PROVE  Inv'
<1>. /\ TypeOK /\ ThreadInv /\ InboxInv /\ RequestInv /\ EofInv
     /\ EffectOf(q) /\ FallbackOf(q)
  BY DEF Inv, RequestInv
<1>1. CASE TakeAck(q, p) /\ acks[q][p] = "accepted"
  <2>1. pc[q] = "await" /\ Answer(q, "accepted") /\ acks' = acks /\ effects[q] = 1
    BY <1>1 DEF TakeAck, EffectOf
  <2>. QED
    BY <2>1, AnswerInv
<1>2. CASE ~(TakeAck(q, p) /\ acks[q][p] = "accepted")
  <2>1. PICK a \in {"failed", "taken"}, e \in BOOLEAN :
          /\ acks' = [acks EXCEPT ![q][p] = a]
          /\ errors' = [errors EXCEPT ![q] = e] /\ (errors[q] => e)
          /\ a = "taken" => acks[q][p] \in {"fallback", "failed"} /\ (acks[q][p] = "failed" => e)
    <3>1. CASE Timeout(q, p)
      <4>1. errors' = [errors EXCEPT ![q] = errors[q]] /\ errors[q] \in BOOLEAN
        BY <3>1 DEF Timeout, TypeOK
      <4>. QED
        BY <3>1, <4>1 DEF Timeout
    <3>2. CASE TakeAck(q, p)
      <4>. DEFINE e == errors[q] \/ acks[q][p] = "failed"
      <4>1. /\ acks' = [acks EXCEPT ![q][p] = "taken"] /\ errors' = [errors EXCEPT ![q] = e]
            /\ acks[q][p] \in {"fallback", "failed"}
        BY <1>2, <3>2 DEF TakeAck
      <4>2. e \in BOOLEAN
        OBVIOUS
      <4>. QED
        BY <4>1, <4>2
    <3>. QED
      BY <3>1, <3>2
  <2>2. UNCHANGED <<owner, status, pty, stdin, child, unread, lock, pc, workers, kind, joined, answer,
                    inbox, cur, effects, late>>
    BY <1>2 DEF Timeout, TakeAck, fixedVars, shellVars, peerVars, histVars
  <2>3. /\ acks'[q][p] = a /\ \A o \in Peer \ {p} : acks'[q][o] = acks[q][o]
        /\ errors'[q] = e
        /\ \A r \in Request \ {q} : acks'[r] = acks[r] /\ errors'[r] = errors[r]
    BY <2>1 DEF TypeOK
  <2>4. TypeOK'
    <3>1. acks' \in [Request -> [Peer -> {"none", "sent", "accepted", "fallback", "failed", "taken"}]]
      BY <2>1 DEF TypeOK
    <3>2. errors' \in [Request -> BOOLEAN]
      BY <2>1 DEF TypeOK
    <3>. QED
      BY <2>2, <3>1, <3>2 DEF TypeOK
  <2>5. ThreadInv' /\ EofInv'
    BY <2>2 DEF ThreadInv, EofInv
  <2>6. \A o \in Peer : Unread(o)' = Unread(o)
    BY <2>2 DEF Unread
  <2>7. InboxInv'
    BY <2>2, <2>6 DEF InboxInv
  <2>8. \A r \in Request : Ahead(r)' = Ahead(r)
    BY <2>2, <2>6 DEF Ahead
  <2>9. RequestInv'
    <3>1. \A r \in Request \ {q} : Apart(r)
      BY <2>2, <2>3, <2>8 DEF Apart
    <3>2. EffectOf(q)'
      BY <2>1, <2>2, <2>3, <2>8 DEF EffectOf
    <3>3. FallbackOf(q)'
      <4>1. CASE owner = p
        BY <2>1, <2>2, <2>3, <2>8, <4>1 DEF FallbackOf
      <4>2. CASE owner # p
        BY <2>1, <2>2, <2>3, <2>8, <4>2 DEF FallbackOf
      <4>. QED
        BY <4>1, <4>2
    <3>. QED
      BY <3>1, <3>2, <3>3, RequestsInv
  <2>. QED
    BY <2>4, <2>5, <2>7, <2>9 DEF Inv
<1>. QED
  BY <1>1, <1>2

-----------------------------------------------------------------------------
(* The peers.                                                              *)

LEMMA PeerLeavesInv ==
  ASSUME Inv, NEW p \in Peer, PeerLeaves(p)
  PROVE  Inv'
<1>. TypeOK /\ ThreadInv /\ InboxInv /\ RequestInv /\ EofInv
  BY DEF Inv
<1>1. /\ joined' = joined \ {p}
      /\ inbox' \in {inbox, [inbox EXCEPT ![p] = <<>>]}
      /\ UNCHANGED <<owner, status, pty, stdin, child, unread, lock, pc, workers, kind, acks, errors,
                     answer, cur, effects, late>>
  BY DEF PeerLeaves, fixedVars, shellVars, histVars
<1>2. ASSUME NEW o \in Peer
      PROVE  inbox'[o] \in Seq(Request) /\ Distinct(inbox'[o]) /\ Unread(o)' \subseteq Unread(o)
  <2>1. inbox'[o] = inbox[o] \/ inbox'[o] = <<>>
    BY <1>1 DEF TypeOK
  <2>2. inbox[o] \in Seq(Request) /\ Distinct(inbox[o])
    BY DEF TypeOK, InboxInv
  <2>3. Unread(o)' = Elements(inbox'[o]) /\ Unread(o) = Elements(inbox[o])
    BY DEF Unread
  <2>. QED
    BY <2>1, <2>2, <2>3, EmptyDistinct
<1>3. TypeOK'
  BY <1>1, <1>2 DEF TypeOK
<1>4. ThreadInv' /\ EofInv'
  BY <1>1 DEF ThreadInv, EofInv
<1>5. InboxInv'
  BY <1>1, <1>2 DEF InboxInv
<1>6. RequestInv'
  <2>1. \A r \in Request : Ahead(r)' => Ahead(r)
    BY <1>1, <1>2 DEF Ahead
  <2>2. \A r \in Request : Apart(r)
    BY <1>1, <2>1 DEF Apart
  <2>3. \A r \in Request : EffectOf(r)' /\ FallbackOf(r)'
    BY <2>2, ApartInv DEF RequestInv
  <2>. QED
    BY <2>3 DEF RequestInv
<1>. QED
  BY <1>3, <1>4, <1>5, <1>6 DEF Inv

LEMMA PeerBeginsInv ==
  ASSUME Inv, NEW p \in Peer, PeerBegins(p)
  PROVE  Inv'
<1>. /\ TypeOK /\ ThreadInv /\ InboxInv /\ RequestInv /\ EofInv
     /\ p \notin Request /\ p \in Thread
  BY ThreadAssumption DEF Inv, Thread
<1>. DEFINE l == IF owner # p THEN "unavailable"
                 ELSE IF status = "Running" THEN "local" ELSE "failed"
<1>0. inbox[p] \in Seq(Request) /\ Distinct(inbox[p]) /\ inbox[p] # <<>>
  BY DEF TypeOK, InboxInv, PeerBegins
<1>1. PICK q \in Request : q = Head(inbox[p])
  BY <1>0, TailDistinct
<1>2. /\ pc[p] = "idle" /\ pc' = [pc EXCEPT ![p] = l]
      /\ cur' = [cur EXCEPT ![p] = q]
      /\ inbox' = [inbox EXCEPT ![p] = Tail(@)]
      /\ UNCHANGED <<owner, status, pty, stdin, child, unread, lock, workers, kind, joined, acks, errors,
                     answer, effects, late>>
  BY <1>1 DEF PeerBegins, Goto, shellVars, fixedVars, hostVars, histVars
<1>3. /\ l \in {"unavailable", "local", "failed"} /\ (l = "unavailable" <=> owner # p)
      /\ pc'[p] = l /\ \A t \in Thread \ {p} : pc'[t] = pc[t]
      /\ cur'[p] = q /\ \A o \in Peer \ {p} : cur'[o] = cur[o]
      /\ \A r \in Request : pc'[r] = pc[r]
      /\ \A o \in Peer \ {p} : pc'[o] = pc[o]
  BY <1>2 DEF TypeOK, Thread
<1>. HIDE DEF l
<1>4. q \in Unread(p) /\ pc[q] \in {"await", "done"}
  <2>1. q \in Unread(p)
    BY <1>0, <1>1, TailDistinct DEF Unread
  <2>. QED
    BY <2>1 DEF InboxInv
<1>5. ASSUME NEW o \in Peer
      PROVE  /\ inbox'[o] \in Seq(Request) /\ Distinct(inbox'[o])
             /\ Unread(o)' = IF o = p THEN Unread(p) \ {q} ELSE Unread(o)
  <2>1. inbox[o] \in Seq(Request) /\ Distinct(inbox[o])
    BY DEF TypeOK, InboxInv
  <2>2. inbox'[o] = IF o = p THEN Tail(inbox[p]) ELSE inbox[o]
    BY <1>2 DEF TypeOK
  <2>3. Unread(o)' = Elements(inbox'[o]) /\ Unread(o) = Elements(inbox[o])
    BY DEF Unread
  <2>. QED
    BY <1>0, <1>1, <2>1, <2>2, <2>3, TailDistinct
<1>6. TypeOK'
  <2>1. pc' \in [Thread -> Trying \cup Outcome \cup {"idle", "called", "await", "done"}]
    BY <1>2, <1>3 DEF TypeOK, Trying, Outcome
  <2>2. cur' \in [Peer -> Request \cup {None}]
    BY <1>2 DEF TypeOK
  <2>. QED
    BY <1>2, <1>5, <2>1, <2>2 DEF TypeOK
<1>7. ThreadInv'
  <2>1. \A r \in Request : pc'[r] = pc[r]
    BY <1>3
  <2>2. q # None
    BY NameAssumption
  <2>. QED
    BY <1>2, <1>3, <2>1, <2>2 DEF ThreadInv, Trying, Outcome
<1>8. InboxInv'
  <2>1. ASSUME NEW o \in Peer \ {p}
        PROVE  /\ Distinct(inbox[o])' /\ cur'[o] \notin Unread(o)'
               /\ \A r \in Request : r \in Unread(o)' \/ cur'[o] = r => pc'[r] \in {"await", "done"}
    BY <1>3, <1>5 DEF InboxInv
  <2>2. /\ Distinct(inbox[p])' /\ cur'[p] \notin Unread(p)'
        /\ \A r \in Request : r \in Unread(p)' \/ cur'[p] = r => pc'[r] \in {"await", "done"}
    BY <1>3, <1>4, <1>5 DEF InboxInv
  <2>. QED
    BY <2>1, <2>2 DEF InboxInv
<1>9. RequestInv'
  <2>0. EffectOf(q) /\ FallbackOf(q)
    BY DEF RequestInv
  <2>1. \A r \in Request \ {q} : Ahead(r)' => Ahead(r)
    BY <1>2, <1>3, <1>5 DEF Ahead
  <2>2. \A r \in Request \ {q} : Apart(r)
    BY <1>2, <1>3, <2>1 DEF Apart
  <2>3. Ahead(q)' => Ahead(q)
    BY <1>2, <1>3, <1>4, <1>5 DEF Ahead
  <2>4. EffectOf(q)'
    BY <1>2, <1>3, <1>4, <2>0, <2>3 DEF EffectOf
  <2>5. FallbackOf(q)'
    BY <1>2, <1>3, <1>4, <2>0, <2>3 DEF FallbackOf
  <2>. QED
    BY <2>2, <2>4, <2>5, RequestsInv
<1>10. EofInv'
  <2>1. late \subseteq Request
    BY DEF TypeOK
  <2>2. \A r \in late : effects'[r] = 0 /\ pc'[r] \notin {"lock", "write"}
    BY <1>2, <1>3, <2>1 DEF EofInv
  <2>3. \A r \in late, o \in Peer : cur'[o] = r => pc'[o] \notin {"lock", "write"}
    BY <1>2, <1>3, <2>1 DEF EofInv
  <2>. QED
    BY <1>2, <2>2, <2>3 DEF EofInv
<1>. QED
  BY <1>6, <1>7, <1>8, <1>9, <1>10 DEF Inv

LEMMA PeerAcknowledgesInv ==
  ASSUME Inv, NEW p \in Peer, PeerAcknowledges(p)
  PROVE  Inv'
<1>. /\ TypeOK /\ ThreadInv /\ InboxInv /\ RequestInv /\ EofInv
     /\ p \notin Request /\ p \in Thread
  BY ThreadAssumption DEF Inv, Thread
<1>0. pc[p] \in Outcome /\ cur[p] \in Request
  <2>1. pc[p] \in Outcome
    BY DEF PeerAcknowledges, Outcome
  <2>2. cur[p] # None
    BY <2>1 DEF ThreadInv, Outcome
  <2>3. cur[p] \in Request \cup {None}
    BY DEF TypeOK
  <2>. QED
    BY <2>1, <2>2, <2>3
<1>1. PICK q \in Request : q = cur[p]
  BY <1>0
<1>2. PICK response \in Response(pc[p]) :
        acks' = IF p \in joined /\ acks[q][p] = "sent" /\ pc[q] = "await"
                THEN [acks EXCEPT ![q][p] = response] ELSE acks
  BY <1>1 DEF PeerAcknowledges
<1>3. /\ cur' = [cur EXCEPT ![p] = None] /\ pc' = [pc EXCEPT ![p] = "idle"]
      /\ UNCHANGED <<owner, status, pty, stdin, child, unread, lock, workers, kind, joined, errors, answer,
                     inbox, effects, late>>
  BY DEF PeerAcknowledges, Goto, fixedVars, shellVars, histVars
<1>4. /\ pc'[p] = "idle" /\ cur'[p] = None /\ None \notin Request
      /\ \A o \in Peer \ {p} : pc'[o] = pc[o] /\ cur'[o] = cur[o]
      /\ \A r \in Request : pc'[r] = pc[r]
      /\ \A r \in Request \ {q} : acks'[r] = acks[r]
      /\ \A o \in Peer \ {p} : acks'[q][o] = acks[q][o]
      /\ acks'[q][p] \in {acks[q][p], response}
      /\ \A o \in Peer : Unread(o)' = Unread(o)
  BY <1>2, <1>3, NameAssumption DEF TypeOK, Thread, Unread
<1>5. /\ response \in {"accepted", "fallback", "failed"}
      /\ response = "accepted" <=> pc[p] = "accepted"
      /\ response = "fallback" => pc[p] = "unavailable"
  BY <1>0 DEF Response, Outcome
<1>6. TypeOK'
  <2>1. acks' \in [Request -> [Peer -> {"none", "sent", "accepted", "fallback", "failed", "taken"}]]
    BY <1>2, <1>5 DEF TypeOK
  <2>2. pc' \in [Thread -> Trying \cup Outcome \cup {"idle", "called", "await", "done"}]
    BY <1>3 DEF TypeOK
  <2>3. cur' \in [Peer -> Request \cup {None}]
    BY <1>3 DEF TypeOK
  <2>. QED
    BY <1>3, <2>1, <2>2, <2>3 DEF TypeOK
<1>7. ThreadInv'
  BY <1>3, <1>4 DEF ThreadInv, Trying, Outcome
<1>8. InboxInv'
  <2>1. Unread(p) \subseteq Request
    <3>1. inbox[p] \in Seq(Request)
      BY DEF TypeOK
    <3>. QED
      BY <3>1 DEF Unread, Elements
  <2>2. \A o \in Peer : Distinct(inbox[o])'
    BY <1>3 DEF InboxInv
  <2>. QED
    BY <1>4, <2>1, <2>2 DEF InboxInv
<1>9. RequestInv'
  <2>0. EffectOf(q) /\ FallbackOf(q) /\ q \notin Unread(p)
    BY <1>1 DEF RequestInv, InboxInv
  <2>1. \A r \in Request : Ahead(r)' => Ahead(r)
    BY <1>3, <1>4 DEF Ahead
  <2>2. \A r \in Request \ {q} : Apart(r)
    BY <1>3, <1>4, <2>1 DEF Apart
  <2>3. pc[p] = "accepted" => effects[q] = 1
    BY <1>1, <2>0 DEF EffectOf
  <2>4. EffectOf(q)'
    BY <1>3, <1>4, <1>5, <2>0, <2>1, <2>3 DEF EffectOf
  <2>5. FallbackOf(q)'
    <3>1. CASE owner = p
      <4>1. ~Ahead(q)'
        BY <1>3, <1>4, <2>0, <3>1 DEF Ahead
      <4>2. response = "fallback" /\ ~pty => effects[q] = 0
        BY <1>1, <1>5, <2>0, <3>1 DEF FallbackOf
      <4>. QED
        BY <1>3, <1>4, <1>5, <2>0, <3>1, <4>1, <4>2 DEF FallbackOf
    <3>2. CASE owner # p
      BY <1>3, <1>4, <2>0, <2>1, <3>2 DEF FallbackOf
    <3>. QED
      BY <3>1, <3>2
  <2>. QED
    BY <2>2, <2>4, <2>5, RequestsInv
<1>10. EofInv'
  <2>1. late \subseteq Request
    BY DEF TypeOK
  <2>. QED
    BY <1>3, <1>4, <2>1 DEF EofInv
<1>. QED
  BY <1>6, <1>7, <1>8, <1>9, <1>10 DEF Inv

-----------------------------------------------------------------------------
(* The theorems.                                                           *)

LEMMA NextInv == Inv /\ [Next]_vars => Inv'
<1>. SUFFICES ASSUME Inv, [Next]_vars PROVE Inv'
  OBVIOUS
<1>1. CASE ChildReads \/ ChildDies \/ ExitRecorded
  BY <1>1, OutsideInv
<1>2. ASSUME NEW q \in Request, Call(q) \/ Handle(q) PROVE Inv'
  BY <1>2, CallInv, BeginInv, HandlerInputInv, AnswersInv, EmitInv, AwaitInv DEF Handle
<1>3. ASSUME NEW p \in Peer, PeerLeaves(p) \/ Callback(p) PROVE Inv'
  BY <1>3, PeerLeavesInv, PeerInputInv, PeerBeginsInv, PeerAcknowledgesInv DEF Callback
<1>4. CASE UNCHANGED vars
  <2>1. UNCHANGED <<owner, status, pty, stdin, child, unread, lock, pc, workers, kind, joined, acks,
                    errors, answer, inbox, cur, effects, late>>
    BY <1>4 DEF vars, shellVars, fixedVars, hostVars, peerVars, histVars
  <2>2. \A p \in Peer : Unread(p)' = Unread(p)
    BY <2>1 DEF Unread
  <2>3. \A q \in Request : Ahead(q)' = Ahead(q)
    BY <2>1, <2>2 DEF Ahead
  <2>4. TypeOK' /\ ThreadInv' /\ EofInv'
    BY <2>1 DEF Inv, TypeOK, ThreadInv, EofInv
  <2>5. InboxInv'
    BY <2>1, <2>2 DEF Inv, InboxInv
  <2>6. RequestInv'
    BY <2>1, <2>3 DEF Inv, RequestInv, EffectOf, FallbackOf
  <2>. QED
    BY <2>4, <2>5, <2>6 DEF Inv
<1>. QED
  BY <1>1, <1>2, <1>3, <1>4 DEF Next

\* Inv holds in every reachable state.
THEOREM InputInvariance == Spec => []Inv
BY InitInv, NextInv, PTL DEF Spec

\* The variables have their types: a thread stands where its code has a place,
\* and no more input is in the pipe than fits (write_shell_input_control,
\* acknowledge_peer_request).
THEOREM InputTypeCorrect == Spec => []TypeOK
<1>1. Inv => TypeOK
  BY DEF Inv
<1>. QED
  BY <1>1, InputInvariance, PTL

\* Whatever is lost, late or retried, a request that is tried by the host and
\* then by its peers is written at most once (write_shell_input_control,
\* call_peer_shell_input).
THEOREM AtMostOnceAlways == Spec => []AtMostOnce
<1>1. Inv => AtMostOnce
  <2>. SUFFICES ASSUME Inv, NEW q \in Request PROVE effects[q] <= 1
    BY DEF AtMostOnce
  <2>1. effects[q] \in {0, 1}
    BY DEF Inv, RequestInv, EffectOf
  <2>. QED
    BY <2>1
<1>. QED
  BY <1>1, InputInvariance, PTL

\* An answer can be relied upon: what was accepted was written, and what nobody
\* has live input for was not and never will be
\* (parse_peer_response_value, local_input_error_can_fallback).
THEOREM AnswersHoldAlways == Spec => []AnswersHold
<1>1. Inv => AnswersHold
  BY DEF Inv, RequestInv, EffectOf, FallbackOf, AnswersHold
<1>. QED
  BY <1>1, InputInvariance, PTL

\* Input that is sent after an EOF was accepted has no effect, whichever manager
\* owns the shell (send_stdin_eof_blocking).
THEOREM NothingAfterEofAlways == Spec => []NothingAfterEof
<1>1. Inv => NothingAfterEof
  BY DEF Inv, EofInv, NothingAfterEof
<1>. QED
  BY <1>1, InputInvariance, PTL
==============================================================================
