---------------------- MODULE OutputSubscriptions_proofs ----------------------
(***************************************************************************)
(* Proofs about OutputSubscriptions, for any streams, subscriptions and    *)
(* sizes of channels and batches.                                          *)
(***************************************************************************)
EXTENDS OutputSubscriptions, FiniteSetTheorems, WellFoundedInduction, TLAPS

-----------------------------------------------------------------------------
(* Queues of subscribers, none of which is in a queue twice.               *)

Distinct(q) == \A i, j \in 1..Len(q) : q[i] = q[j] => i = j

LEMMA EmptyQueue == ToSet(<<>>) = {} /\ Distinct(<<>>)
BY DEF ToSet, Distinct

LEMMA AppendQueue ==
  ASSUME NEW S, NEW q \in Seq(S), NEW s \in S
  PROVE  /\ Append(q, s) \in Seq(S)
         /\ ToSet(Append(q, s)) = ToSet(q) \cup {s}
         /\ Distinct(q) /\ s \notin ToSet(q) => Distinct(Append(q, s))
<1>. DEFINE r == Append(q, s)
<1>1. /\ r \in Seq(S) /\ Len(q) \in Nat /\ Len(r) = Len(q) + 1
      /\ r[Len(q) + 1] = s /\ \A i \in 1..Len(q) : r[i] = q[i]
  OBVIOUS
<1>. HIDE DEF r
<1>2. ToSet(q) = {q[i] : i \in 1..Len(q)} /\ ToSet(r) = {r[i] : i \in 1..Len(r)}
  BY <1>1 DEF ToSet
<1>3. \A i \in 1..Len(r) : i \in 1..Len(q) \/ i = Len(q) + 1
  BY <1>1
<1>4. 1..Len(q) \subseteq 1..Len(r) /\ Len(q) + 1 \in 1..Len(r)
  BY <1>1
<1>5. ToSet(r) = ToSet(q) \cup {s}
  <2>1. ASSUME NEW x \in ToSet(r)
        PROVE  x \in ToSet(q) \cup {s}
    BY <1>1, <1>2, <1>3
  <2>2. ASSUME NEW x \in ToSet(q)
        PROVE  x \in ToSet(r)
    BY <1>1, <1>2, <1>4
  <2>3. s \in ToSet(r)
    BY <1>1, <1>2, <1>4
  <2>. QED
    BY <2>1, <2>2, <2>3
<1>6. ASSUME Distinct(q), s \notin ToSet(q)
      PROVE  Distinct(r)
  <2>1. SUFFICES ASSUME NEW i \in 1..Len(r), NEW j \in 1..Len(r), r[i] = r[j]
                 PROVE  i = j
    BY DEF Distinct
  <2>2. CASE i \in 1..Len(q) /\ j \in 1..Len(q)
    BY <1>1, <1>6, <2>1, <2>2 DEF Distinct
  <2>3. CASE i = Len(q) + 1 /\ j = Len(q) + 1
    BY <2>3
  <2>4. ASSUME NEW n \in 1..Len(q)
        PROVE  r[n] # s
    BY <1>1, <1>2, <1>6
  <2>. QED
    BY <1>1, <1>3, <2>1, <2>2, <2>3, <2>4
<1>. QED
  BY <1>1, <1>5, <1>6 DEF r

LEMMA HeadQueue ==
  ASSUME NEW S, NEW q \in Seq(S), q # <<>>
  PROVE  /\ Head(q) \in S /\ Head(q) \in ToSet(q) /\ Tail(q) \in Seq(S)
         /\ ToSet(q) = {Head(q)} \cup ToSet(Tail(q))
         /\ Distinct(q) => Distinct(Tail(q)) /\ Head(q) \notin ToSet(Tail(q))
<1>. DEFINE r == Tail(q)
<1>1. PICK n \in Nat : Len(q) = n + 1
  <2>1. Len(q) \in Nat /\ Len(q) # 0
    OBVIOUS
  <2>2. Len(q) - 1 \in Nat /\ Len(q) = (Len(q) - 1) + 1
    BY <2>1
  <2>. QED
    BY <2>2
<1>2. r \in Seq(S) /\ Len(r) = n /\ \A i \in 1..n : r[i] = q[i + 1]
  BY <1>1
<1>3. Head(q) = q[1] /\ Head(q) \in S
  BY <1>1
<1>. HIDE DEF r
<1>4. ToSet(q) = {q[i] : i \in 1..(n + 1)} /\ ToSet(r) = {r[i] : i \in 1..n}
  <2>1. DOMAIN q = 1..(n + 1)
    BY <1>1
  <2>2. DOMAIN r = 1..n
    BY <1>2
  <2>. QED
    BY <2>1, <2>2, Zenon DEF ToSet
<1>5. \A i \in 1..(n + 1) : i = 1 \/ (i - 1 \in 1..n /\ (i - 1) + 1 = i)
  OBVIOUS
<1>6. 1 \in 1..(n + 1) /\ \A i \in 1..n : i + 1 \in 1..(n + 1) /\ i + 1 # 1
  OBVIOUS
<1>7. ToSet(q) = {Head(q)} \cup ToSet(r)
  <2>1. ASSUME NEW i \in 1..(n + 1)
        PROVE  q[i] \in {Head(q)} \cup ToSet(r)
    BY <1>2, <1>3, <1>4, <1>5
  <2>2. ASSUME NEW i \in 1..n
        PROVE  r[i] \in ToSet(q)
    BY <1>2, <1>4, <1>6
  <2>3. Head(q) \in ToSet(q)
    BY <1>3, <1>4, <1>6
  <2>. QED
    BY <1>4, <2>1, <2>2, <2>3
<1>8. ASSUME Distinct(q)
      PROVE  Distinct(r) /\ Head(q) \notin ToSet(r)
  <2>1. \A i, j \in 1..(n + 1) : q[i] = q[j] => i = j
    BY <1>1, <1>8 DEF Distinct
  <2>2. ASSUME NEW i \in 1..n, NEW j \in 1..n, r[i] = r[j]
        PROVE  i = j
    <3>1. q[i + 1] = q[j + 1]
      BY <1>2, <2>2
    <3>2. i + 1 = j + 1
      BY <1>6, <2>1, <3>1
    <3>. QED
      BY <3>2
  <2>3. ASSUME NEW i \in 1..n
        PROVE  r[i] # Head(q)
    BY <1>2, <1>3, <1>6, <2>1
  <2>. QED
    BY <1>2, <1>4, <2>2, <2>3 DEF Distinct
<1>. QED
  BY <1>2, <1>3, <1>7, <1>8 DEF r

\* A queue of some of the subscribers is no longer than there are subscribers.
LEMMA QueueLength ==
  ASSUME NEW q \in Seq(Subscriber), Distinct(q)
  PROVE  Len(q) <= Cardinality(Subscriber)
<1>1. PICK m \in Nat : m = Len(q)
  OBVIOUS
<1>2. q \in [1..m -> Subscriber]
  BY <1>1
<1>3. q \in Injection(1..m, Subscriber)
  BY <1>1, <1>2 DEF Injection, Distinct, IsInjective
<1>4. Cardinality(1..m) <= Cardinality(Subscriber)
  BY <1>3, FS_Injection, FiniteAssumption, Zenon
<1>5. Cardinality(1..m) = m
  <2>1. 1 \in Int /\ m \in Int
    OBVIOUS
  <2>2. Cardinality(1..m) = IF 1 > m THEN 0 ELSE m - 1 + 1
    BY <2>1, FS_Interval, Zenon
  <2>. QED
    BY <2>2
<1>. QED
  BY <1>1, <1>4, <1>5

-----------------------------------------------------------------------------
(* Types, and what each step of a broadcast does to the locals of its      *)
(* reader.                                                                 *)

Sending == [todo : Seq(Subscriber), kept : Seq(Subscriber), next : Nat, drops : Nat,
            removed : Nat]

Types ==
  /\ holder \in Stream \cup Subscriber \cup {None}
  /\ table \in [Stream -> Seq(Subscriber)] /\ dropped \in [Stream -> Nat] /\ count \in Nat
  /\ spc \in [Subscriber -> {"idle", "pushed", "open", "closed"}]
  /\ on \in [Subscriber -> Stream \cup {None}]
  /\ chan \in [Subscriber -> Seq(Chunk)] /\ \A s \in Subscriber : Len(chan[s]) <= Capacity
  /\ rpc \in [Stream -> {"idle", "read", "lock", "send", "settle"}]
  /\ read \in [Stream -> 0..MaxChunks] /\ batch \in [Stream -> 0..MaxBatch]
  /\ sending \in [Stream -> Sending]
  /\ since \in [Subscriber -> 0..MaxChunks]
  /\ got \in [Subscriber -> Chunk \cup {NoChunk}] /\ slow \subseteq Subscriber

Todo(k)    == sending[k].todo
Kept(k)    == sending[k].kept
At(k)      == sending[k].next
Removed(k) == sending[k].removed

\* Nothing about the other streams' readers.
Only(k) ==
  \A j \in Stream \ {k} : rpc'[j] = rpc[j] /\ sending'[j] = sending[j] /\ table'[j] = table[j]
                          /\ dropped'[j] = dropped[j] /\ read'[j] = read[j]
                          /\ batch'[j] = batch[j]

LEMMA Idle ==
  NoSending \in Sending /\ NoSending.todo = <<>> /\ NoSending.kept = <<>>
  /\ NoSending.next = 1 /\ NoSending.drops = 0 /\ NoSending.removed = 0
BY DEF NoSending, Sending

LEMMA SendingParts ==
  ASSUME Types, NEW k \in Stream
  PROVE  /\ sending[k] \in Sending
         /\ Todo(k) \in Seq(Subscriber) /\ Kept(k) \in Seq(Subscriber) /\ At(k) \in Nat
         /\ sending[k].drops \in Nat /\ Removed(k) \in Nat
<1>1. sending[k] \in Sending
  BY DEF Types
<1>. QED
  BY <1>1 DEF Sending, Todo, Kept, At, Removed

LEMMA TakeDoes ==
  ASSUME Types, NEW k \in Stream, TakeSubscribers(k), table[k] # <<>>
  PROVE  /\ rpc[k] = "lock" /\ holder = None /\ holder' = k
         /\ rpc' = [rpc EXCEPT ![k] = "send"] /\ table' = [table EXCEPT ![k] = <<>>]
         /\ sending' \in [Stream -> Sending]
         /\ Todo(k)' = table[k] /\ Kept(k)' = <<>> /\ At(k)' = 1
         /\ sending'[k].drops = dropped[k] /\ Removed(k)' = 0
         /\ UNCHANGED <<dropped, count, subVars, read, batch, histVars>>
         /\ Only(k)
<1>. DEFINE new == [NoSending EXCEPT !.todo = table[k], !.drops = dropped[k]]
<1>1. /\ rpc[k] = "lock" /\ holder = None /\ holder' = k
      /\ rpc' = [rpc EXCEPT ![k] = "send"] /\ table' = [table EXCEPT ![k] = <<>>]
      /\ sending' = [sending EXCEPT ![k] = new]
      /\ UNCHANGED <<dropped, count, subVars, read, batch, histVars>>
  BY DEF TakeSubscribers
<1>2. table[k] \in Seq(Subscriber) /\ dropped[k] \in Nat
  BY DEF Types
<1>3. new \in Sending
  BY <1>2, Idle DEF Sending
<1>4. /\ new.todo = table[k] /\ new.kept = <<>> /\ new.next = 1
      /\ new.drops = dropped[k] /\ new.removed = 0
  BY <1>2 DEF NoSending
<1>. HIDE DEF new
<1>5. sending' \in [Stream -> Sending] /\ sending'[k] = new
  BY <1>1, <1>3 DEF Types
<1>6. Only(k)
  BY <1>1 DEF Types, Only
<1>. QED
  BY <1>1, <1>4, <1>5, <1>6 DEF Todo, Kept, At, Removed

\* A try_send, to the subscriber that is first, either leaves some of the batch
\* for it, or was the last of the batch, or finds it full or gone.
Goes(k, s) ==
  /\ spc[s] # "closed" /\ Len(chan[s]) < Capacity
  /\ chan' = [chan EXCEPT ![s] = Append(@, NextChunk(k))]
  /\ sending'[k].drops = sending[k].drops /\ Removed(k)' = Removed(k)
  /\ UNCHANGED slow

GoesOn(k, s) ==
  /\ Goes(k, s) /\ At(k) < batch[k]
  /\ Todo(k)' = Todo(k) /\ Kept(k)' = Kept(k) /\ At(k)' = At(k) + 1

Served(k, s) ==
  /\ Goes(k, s) /\ At(k) >= batch[k]
  /\ Todo(k)' = Tail(Todo(k)) /\ Kept(k)' = Append(Kept(k), s) /\ At(k)' = 1

Goner(k, s) ==
  /\ UNCHANGED chan
  /\ Todo(k)' = Tail(Todo(k)) /\ Kept(k)' = Kept(k) /\ At(k)' = 1
  /\ Removed(k)' = Removed(k) + 1
  /\ \/ /\ spc[s] = "closed" /\ UNCHANGED slow
        /\ sending'[k].drops = sending[k].drops
     \/ /\ spc[s] # "closed" /\ Len(chan[s]) = Capacity /\ slow' = slow \cup {s}
        /\ sending'[k].drops = sending[k].drops + 1

LEMMA SendDoes ==
  ASSUME Types, NEW k \in Stream, SendNext(k)
  PROVE  /\ rpc[k] = "send" /\ Todo(k) # <<>>
         /\ \E s \in Subscriber : s = Head(Todo(k))
                                  /\ (GoesOn(k, s) \/ Served(k, s) \/ Goner(k, s))
         /\ sending' \in [Stream -> Sending]
         /\ UNCHANGED <<holder, tableVars, spc, on, rpc, read, batch, since, got>>
         /\ Only(k)
<1>1. /\ rpc[k] = "send" /\ Todo(k) # <<>>
      /\ UNCHANGED <<holder, tableVars, spc, on, rpc, read, batch, since, got>>
  BY DEF SendNext, Todo
<1>2. PICK m \in Sending : m = sending[k]
  BY SendingParts
<1>3. /\ m.todo \in Seq(Subscriber) /\ m.kept \in Seq(Subscriber) /\ m.next \in Nat
      /\ m.drops \in Nat /\ m.removed \in Nat /\ batch[k] \in Nat
  <2>1. batch[k] \in Nat
    BY SizeAssumption DEF Types
  <2>. QED
    BY <2>1, <1>2 DEF Sending
<1>4. PICK s \in Subscriber : s = Head(m.todo)
  BY <1>1, <1>2, <1>3, HeadQueue DEF Todo
<1>5. /\ Tail(m.todo) \in Seq(Subscriber) /\ Append(m.kept, s) \in Seq(Subscriber)
      /\ m.next + 1 \in Nat /\ m.drops + 1 \in Nat /\ m.removed + 1 \in Nat /\ 1 \in Nat
  BY <1>1, <1>2, <1>3, HeadQueue, AppendQueue DEF Todo
<1>6. CASE Sent(k)
  <2>1. /\ spc[s] # "closed" /\ Len(chan[s]) < Capacity
        /\ chan' = [chan EXCEPT ![s] = Append(@, NextChunk(k))] /\ UNCHANGED slow
    BY <1>2, <1>4, <1>6 DEF Sent
  <2>2. CASE m.next < batch[k]
    <3>1. sending' = [sending EXCEPT ![k].next = @ + 1]
      BY <1>2, <1>6, <2>2 DEF Sent
    <3>2. sending' \in [Stream -> Sending] /\ Only(k)
      BY <1>1, <1>2, <1>5, <3>1 DEF Types, Sending, Only, tableVars
    <3>3. /\ sending'[k].todo = m.todo /\ sending'[k].kept = m.kept
          /\ sending'[k].next = m.next + 1 /\ sending'[k].drops = m.drops
          /\ sending'[k].removed = m.removed
      BY <1>2, <3>1 DEF Types, Sending
    <3>4. GoesOn(k, s)
      BY <1>2, <2>1, <2>2, <3>3 DEF GoesOn, Goes, Todo, Kept, At, Removed
    <3>. QED
      BY <1>1, <1>2, <1>4, <3>2, <3>4 DEF Todo
  <2>3. CASE ~(m.next < batch[k])
    <3>1. sending' = [sending EXCEPT ![k].next = 1, ![k].todo = Tail(@),
                                     ![k].kept = Append(@, s)]
      BY <1>2, <1>4, <1>6, <2>3 DEF Sent
    <3>2. sending' \in [Stream -> Sending] /\ Only(k)
      BY <1>1, <1>2, <1>5, <3>1 DEF Types, Sending, Only, tableVars
    <3>3. /\ sending'[k].todo = Tail(m.todo) /\ sending'[k].kept = Append(m.kept, s)
          /\ sending'[k].next = 1 /\ sending'[k].drops = m.drops
          /\ sending'[k].removed = m.removed
      BY <1>2, <3>1 DEF Types, Sending
    <3>4. At(k) >= batch[k]
      BY <1>2, <1>3, <2>3 DEF At
    <3>5. Served(k, s)
      BY <1>2, <2>1, <3>3, <3>4 DEF Served, Goes, Todo, Kept, At, Removed
    <3>. QED
      BY <1>1, <1>2, <1>4, <3>2, <3>5 DEF Todo
  <2>. QED
    BY <2>2, <2>3
<1>7. CASE Full(k)
  <2>1. /\ sending' = [sending EXCEPT ![k].next = 1, ![k].todo = Tail(@),
                                      ![k].drops = @ + 1, ![k].removed = @ + 1]
        /\ UNCHANGED chan /\ spc[s] # "closed" /\ Len(chan[s]) = Capacity
        /\ slow' = slow \cup {s}
    BY <1>2, <1>4, <1>7 DEF Full
  <2>2. sending' \in [Stream -> Sending] /\ Only(k)
    BY <1>1, <1>2, <1>5, <2>1 DEF Types, Sending, Only, tableVars
  <2>3. /\ sending'[k].todo = Tail(m.todo) /\ sending'[k].kept = m.kept
        /\ sending'[k].next = 1 /\ sending'[k].drops = m.drops + 1
        /\ sending'[k].removed = m.removed + 1
    BY <1>2, <2>1 DEF Types, Sending
  <2>4. Goner(k, s)
    BY <1>2, <2>1, <2>3 DEF Goner, Todo, Kept, At, Removed
  <2>. QED
    BY <1>1, <1>2, <1>4, <2>2, <2>4 DEF Todo
<1>8. CASE Disconnected(k)
  <2>1. /\ sending' = [sending EXCEPT ![k].next = 1, ![k].todo = Tail(@), ![k].removed = @ + 1]
        /\ UNCHANGED <<chan, slow>> /\ spc[s] = "closed"
    BY <1>2, <1>4, <1>8 DEF Disconnected
  <2>2. sending' \in [Stream -> Sending] /\ Only(k)
    BY <1>1, <1>2, <1>5, <2>1 DEF Types, Sending, Only, tableVars
  <2>3. /\ sending'[k].todo = Tail(m.todo) /\ sending'[k].kept = m.kept
        /\ sending'[k].next = 1 /\ sending'[k].drops = m.drops
        /\ sending'[k].removed = m.removed + 1
    BY <1>2, <2>1 DEF Types, Sending
  <2>4. Goner(k, s)
    BY <1>2, <2>1, <2>3 DEF Goner, Todo, Kept, At, Removed
  <2>. QED
    BY <1>1, <1>2, <1>4, <2>2, <2>4 DEF Todo
<1>. QED
  BY <1>6, <1>7, <1>8 DEF SendNext

LEMMA PutBackDoes ==
  ASSUME Types, NEW k \in Stream, PutBack(k)
  PROVE  /\ rpc[k] = "send" /\ Todo(k) = <<>>
         /\ rpc' = [rpc EXCEPT ![k] = "settle"]
         /\ table' = [table EXCEPT ![k] = Kept(k)]
         /\ dropped' = [dropped EXCEPT ![k] = sending[k].drops]
         /\ UNCHANGED <<holder, count, subVars, read, batch, sending, histVars>>
         /\ Only(k)
BY DEF PutBack, Todo, Kept, Only, Types

LEMMA SettleDoes ==
  ASSUME Types, NEW k \in Stream, Settle(k)
  PROVE  /\ rpc[k] = "settle" /\ holder' = None
         /\ rpc' = [rpc EXCEPT ![k] = "idle"]
         /\ sending' \in [Stream -> Sending] /\ sending'[k] = NoSending
         /\ count' \in Nat
         /\ \A n \in Nat : count = n + Removed(k) => count' = n
         /\ UNCHANGED <<table, dropped, subVars, read, batch, histVars>>
         /\ Only(k)
<1>1. /\ rpc[k] = "settle" /\ holder' = None
      /\ rpc' = [rpc EXCEPT ![k] = "idle"]
      /\ sending' = [sending EXCEPT ![k] = NoSending]
      /\ count' = IF count < Removed(k) THEN 0 ELSE count - Removed(k)
      /\ UNCHANGED <<table, dropped, subVars, read, batch, histVars>>
  BY DEF Settle, Removed
<1>2. sending' \in [Stream -> Sending] /\ sending'[k] = NoSending
  BY <1>1, Idle DEF Types
<1>3. Only(k)
  BY <1>1 DEF Only, Types
<1>4. count \in Nat /\ Removed(k) \in Nat
  BY SendingParts DEF Types
<1>5. count' \in Nat /\ \A n \in Nat : count = n + Removed(k) => count' = n
  BY <1>1, <1>4
<1>. QED
  BY <1>1, <1>2, <1>3, <1>5

\* A reader has nothing to broadcast, or begins to, or finds nobody to send to.
Passes(k) ==
  \/ rpc[k] = "read" /\ count = 0 /\ rpc' = [rpc EXCEPT ![k] = "idle"]
  \/ rpc[k] = "read" /\ rpc' = [rpc EXCEPT ![k] = "lock"]
  \/ rpc[k] = "lock" /\ table[k] = <<>> /\ rpc' = [rpc EXCEPT ![k] = "idle"]

Pass(k) == Passes(k) /\ UNCHANGED <<holder, tableVars, subVars, read, batch, sending, histVars>>
Take(k) == TakeSubscribers(k) /\ table[k] # <<>>

LEMMA StepCases ==
  ASSUME [Next]_vars
  PROVE  \/ \E s \in Subscriber, k \in Stream : SubscribePush(s, k)
         \/ \E s \in Subscriber : SubscribeCount(s)
         \/ \E s \in Subscriber : Recv(s)
         \/ \E s \in Subscriber : Close(s)
         \/ \E k \in Stream : ReadBatch(k)
         \/ \E k \in Stream : Pass(k)
         \/ \E k \in Stream : Take(k)
         \/ \E k \in Stream : SendNext(k)
         \/ \E k \in Stream : PutBack(k)
         \/ \E k \in Stream : Settle(k)
         \/ UNCHANGED vars
<1>1. ASSUME NEW k \in Stream, SkipBroadcast(k) \/ BeginBroadcast(k)
      PROVE  Pass(k)
  BY <1>1 DEF SkipBroadcast, BeginBroadcast, Pass, Passes, tableVars
<1>2. ASSUME NEW k \in Stream, TakeSubscribers(k)
      PROVE  Pass(k) \/ Take(k)
  BY <1>2 DEF TakeSubscribers, Pass, Passes, Take, tableVars
<1>. QED
  BY <1>1, <1>2 DEF Next, Broadcast

-----------------------------------------------------------------------------
(* The lock: a subscriber that has joined the table and is not counted, or *)
(* a reader that has taken its subscribers, and nobody beside it.          *)

Busy(k) == rpc[k] \in {"send", "settle"}

LockInv ==
  /\ holder = None =>
       (\A k \in Stream : ~Busy(k)) /\ (\A s \in Subscriber : spc[s] # "pushed")
  /\ \A j, k \in Stream : Busy(j) /\ Busy(k) => j = k
  /\ \A s, t \in Subscriber : spc[s] = "pushed" /\ spc[t] = "pushed" => s = t
  /\ \A s \in Subscriber, k \in Stream : ~(spc[s] = "pushed" /\ Busy(k))

LEMMA LockStep == ASSUME Types, LockInv, [Next]_vars PROVE LockInv'
<1>0. None \notin Stream /\ None \notin Subscriber
  BY SubscriberAssumption
<1>1. CASE \E s \in Subscriber, k \in Stream : SubscribePush(s, k)
  BY <1>0, <1>1 DEF SubscribePush, LockInv, Busy, Types, readerVars
<1>2. CASE \E s \in Subscriber : SubscribeCount(s)
  BY <1>2 DEF SubscribeCount, LockInv, Busy, Types, readerVars
<1>3. CASE \E s \in Subscriber : Recv(s)
  BY <1>3 DEF Recv, LockInv, Busy, readerVars
<1>4. CASE \E s \in Subscriber : Close(s)
  BY <1>4 DEF Close, LockInv, Busy, Types, readerVars
<1>5. CASE \E k \in Stream : ReadBatch(k)
  BY <1>5 DEF ReadBatch, LockInv, Busy, Types, subVars
<1>6. CASE \E k \in Stream : Pass(k)
  <2>1. PICK k \in Stream : Pass(k)
    BY <1>6
  <2>2. UNCHANGED <<holder, spc>> /\ \A j \in Stream : ~Busy(j) => ~Busy(j)'
    BY <2>1 DEF Pass, Passes, Busy, Types, subVars
  <2>. QED
    BY <2>2 DEF LockInv
<1>7. CASE \E k \in Stream : Take(k)
  <2>1. PICK k \in Stream : Take(k)
    BY <1>7
  <2>2. /\ holder = None /\ holder' = k /\ rpc' = [rpc EXCEPT ![k] = "send"]
        /\ UNCHANGED spc
    BY <2>1, TakeDoes DEF Take, subVars
  <2>. QED
    BY <1>0, <2>2 DEF LockInv, Busy, Types
<1>8. CASE \E k \in Stream : SendNext(k)
  BY <1>8 DEF SendNext, LockInv, Busy
<1>9. CASE \E k \in Stream : PutBack(k)
  BY <1>9 DEF PutBack, LockInv, Busy, Types, subVars
<1>10. CASE \E k \in Stream : Settle(k)
  BY <1>10 DEF Settle, LockInv, Busy, Types, subVars
<1>11. CASE UNCHANGED vars
  BY <1>11 DEF vars, subVars, readerVars, LockInv, Busy
<1>. QED
  BY <1>1, <1>2, <1>3, <1>4, <1>5, <1>6, <1>7, <1>8, <1>9, <1>10, <1>11, StepCases

-----------------------------------------------------------------------------
(* Where a reader stands in its broadcast.                                 *)

Stage(k) ==
  /\ ~Busy(k) => sending[k] = NoSending
  /\ rpc[k] = "send" => table[k] = <<>> /\ At(k) \in 1..batch[k]
  /\ rpc[k] = "settle" => Todo(k) = <<>> /\ table[k] = Kept(k)
  /\ rpc[k] # "idle" => batch[k] \in 1..read[k]
  /\ Todo(k) = <<>> => At(k) = 1

LEMMA SameStage ==
  ASSUME NEW k, Stage(k), rpc'[k] = rpc[k], sending'[k] = sending[k], read'[k] = read[k],
         batch'[k] = batch[k], table'[k] = table[k]
  PROVE  Stage(k)'
BY DEF Stage, Busy, At, Todo, Kept

\* The locals of a reader that does not hold the lock.
LEMMA FreeLocals ==
  ASSUME NEW k, Stage(k), ~Busy(k)
  PROVE  Todo(k) = <<>> /\ Kept(k) = <<>> /\ At(k) = 1 /\ Removed(k) = 0
BY Idle DEF Stage, Todo, Kept, At, Removed

LEMMA StageStep ==
  ASSUME Types, LockInv, \A k \in Stream : Stage(k), [Next]_vars
  PROVE  \A k \in Stream : Stage(k)'
<1>. SUFFICES ASSUME NEW j \in Stream PROVE Stage(j)'
  OBVIOUS
<1>0. ASSUME NEW k \in Stream, Only(k), k # j
      PROVE  Stage(j)'
  BY <1>0, SameStage DEF Only
<1>1. CASE \E s \in Subscriber, k \in Stream : SubscribePush(s, k)
  <2>1. PICK s \in Subscriber, k \in Stream : SubscribePush(s, k)
    BY <1>1
  <2>2. UNCHANGED readerVars /\ ~Busy(j) /\ table'[j] \in Seq(Subscriber)
    BY <2>1, AppendQueue DEF SubscribePush, LockInv, Types
  <2>. QED
    BY <2>2 DEF Stage, Busy, At, Todo, Kept, readerVars
<1>2. CASE \E s \in Subscriber : SubscribeCount(s) \/ Recv(s) \/ Close(s)
  BY <1>2, SameStage DEF SubscribeCount, Recv, Close, readerVars, tableVars
<1>3. CASE \E k \in Stream : ReadBatch(k)
  <2>1. PICK k \in Stream : ReadBatch(k)
    BY <1>3
  <2>2. PICK n \in 1..MaxBatch : /\ read' = [read EXCEPT ![k] = @ + n]
                                 /\ batch' = [batch EXCEPT ![k] = n]
    BY <2>1 DEF ReadBatch
  <2>3. /\ rpc[k] = "idle" /\ rpc' = [rpc EXCEPT ![k] = "read"]
        /\ UNCHANGED <<table, sending>>
    BY <2>1 DEF ReadBatch, tableVars
  <2>4. CASE j = k
    <3>1. batch'[k] \in 1..read'[k]
      <4>1. read[k] \in Nat /\ n \in Nat /\ n >= 1
        BY SizeAssumption DEF Types
      <4>2. n \in 1..(read[k] + n)
        BY <4>1
      <4>. QED
        BY <2>2, <4>2 DEF Types
    <3>2. rpc'[k] = "read"
      BY <2>3 DEF Types
    <3>. QED
      BY <2>3, <2>4, <3>1, <3>2 DEF Stage, Busy, At, Todo, Kept
  <2>5. CASE j # k
    BY <2>2, <2>3, <2>5, SameStage DEF Types
  <2>. QED
    BY <2>4, <2>5
<1>4. CASE \E k \in Stream : Pass(k)
  <2>1. PICK k \in Stream : Pass(k)
    BY <1>4
  <2>2. /\ rpc[k] \in {"read", "lock"} /\ rpc'[k] \in {"idle", "lock"}
        /\ UNCHANGED <<table, sending, read, batch>>
        /\ j # k => rpc'[j] = rpc[j]
    BY <2>1 DEF Pass, Passes, Types, tableVars
  <2>. QED
    BY <2>2, SameStage DEF Stage, Busy, At, Todo, Kept
<1>5. CASE \E k \in Stream : Take(k)
  <2>1. PICK k \in Stream : TakeSubscribers(k) /\ table[k] # <<>>
    BY <1>5 DEF Take
  <2>2. CASE j = k
    <3>1. /\ rpc'[k] = "send" /\ table'[k] = <<>> /\ At(k)' = 1 /\ Todo(k)' # <<>>
          /\ batch[k] \in 1..read[k] /\ UNCHANGED <<read, batch>>
      BY <2>1, TakeDoes DEF Stage, Types
    <3>2. 1 \in 1..batch'[k]
      <4>1. batch[k] \in Nat /\ read[k] \in Nat
        BY SizeAssumption DEF Types
      <4>. QED
        BY <3>1, <4>1
    <3>. QED
      BY <2>2, <3>1, <3>2 DEF Stage, Busy
  <2>. QED
    BY <1>0, <2>1, <2>2, TakeDoes
<1>6. CASE \E k \in Stream : SendNext(k)
  <2>1. PICK k \in Stream : SendNext(k)
    BY <1>6
  <2>2. /\ rpc[k] = "send" /\ Todo(k) # <<>> /\ UNCHANGED <<table, rpc, read, batch>>
        /\ Only(k)
    BY <2>1, SendDoes DEF tableVars
  <2>3. PICK s \in Subscriber : s = Head(Todo(k))
                                /\ (GoesOn(k, s) \/ Served(k, s) \/ Goner(k, s))
    BY <2>1, SendDoes
  <2>4. /\ At(k) \in 1..batch[k] /\ batch[k] \in Nat /\ batch[k] \in 1..read[k]
        /\ read[k] \in Nat
    BY <2>2, SizeAssumption DEF Stage, Types
  <2>5. CASE j = k
    <3>1. At(k)' \in 1..batch[k] /\ (Todo(k)' = <<>> => At(k)' = 1)
      BY <2>2, <2>3, <2>4 DEF GoesOn, Served, Goner
    <3>. QED
      BY <2>2, <2>5, <3>1 DEF Stage, Busy
  <2>. QED
    BY <1>0, <2>2, <2>5
<1>7. CASE \E k \in Stream : PutBack(k)
  <2>1. PICK k \in Stream : PutBack(k)
    BY <1>7
  <2>2. /\ rpc[k] = "send" /\ Todo(k) = <<>> /\ rpc'[k] = "settle"
        /\ table'[k] = Kept(k) /\ UNCHANGED <<sending, read, batch>> /\ Only(k)
    BY <2>1, PutBackDoes DEF Types
  <2>. QED
    BY <1>0, <2>2 DEF Stage, Busy, At, Todo, Kept
<1>8. CASE \E k \in Stream : Settle(k)
  <2>1. PICK k \in Stream : Settle(k)
    BY <1>8
  <2>2. rpc'[k] = "idle" /\ sending'[k] = NoSending /\ Only(k)
    BY <2>1, SettleDoes DEF Types
  <2>. QED
    BY <1>0, <2>2, Idle DEF Stage, Busy, At, Todo
<1>9. CASE UNCHANGED vars
  BY <1>9, SameStage DEF vars, readerVars, tableVars
<1>. QED
  BY <1>1, <1>2, <1>3, <1>4, <1>5, <1>6, <1>7, <1>8, <1>9, StepCases

-----------------------------------------------------------------------------
(* Where a subscriber is: in the table or with the reader of its stream,   *)
(* once, until it is found full or gone.                                   *)

In(k) == ToSet(table[k]) \cup ToSet(Todo(k)) \cup ToSet(Kept(k))

Place(k) ==
  /\ Distinct(table[k]) /\ Distinct(Todo(k)) /\ Distinct(Kept(k))
  /\ ToSet(Todo(k)) \cap ToSet(Kept(k)) = {}
  /\ \A s \in In(k) : s \in Subscriber /\ on[s] = k /\ spc[s] # "idle" /\ s \notin slow

Whereabouts(s) ==
  /\ spc[s] = "idle" \/ on[s] \in Stream
  /\ spc[s] = "pushed" => s \in ToSet(table[on[s]])
  /\ spc[s] = "open" /\ s \notin slow => s \in In(on[s])
  /\ spc[s] \in {"idle", "pushed"} => s \notin slow /\ chan[s] = <<>> /\ got[s] = NoChunk

PlaceInv == (\A k \in Stream : Place(k)) /\ (\A s \in Subscriber : Whereabouts(s))

LEMMA OthersIn ==
  ASSUME NEW k, Only(k)
  PROVE  \A j \in Stream \ {k} : In(j)' = In(j) /\ Todo(j)' = Todo(j) /\ Kept(j)' = Kept(j)
BY DEF Only, In, Todo, Kept

\* The subscriber that is first to be sent the chunk.
LEMMA FirstToServe ==
  ASSUME Types, NEW k \in Stream, Place(k), Todo(k) # <<>>, NEW s, s = Head(Todo(k))
  PROVE  /\ s \in Subscriber /\ s \in In(k) /\ on[s] = k /\ spc[s] # "idle" /\ s \notin slow
         /\ ToSet(Todo(k)) = {s} \cup ToSet(Tail(Todo(k))) /\ s \notin ToSet(Tail(Todo(k)))
         /\ Distinct(Tail(Todo(k))) /\ s \notin ToSet(Kept(k))
         /\ ToSet(Append(Kept(k), s)) = ToSet(Kept(k)) \cup {s}
         /\ Distinct(Append(Kept(k), s))
<1>1. Todo(k) \in Seq(Subscriber) /\ Kept(k) \in Seq(Subscriber)
  BY SendingParts
<1>2. /\ s \in Subscriber /\ s \in ToSet(Todo(k))
      /\ ToSet(Todo(k)) = {s} \cup ToSet(Tail(Todo(k))) /\ s \notin ToSet(Tail(Todo(k)))
      /\ Distinct(Tail(Todo(k)))
  BY <1>1, HeadQueue DEF Place
<1>3. s \notin ToSet(Kept(k)) /\ s \in In(k)
  BY <1>2 DEF Place, In
<1>4. /\ ToSet(Append(Kept(k), s)) = ToSet(Kept(k)) \cup {s}
      /\ Distinct(Append(Kept(k), s))
  BY <1>1, <1>2, <1>3, AppendQueue DEF Place
<1>. QED
  BY <1>2, <1>3, <1>4 DEF Place

LEMMA SendIn ==
  ASSUME Types, NEW k \in Stream, Stage(k), Place(k), SendNext(k),
         NEW s, s = Head(Todo(k))
  PROVE  /\ GoesOn(k, s) \/ Served(k, s) => In(k)' = In(k)
         /\ Goner(k, s) => In(k)' = In(k) \ {s}
<1>1. rpc[k] = "send" /\ Todo(k) # <<>> /\ UNCHANGED table
  BY SendDoes DEF tableVars
<1>2. table[k] = <<>> /\ ToSet(<<>>) = {}
  BY <1>1, EmptyQueue DEF Stage
<1>3. /\ In(k) = ToSet(Todo(k)) \cup ToSet(Kept(k))
      /\ In(k)' = ToSet(Todo(k)') \cup ToSet(Kept(k)')
  BY <1>1, <1>2 DEF In
<1>4. /\ s \notin ToSet(Tail(Todo(k))) /\ s \notin ToSet(Kept(k))
      /\ ToSet(Append(Kept(k), s)) = ToSet(Kept(k)) \cup {s}
      /\ ToSet(Todo(k)) = {s} \cup ToSet(Tail(Todo(k)))
  BY <1>1, FirstToServe
<1>5. CASE GoesOn(k, s)
  <2>1. In(k)' = In(k) /\ At(k)' = At(k) + 1 /\ Removed(k)' = Removed(k)
    BY <1>3, <1>5 DEF GoesOn, Goes
  <2>2. Removed(k) \in Nat
    BY SendingParts
  <2>3. ~Goner(k, s)
    BY <2>1, <2>2 DEF Goner
  <2>. QED
    BY <2>1, <2>3
<1>6. CASE Served(k, s)
  <2>1. Todo(k)' = Tail(Todo(k)) /\ Kept(k)' = Append(Kept(k), s) /\ Removed(k)' = Removed(k)
    BY <1>6 DEF Served, Goes
  <2>2. In(k)' = In(k)
    BY <1>3, <1>4, <2>1
  <2>3. Removed(k) \in Nat
    BY SendingParts
  <2>4. ~Goner(k, s)
    BY <2>1, <2>3 DEF Goner
  <2>. QED
    BY <2>2, <2>4
<1>7. CASE Goner(k, s)
  <2>1. Todo(k)' = Tail(Todo(k)) /\ Kept(k)' = Kept(k)
    BY <1>7 DEF Goner
  <2>2. In(k)' = In(k) \ {s}
    BY <1>3, <1>4, <2>1
  <2>. QED
    BY <1>5, <1>6, <2>2
<1>. QED
  BY <1>5, <1>6, <1>7

\* The queues of a stream are emptied into one another.
LEMMA TurnIn ==
  ASSUME Types, NEW k \in Stream, Stage(k), Take(k) \/ PutBack(k) \/ Settle(k)
  PROVE  /\ In(k)' = In(k) /\ UNCHANGED <<spc, on, slow, chan, got>> /\ Only(k)
         /\ Todo(k)' = <<>> \/ (Todo(k)' = table[k] /\ Kept(k)' = <<>>)
         /\ Kept(k)' \in {<<>>, Kept(k)} /\ table'[k] \in {<<>>, Kept(k), table[k]}
<1>1. CASE Take(k)
  <2>1. /\ Todo(k) = <<>> /\ Kept(k) = <<>>
    BY <1>1, TakeDoes, FreeLocals DEF Busy, Take
  <2>2. /\ table'[k] = <<>> /\ Todo(k)' = table[k] /\ Kept(k)' = <<>> /\ Only(k)
        /\ UNCHANGED <<spc, on, slow, chan, got>>
    BY <1>1, TakeDoes DEF Take, Types, subVars, histVars
  <2>. QED
    BY <2>1, <2>2 DEF In
<1>2. CASE PutBack(k)
  <2>1. /\ rpc[k] = "send" /\ Todo(k) = <<>> /\ table'[k] = Kept(k) /\ Only(k)
        /\ UNCHANGED <<sending, spc, on, slow, chan, got>>
    BY <1>2, PutBackDoes DEF Types, subVars, histVars
  <2>2. table[k] = <<>> /\ Todo(k)' = Todo(k) /\ Kept(k)' = Kept(k)
    BY <2>1 DEF Stage, Todo, Kept
  <2>. QED
    BY <2>1, <2>2, EmptyQueue DEF In
<1>3. CASE Settle(k)
  <2>1. /\ rpc[k] = "settle" /\ sending'[k] = NoSending /\ Only(k)
        /\ UNCHANGED <<table, spc, on, slow, chan, got>>
    BY <1>3, SettleDoes DEF subVars, histVars
  <2>2. /\ Todo(k) = <<>> /\ table[k] = Kept(k) /\ Todo(k)' = <<>> /\ Kept(k)' = <<>>
    BY <2>1, Idle DEF Stage, Todo, Kept
  <2>. QED
    BY <2>1, <2>2, EmptyQueue DEF In
<1>. QED
  BY <1>1, <1>2, <1>3

\* A step that takes nobody from his stream and changes nothing else about him.
LEMMA Rotates ==
  ASSUME PlaceInv, NEW k \in Stream, Only(k), UNCHANGED <<spc, on, slow, chan, got>>,
         In(k)' = In(k), Distinct(table'[k]), Distinct(Todo(k)'), Distinct(Kept(k)'),
         ToSet(Todo(k)') \cap ToSet(Kept(k)') = {},
         \A s \in Subscriber : spc[s] = "pushed" => s \in ToSet(table'[on[s]])
  PROVE  PlaceInv'
<1>1. \A j \in Stream : In(j)' = In(j)
  BY OthersIn
<1>2. ASSUME NEW j \in Stream
      PROVE  Place(j)'
  <2>1. CASE j = k
    BY <1>1, <2>1 DEF PlaceInv, Place
  <2>2. CASE j # k
    BY <1>1, <2>2, OthersIn DEF PlaceInv, Place, Only
  <2>. QED
    BY <2>1, <2>2
<1>3. ASSUME NEW s \in Subscriber
      PROVE  Whereabouts(s)'
  <2>1. Whereabouts(s)
    BY DEF PlaceInv
  <2>2. spc[s] = "open" /\ s \notin slow => s \in In(on[s])'
    BY <1>1, <2>1 DEF Whereabouts
  <2>. QED
    BY <2>1, <2>2 DEF Whereabouts
<1>. QED
  BY <1>2, <1>3 DEF PlaceInv

\* A step that leaves the queues alone.
LEMMA Stays ==
  ASSUME PlaceInv, UNCHANGED <<table, sending, on, slow>>,
         \A s \in Subscriber :
           \/ spc'[s] = spc[s] /\ chan'[s] = chan[s] /\ got'[s] = got[s]
           \/ /\ spc'[s] \in {"open", "closed"} /\ spc[s] # "idle"
              /\ spc[s] = spc'[s] \/ spc'[s] = "closed" \/ spc[s] = "pushed"
  PROVE  PlaceInv'
<1>1. \A j \in Stream : In(j)' = In(j) /\ Todo(j)' = Todo(j) /\ Kept(j)' = Kept(j)
  BY DEF In, Todo, Kept
<1>2. ASSUME NEW j \in Stream
      PROVE  Place(j)'
  BY <1>1 DEF PlaceInv, Place
<1>3. ASSUME NEW s \in Subscriber
      PROVE  Whereabouts(s)'
  <2>1. Whereabouts(s)
    BY DEF PlaceInv
  <2>2. on[s] \in Stream => ToSet(table[on[s]]) \subseteq In(on[s]) /\ In(on[s])' = In(on[s])
    BY <1>1 DEF In
  <2>. QED
    BY <2>1, <2>2 DEF Whereabouts
<1>. QED
  BY <1>2, <1>3 DEF PlaceInv

LEMMA PlaceStep ==
  ASSUME Types, LockInv, \A k \in Stream : Stage(k), PlaceInv, [Next]_vars
  PROVE  PlaceInv'
<1>1. CASE \E s \in Subscriber, k \in Stream : SubscribePush(s, k)
  <2>1. PICK s \in Subscriber, k \in Stream : SubscribePush(s, k)
    BY <1>1
  <2>2. /\ spc[s] = "idle" /\ spc' = [spc EXCEPT ![s] = "pushed"]
        /\ on' = [on EXCEPT ![s] = k] /\ table' = [table EXCEPT ![k] = Append(@, s)]
        /\ UNCHANGED <<chan, readerVars, histVars>> /\ ~Busy(k)
    BY <2>1 DEF SubscribePush, LockInv
  <2>3. \A j \in Stream : s \notin In(j)
    BY <2>2 DEF PlaceInv, Place
  <2>4. table[k] \in Seq(Subscriber) /\ s \notin ToSet(table[k])
    BY <2>3 DEF Types, In
  <2>5. /\ ToSet(table'[k]) = ToSet(table[k]) \cup {s} /\ Distinct(table'[k])
        /\ \A j \in Stream \ {k} : table'[j] = table[j]
    <3>1. table'[k] = Append(table[k], s) /\ \A j \in Stream \ {k} : table'[j] = table[j]
      BY <2>2 DEF Types
    <3>. QED
      BY <2>4, <3>1, AppendQueue DEF PlaceInv, Place
  <2>6. \A j \in Stream : Todo(j)' = Todo(j) /\ Kept(j)' = Kept(j)
    BY <2>2 DEF Todo, Kept, readerVars
  <2>7. In(k)' = In(k) \cup {s} /\ \A j \in Stream \ {k} : In(j)' = In(j)
    BY <2>5, <2>6 DEF In
  <2>8. spc'[s] = "pushed" /\ on'[s] = k
        /\ \A t \in Subscriber \ {s} : spc'[t] = spc[t] /\ on'[t] = on[t]
    BY <2>2 DEF Types
  <2>9. s \notin slow /\ UNCHANGED <<slow, chan, got>> /\ chan[s] = <<>> /\ got[s] = NoChunk
    BY <2>2 DEF PlaceInv, Whereabouts, histVars
  <2>10. ASSUME NEW j \in Stream
         PROVE  Place(j)'
    <3>1. \A t \in In(j)' : t \in Subscriber /\ on'[t] = j /\ spc'[t] # "idle" /\ t \notin slow'
      BY <2>3, <2>7, <2>8, <2>9 DEF PlaceInv, Place
    <3>2. Distinct(table'[j])
      BY <2>5 DEF PlaceInv, Place
    <3>. QED
      BY <2>6, <3>1, <3>2 DEF PlaceInv, Place
  <2>11. ASSUME NEW t \in Subscriber
         PROVE  Whereabouts(t)'
    <3>1. CASE t = s
      BY <2>5, <2>8, <2>9, <3>1 DEF Whereabouts
    <3>2. CASE t # s
      <4>1. Whereabouts(t) /\ spc'[t] = spc[t] /\ on'[t] = on[t]
        BY <2>8, <3>2 DEF PlaceInv
      <4>2. on[t] \in Stream => ToSet(table[on[t]]) \subseteq ToSet(table'[on[t]])
                                /\ In(on[t]) \subseteq In(on[t])'
        BY <2>5, <2>7, <4>1
      <4>. QED
        BY <2>9, <4>1, <4>2 DEF Whereabouts
    <3>. QED
      BY <3>1, <3>2
  <2>. QED
    BY <2>10, <2>11 DEF PlaceInv
<1>2. CASE \E s \in Subscriber : SubscribeCount(s) \/ Recv(s) \/ Close(s)
  <2>1. PICK s \in Subscriber : SubscribeCount(s) \/ Recv(s) \/ Close(s)
    BY <1>2
  <2>2. UNCHANGED <<table, sending, on, slow>>
        /\ \A t \in Subscriber \ {s} : spc'[t] = spc[t] /\ chan'[t] = chan[t] /\ got'[t] = got[t]
    BY <2>1 DEF SubscribeCount, Recv, Close, tableVars, readerVars, histVars, Types
  <2>3. /\ spc'[s] \in {"open", "closed"} /\ spc[s] # "idle"
        /\ spc[s] = spc'[s] \/ spc'[s] = "closed" \/ spc[s] = "pushed"
    BY <2>1 DEF SubscribeCount, Recv, Close, Types
  <2>. QED
    BY <2>2, <2>3, Stays
<1>3. CASE \E k \in Stream : ReadBatch(k) \/ Pass(k)
  BY <1>3, Stays DEF ReadBatch, Pass, tableVars, subVars, histVars
<1>4. CASE \E k \in Stream : Take(k) \/ PutBack(k) \/ Settle(k)
  <2>1. PICK k \in Stream : Take(k) \/ PutBack(k) \/ Settle(k)
    BY <1>4
  <2>2. holder = None \/ Busy(k)
    BY <2>1, TakeDoes DEF Take, PutBack, Settle, Busy
  <2>3. \A s \in Subscriber : spc[s] # "pushed"
    BY <2>2 DEF LockInv
  <2>. QED
    BY <2>1, <2>3, EmptyQueue, TurnIn, Rotates DEF PlaceInv, Place
<1>5. CASE \E k \in Stream : SendNext(k)
  <2>1. PICK k \in Stream : SendNext(k)
    BY <1>5
  <2>2. /\ rpc[k] = "send" /\ Todo(k) # <<>> /\ Only(k) /\ Place(k)
        /\ UNCHANGED <<table, spc, on, got>>
    BY <2>1, SendDoes DEF PlaceInv, tableVars
  <2>3. PICK s \in Subscriber : s = Head(Todo(k))
                                /\ (GoesOn(k, s) \/ Served(k, s) \/ Goner(k, s))
    BY <2>1, SendDoes
  <2>4. \A t \in Subscriber : spc[t] # "pushed"
    BY <2>2 DEF LockInv, Busy
  <2>5. /\ on[s] = k /\ spc[s] # "idle" /\ s \in In(k) /\ s \notin slow
        /\ s \notin ToSet(Tail(Todo(k))) /\ Distinct(Tail(Todo(k)))
        /\ s \notin ToSet(Kept(k)) /\ Distinct(Append(Kept(k), s))
        /\ ToSet(Append(Kept(k), s)) = ToSet(Kept(k)) \cup {s}
        /\ ToSet(Todo(k)) = {s} \cup ToSet(Tail(Todo(k)))
    BY <2>2, <2>3, FirstToServe
  <2>6. /\ Distinct(Todo(k)') /\ Distinct(Kept(k)')
        /\ ToSet(Todo(k)') \cap ToSet(Kept(k)') = {}
    BY <2>2, <2>3, <2>5 DEF GoesOn, Served, Goner, Place
  <2>7. \A t \in Subscriber \ {s} : chan'[t] = chan[t]
    BY <2>3 DEF GoesOn, Served, Goner, Goes, Types
  <2>8. \/ In(k)' = In(k) /\ slow' = slow
        \/ /\ In(k)' = In(k) \ {s} /\ slow' \in {slow, slow \cup {s}}
           /\ slow' = slow => spc[s] = "closed"
    <3>1. \/ In(k)' = In(k) /\ slow' = slow
          \/ In(k)' = In(k) \ {s} /\ Goner(k, s)
      <4>1. /\ GoesOn(k, s) \/ Served(k, s) => In(k)' = In(k)
            /\ Goner(k, s) => In(k)' = In(k) \ {s}
        BY <2>1, <2>2, <2>3, SendIn
      <4>2. GoesOn(k, s) \/ Served(k, s) => slow' = slow
        BY DEF GoesOn, Served, Goes
      <4>. QED
        BY <2>3, <4>1, <4>2
    <3>. QED
      BY <2>5, <3>1 DEF Goner
  <2>9. slow \subseteq slow' /\ slow' \subseteq slow \cup {s}
    BY <2>8
  <2>10. ASSUME NEW j \in Stream
         PROVE  Place(j)'
    <3>1. CASE j = k
      <4>1. \A t \in In(k)' : t \in In(k) /\ t \notin slow'
        BY <2>2, <2>8, <2>9 DEF Place
      <4>. QED
        BY <2>2, <2>6, <3>1, <4>1 DEF Place
    <3>2. CASE j # k
      <4>1. In(j)' = In(j) /\ Todo(j)' = Todo(j) /\ Kept(j)' = Kept(j)
        BY <2>2, <3>2, OthersIn
      <4>2. s \notin In(j)
        BY <2>5, <3>2 DEF PlaceInv, Place
      <4>. QED
        BY <2>2, <2>9, <4>1, <4>2 DEF PlaceInv, Place
    <3>. QED
      BY <3>1, <3>2
  <2>11. ASSUME NEW t \in Subscriber
         PROVE  Whereabouts(t)'
    <3>1. Whereabouts(t)
      BY DEF PlaceInv
    <3>2. CASE t = s
      BY <2>2, <2>4, <2>5, <2>8, <3>1, <3>2 DEF Whereabouts
    <3>3. CASE t # s
      <4>1. on[t] \in Stream => (t \in In(on[t]) => t \in In(on[t])')
        BY <2>2, <2>8, <3>3, OthersIn
      <4>2. (t \in slow' <=> t \in slow) /\ chan'[t] = chan[t]
        BY <2>7, <2>9, <3>3
      <4>. QED
        BY <2>2, <2>4, <3>1, <4>1, <4>2 DEF Whereabouts
    <3>. QED
      BY <3>2, <3>3
  <2>. QED
    BY <2>10, <2>11 DEF PlaceInv
<1>6. CASE UNCHANGED vars
  BY <1>6, Stays DEF vars, tableVars, subVars, readerVars, histVars
<1>. QED
  BY <1>1, <1>2, <1>3, <1>4, <1>5, <1>6, StepCases

-----------------------------------------------------------------------------
(* The counter.                                                            *)

Counted == {s \in Subscriber : spc[s] # "pushed" /\ \E k \in Stream : s \in In(k)}

CountInv ==
  /\ (\A k \in Stream : ~Busy(k)) => count = Cardinality(Counted)
  /\ \A k \in Stream : Busy(k) => count = Cardinality(Counted) + Removed(k)

LEMMA CountedFinite ==
  /\ IsFiniteSet(Counted) /\ Cardinality(Counted) \in Nat
  /\ Cardinality(Counted) <= Cardinality(Subscriber) /\ Cardinality(Subscriber) \in Nat
<1>1. Counted \in SUBSET Subscriber
  BY DEF Counted
<1>2. IsFiniteSet(Counted) /\ Cardinality(Counted) <= Cardinality(Subscriber)
  BY <1>1, FS_Subset, FiniteAssumption, Zenon
<1>. QED
  BY <1>2, FS_CardinalityType, FiniteAssumption

LEMMA SameCounted ==
  ASSUME \A k \in Stream : In(k)' = In(k),
         \A s \in Subscriber : spc'[s] = "pushed" <=> spc[s] = "pushed"
  PROVE  Counted' = Counted
BY DEF Counted

LEMMA CountStep ==
  ASSUME Types, LockInv, \A k \in Stream : Stage(k), PlaceInv, CountInv, [Next]_vars
  PROVE  CountInv'
<1>1. CASE \E s \in Subscriber, k \in Stream : SubscribePush(s, k)
  <2>1. PICK s \in Subscriber, k \in Stream : SubscribePush(s, k)
    BY <1>1
  <2>2. /\ spc[s] = "idle" /\ spc' = [spc EXCEPT ![s] = "pushed"] /\ count' = count
        /\ table' = [table EXCEPT ![k] = Append(@, s)] /\ UNCHANGED readerVars
    BY <2>1 DEF SubscribePush
  <2>3. \A j \in Stream : s \notin In(j) /\ Todo(j)' = Todo(j) /\ Kept(j)' = Kept(j)
    BY <2>2 DEF PlaceInv, Place, Todo, Kept, readerVars
  <2>4. ToSet(table'[k]) = ToSet(table[k]) \cup {s}
        /\ \A j \in Stream \ {k} : table'[j] = table[j]
    <3>1. table'[k] = Append(table[k], s) /\ table[k] \in Seq(Subscriber)
          /\ \A j \in Stream \ {k} : table'[j] = table[j]
      BY <2>2 DEF Types
    <3>. QED
      BY <3>1, AppendQueue
  <2>5. \A t \in Subscriber \ {s}, j \in Stream : t \in In(j)' <=> t \in In(j)
    BY <2>3, <2>4 DEF In
  <2>6. \A t \in Subscriber \ {s} : spc'[t] = spc[t] /\ spc'[s] = "pushed"
    BY <2>2 DEF Types
  <2>7. s \notin Counted /\ s \notin Counted'
    BY <2>2, <2>3 DEF Counted, Types
  <2>8. Counted' = Counted
    BY <2>5, <2>6, <2>7 DEF Counted
  <2>9. \A j \in Stream : (Busy(j)' <=> Busy(j)) /\ Removed(j)' = Removed(j)
    BY <2>2 DEF Busy, Removed, readerVars
  <2>. QED
    BY <2>2, <2>8, <2>9 DEF CountInv
<1>2. CASE \E s \in Subscriber : SubscribeCount(s)
  <2>1. PICK s \in Subscriber : SubscribeCount(s)
    BY <1>2
  <2>2. /\ spc[s] = "pushed" /\ spc' = [spc EXCEPT ![s] = "open"] /\ count' = count + 1
        /\ UNCHANGED <<table, readerVars>>
    BY <2>1 DEF SubscribeCount
  <2>3. \A j \in Stream : ~Busy(j) /\ ~Busy(j)' /\ In(j)' = In(j)
    BY <2>2 DEF LockInv, Busy, In, Todo, Kept, readerVars
  <2>4. on[s] \in Stream /\ s \in In(on[s])
    BY <2>2 DEF PlaceInv, Whereabouts, In
  <2>5. /\ spc'[s] = "open" /\ \A t \in Subscriber \ {s} : spc'[t] = spc[t]
    BY <2>2 DEF Types
  <2>6. s \notin Counted /\ Counted' = Counted \cup {s}
    BY <2>2, <2>3, <2>4, <2>5 DEF Counted
  <2>7. Cardinality(Counted') = Cardinality(Counted) + 1
    BY <2>6, CountedFinite, FS_AddElement
  <2>. QED
    BY <2>2, <2>3, <2>7 DEF CountInv
<1>3. CASE (\E s \in Subscriber : Recv(s) \/ Close(s)) \/ \E k \in Stream : ReadBatch(k) \/ Pass(k)
  <2>1. UNCHANGED <<count, table, sending>>
        /\ \A j \in Stream : Busy(j)' <=> Busy(j)
    BY <1>3 DEF Recv, Close, ReadBatch, Pass, Passes, Busy, Types, tableVars, readerVars, subVars
  <2>2. \A s \in Subscriber : spc'[s] = "pushed" <=> spc[s] = "pushed"
    BY <1>3 DEF Recv, Close, ReadBatch, Pass, Types, subVars
  <2>3. Counted' = Counted
    BY <2>1, <2>2, SameCounted DEF In, Todo, Kept
  <2>. QED
    BY <2>1, <2>3 DEF CountInv, Removed
<1>4. CASE \E k \in Stream : Take(k) \/ PutBack(k) \/ Settle(k)
  <2>1. PICK k \in Stream : Take(k) \/ PutBack(k) \/ Settle(k)
    BY <1>4
  <2>2. \A j \in Stream : In(j)' = In(j)
    BY <2>1, TurnIn, OthersIn
  <2>3. Counted' = Counted
    BY <2>1, <2>2, TurnIn, SameCounted
  <2>4. \A j \in Stream \ {k} : (Busy(j)' <=> Busy(j)) /\ Removed(j)' = Removed(j)
    BY <2>1, TurnIn DEF Only, Busy, Removed
  <2>5. CASE Take(k)
    <3>1. /\ \A j \in Stream : ~Busy(j)
          /\ Busy(k)' /\ Removed(k)' = 0 /\ count' = count
      BY <2>5, TakeDoes DEF Take, LockInv, Busy, Types
    <3>2. count' = Cardinality(Counted') + Removed(k)'
      BY <2>3, <3>1, CountedFinite DEF CountInv
    <3>. QED
      BY <2>4, <3>1, <3>2 DEF CountInv
  <2>6. CASE PutBack(k)
    <3>1. Busy(k) /\ Busy(k)' /\ Removed(k)' = Removed(k) /\ count' = count
      BY <2>6, PutBackDoes DEF Busy, Removed, Types
    <3>. QED
      BY <2>3, <2>4, <3>1 DEF CountInv
  <2>7. CASE Settle(k)
    <3>1. Busy(k) /\ ~Busy(k)'
      BY <2>7, SettleDoes DEF Busy, Types
    <3>2. \A j \in Stream : ~Busy(j)'
      BY <2>4, <3>1 DEF LockInv
    <3>3. count' = Cardinality(Counted)
      BY <2>7, <3>1, CountedFinite, SettleDoes DEF CountInv
    <3>. QED
      BY <2>3, <3>2, <3>3 DEF CountInv
  <2>. QED
    BY <2>1, <2>5, <2>6, <2>7
<1>5. CASE \E k \in Stream : SendNext(k)
  <2>1. PICK k \in Stream : SendNext(k)
    BY <1>5
  <2>2. /\ rpc[k] = "send" /\ Todo(k) # <<>> /\ Only(k) /\ UNCHANGED <<spc, rpc, count>>
    BY <2>1, SendDoes DEF tableVars
  <2>3. PICK s \in Subscriber : s = Head(Todo(k))
                                /\ (GoesOn(k, s) \/ Served(k, s) \/ Goner(k, s))
    BY <2>1, SendDoes
  <2>4. \A j \in Stream : (Busy(j)' <=> Busy(j)) /\ (Busy(j) => j = k)
    BY <2>2 DEF Busy, LockInv
  <2>5. Busy(k) /\ count = Cardinality(Counted) + Removed(k)
    BY <2>2 DEF Busy, CountInv
  <2>6. \A j \in Stream \ {k} : In(j)' = In(j)
    BY <2>2, OthersIn
  <2>7. CASE GoesOn(k, s) \/ Served(k, s)
    <3>1. In(k)' = In(k) /\ Removed(k)' = Removed(k)
      <4>1. In(k)' = In(k)
        BY <2>1, <2>3, <2>7, SendIn DEF PlaceInv
      <4>. QED
        BY <2>7, <4>1 DEF GoesOn, Served, Goes
    <3>2. Counted' = Counted
      BY <2>2, <2>6, <3>1, SameCounted
    <3>. QED
      BY <2>2, <2>4, <2>5, <3>1, <3>2 DEF CountInv
  <2>8. CASE Goner(k, s)
    <3>1. In(k)' = In(k) \ {s} /\ Removed(k)' = Removed(k) + 1
      <4>1. In(k)' = In(k) \ {s}
        BY <2>1, <2>3, <2>8, SendIn DEF PlaceInv
      <4>. QED
        BY <2>8, <4>1 DEF Goner
    <3>2. s \in In(k) /\ spc[s] # "pushed" /\ on[s] = k
      BY <2>2, <2>3, <2>5, FirstToServe DEF PlaceInv, LockInv
    <3>3. \A j \in Stream \ {k} : s \notin In(j)
      BY <3>2 DEF PlaceInv, Place
    <3>4. s \in Counted /\ Counted' = Counted \ {s}
      BY <2>2, <2>6, <3>1, <3>2, <3>3 DEF Counted
    <3>5. Cardinality(Counted') = Cardinality(Counted) - 1
      BY <3>4, CountedFinite, FS_RemoveElement
    <3>6. Cardinality(Counted) \in Nat /\ Removed(k) \in Nat
      BY CountedFinite, SendingParts
    <3>7. count' = Cardinality(Counted') + Removed(k)'
      BY <2>2, <2>5, <3>1, <3>5, <3>6
    <3>. QED
      BY <2>4, <2>5, <3>7 DEF CountInv
  <2>. QED
    BY <2>3, <2>7, <2>8
<1>6. CASE UNCHANGED vars
  <2>1. UNCHANGED <<table, sending, spc, rpc, count>>
    BY <1>6 DEF vars, tableVars, subVars, readerVars
  <2>2. Counted' = Counted
    BY <2>1, SameCounted DEF In, Todo, Kept
  <2>. QED
    BY <2>1, <2>2 DEF CountInv, Busy, Removed
<1>. QED
  BY <1>1, <1>2, <1>3, <1>4, <1>5, <1>6, StepCases

LEMMA CountIsExact ==
  ASSUME Types, LockInv, \A k \in Stream : Stage(k), PlaceInv, CountInv
  PROVE  CountExact
<1>1. SUFFICES ASSUME holder = None
               PROVE  count = Cardinality(UNION {ToSet(table[k]) : k \in Stream})
  BY DEF CountExact
<1>2. (\A k \in Stream : ~Busy(k)) /\ \A s \in Subscriber : spc[s] # "pushed"
  BY <1>1 DEF LockInv
<1>3. \A k \in Stream : In(k) = ToSet(table[k])
  BY <1>2, FreeLocals, EmptyQueue DEF In
<1>4. Counted = UNION {ToSet(table[k]) : k \in Stream}
  BY <1>2, <1>3 DEF Counted, PlaceInv, Place
<1>. QED
  BY <1>2, <1>4 DEF CountInv

-----------------------------------------------------------------------------
(* How many of a stream's subscribers have been dropped because their      *)
(* channel was full.                                                       *)

SlowOn(k) == {s \in slow : on[s] = k}
Drops(k)  == IF rpc[k] = "send" THEN sending[k].drops ELSE dropped[k]

\* The table's count, which a broadcast catches up with when it settles.
Behind(k) ==
  /\ rpc[k] = "send" => dropped[k] <= sending[k].drops
  /\ rpc[k] = "settle" => dropped[k] = sending[k].drops

DropInv == \A k \in Stream : Drops(k) = Cardinality(SlowOn(k)) /\ Behind(k)

LEMMA SlowFinite ==
  ASSUME Types, NEW k
  PROVE  /\ IsFiniteSet(SlowOn(k)) /\ Cardinality(SlowOn(k)) \in Nat
         /\ Cardinality(SlowOn(k)) <= Cardinality(Subscriber)
<1>1. SlowOn(k) \in SUBSET Subscriber
  BY DEF SlowOn, Types
<1>2. IsFiniteSet(SlowOn(k)) /\ Cardinality(SlowOn(k)) <= Cardinality(Subscriber)
  BY <1>1, FS_Subset, FiniteAssumption, Zenon
<1>. QED
  BY <1>2, FS_CardinalityType

LEMMA DropsSmall ==
  ASSUME Types, DropInv, NEW k \in Stream
  PROVE  Drops(k) \in 0..Cardinality(Subscriber)
<1>1. Drops(k) = Cardinality(SlowOn(k))
  BY DEF DropInv
<1>2. /\ Cardinality(SlowOn(k)) \in Nat /\ Cardinality(Subscriber) \in Nat
      /\ Cardinality(SlowOn(k)) <= Cardinality(Subscriber)
  BY SlowFinite, FS_CardinalityType, FiniteAssumption
<1>. QED
  BY <1>1, <1>2

\* A reader's turn, and a step of nobody's, changes no count of drops.
LEMMA SameDrops ==
  ASSUME Types, DropInv, NEW k \in Stream, Stage(k), rpc[k] \in {"send", "settle", "lock"},
         Take(k) \/ PutBack(k) \/ Settle(k)
  PROVE  Drops(k)' = Drops(k) /\ Behind(k)'
<1>1. CASE Take(k)
  <2>1. /\ rpc[k] = "lock" /\ rpc'[k] = "send" /\ dropped'[k] = dropped[k]
        /\ sending'[k].drops = dropped[k] /\ dropped[k] \in Nat
    BY <1>1, TakeDoes DEF Take, Types
  <2>. QED
    BY <2>1 DEF Drops, Behind
<1>2. CASE PutBack(k)
  BY <1>2, PutBackDoes DEF Drops, Behind, Types
<1>3. CASE Settle(k)
  BY <1>3, SettleDoes DEF Drops, Behind, Types
<1>. QED
  BY <1>1, <1>2, <1>3

LEMMA DropStep ==
  ASSUME Types, LockInv, \A k \in Stream : Stage(k), PlaceInv, DropInv, [Next]_vars
  PROVE  DropInv'
<1>1. CASE \E s \in Subscriber, k \in Stream : SubscribePush(s, k)
  <2>1. PICK s \in Subscriber, k \in Stream : SubscribePush(s, k)
    BY <1>1
  <2>2. /\ on' = [on EXCEPT ![s] = k] /\ spc[s] = "idle" /\ UNCHANGED <<slow, dropped, readerVars>>
    BY <2>1 DEF SubscribePush, histVars
  <2>3. s \notin slow /\ slow \subseteq Subscriber
    BY <2>2 DEF PlaceInv, Whereabouts, Types
  <2>4. \A j \in Stream : SlowOn(j)' = SlowOn(j)
    BY <2>2, <2>3 DEF SlowOn, Types
  <2>. QED
    BY <2>2, <2>4 DEF DropInv, Drops, Behind, readerVars
<1>2. CASE \E s \in Subscriber : SubscribeCount(s) \/ Recv(s) \/ Close(s)
  <2>1. UNCHANGED <<on, slow, dropped, sending, rpc>>
    BY <1>2 DEF SubscribeCount, Recv, Close, tableVars, readerVars, histVars
  <2>. QED
    BY <2>1 DEF DropInv, SlowOn, Drops, Behind
<1>3. CASE \E k \in Stream : ReadBatch(k) \/ Pass(k)
  <2>1. PICK k \in Stream : ReadBatch(k) \/ Pass(k)
    BY <1>3
  <2>2. /\ UNCHANGED <<on, slow, dropped, sending>> /\ \A j \in Stream \ {k} : rpc'[j] = rpc[j]
        /\ rpc[k] # "send" /\ rpc'[k] \notin {"send", "settle"}
    BY <2>1 DEF ReadBatch, Pass, Passes, tableVars, histVars, subVars, Types
  <2>3. \A j \in Stream : SlowOn(j)' = SlowOn(j) /\ Drops(j)' = Drops(j)
    BY <2>2 DEF SlowOn, Drops
  <2>. QED
    BY <2>2, <2>3 DEF DropInv, Behind
<1>4. CASE \E k \in Stream : Take(k) \/ PutBack(k) \/ Settle(k)
  <2>1. PICK k \in Stream : Take(k) \/ PutBack(k) \/ Settle(k)
    BY <1>4
  <2>2. rpc[k] \in {"send", "settle", "lock"}
    BY <2>1, TakeDoes, PutBackDoes, SettleDoes DEF Take
  <2>3. Drops(k)' = Drops(k) /\ Behind(k)'
    BY <2>1, <2>2, SameDrops
  <2>4. UNCHANGED <<on, slow>> /\ Only(k)
    BY <2>1, TurnIn
  <2>5. \A j \in Stream : SlowOn(j)' = SlowOn(j)
    BY <2>4 DEF SlowOn
  <2>6. \A j \in Stream \ {k} : Drops(j)' = Drops(j) /\ Behind(j)'
    BY <2>4 DEF Drops, Only, DropInv, Behind
  <2>. QED
    BY <2>3, <2>5, <2>6 DEF DropInv
<1>5. CASE \E k \in Stream : SendNext(k)
  <2>1. PICK k \in Stream : SendNext(k)
    BY <1>5
  <2>2. /\ rpc[k] = "send" /\ Todo(k) # <<>> /\ Only(k) /\ UNCHANGED <<rpc, on, dropped>>
    BY <2>1, SendDoes DEF tableVars
  <2>3. PICK s \in Subscriber : s = Head(Todo(k))
                                /\ (GoesOn(k, s) \/ Served(k, s) \/ Goner(k, s))
    BY <2>1, SendDoes
  <2>4. on[s] = k /\ s \notin slow
    BY <2>2, <2>3, FirstToServe DEF PlaceInv
  <2>5. \A j \in Stream \ {k} : Drops(j)' = Drops(j) /\ Behind(j)'
    BY <2>2 DEF Drops, Only, DropInv, Behind
  <2>6. rpc'[k] = "send" /\ Drops(k) = sending[k].drops /\ Drops(k)' = sending'[k].drops
    BY <2>2 DEF Drops
  <2>9. Behind(k)'
    <3>1. dropped[k] <= sending[k].drops /\ dropped[k] \in Nat /\ sending[k].drops \in Nat
      BY <2>2, SendingParts DEF DropInv, Behind, Types
    <3>2. sending'[k].drops \in {sending[k].drops, sending[k].drops + 1}
      BY <2>3 DEF GoesOn, Served, Goner, Goes
    <3>3. dropped'[k] <= sending'[k].drops
      BY <2>2, <3>1, <3>2
    <3>. QED
      BY <2>6, <3>3 DEF Behind
  <2>7. CASE slow' = slow /\ sending'[k].drops = sending[k].drops
    <3>1. \A j \in Stream : SlowOn(j)' = SlowOn(j) /\ Drops(j)' = Drops(j)
      BY <2>2, <2>5, <2>6, <2>7 DEF SlowOn
    <3>. QED
      BY <2>5, <2>9, <3>1 DEF DropInv
  <2>8. CASE slow' = slow \cup {s} /\ sending'[k].drops = sending[k].drops + 1
    <3>1. SlowOn(k)' = SlowOn(k) \cup {s} /\ s \notin SlowOn(k)
      BY <2>2, <2>4, <2>8 DEF SlowOn
    <3>2. \A j \in Stream \ {k} : SlowOn(j)' = SlowOn(j)
      BY <2>2, <2>4, <2>8 DEF SlowOn
    <3>3. Cardinality(SlowOn(k)') = Cardinality(SlowOn(k)) + 1
      BY <3>1, SlowFinite, FS_AddElement
    <3>4. Drops(k)' = Cardinality(SlowOn(k)')
      BY <2>6, <2>8, <3>3 DEF DropInv
    <3>. QED
      BY <2>5, <2>9, <3>2, <3>4 DEF DropInv
  <2>. QED
    BY <2>3, <2>7, <2>8 DEF GoesOn, Served, Goner, Goes
<1>6. CASE UNCHANGED vars
  BY <1>6 DEF vars, tableVars, subVars, readerVars, histVars, DropInv, SlowOn, Drops, Behind
<1>. QED
  BY <1>1, <1>2, <1>3, <1>4, <1>5, <1>6, StepCases

-----------------------------------------------------------------------------
(* The types are kept, and the counter is no more than there are           *)
(* subscribers.                                                            *)

\* The chunk a try_send is about: one of the batch, which is part of what the
\* reader has read.
LEMMA ChunkSent ==
  ASSUME Types, DropInv, NEW k \in Stream, Stage(k), rpc[k] = "send"
  PROVE  /\ NextChunk(k) \in Chunk
         /\ NextChunk(k).n = read[k] - batch[k] + At(k) /\ NextChunk(k).before = Drops(k)
         /\ NextChunk(k) # NoChunk
<1>1. PICK r \in Nat : r = read[k] /\ r <= MaxChunks
  BY SizeAssumption DEF Types
<1>2. PICK b \in Nat : b = batch[k] /\ 1 <= b /\ b <= r
  BY <1>1, SizeAssumption DEF Types, Stage
<1>3. PICK a \in Nat : a = At(k) /\ 1 <= a /\ a <= b
  BY <1>2 DEF Stage
<1>4. r - b + a \in 1..MaxChunks
  BY <1>1, <1>2, <1>3, SizeAssumption
<1>5. sending[k].drops \in 0..Cardinality(Subscriber) /\ Drops(k) = sending[k].drops
  BY DropsSmall DEF Drops
<1>6. NextChunk(k) = [n |-> r - b + a, before |-> sending[k].drops]
  BY <1>1, <1>2, <1>3 DEF NextChunk, At
<1>7. NextChunk(k) \in Chunk /\ NextChunk(k).n = r - b + a
      /\ NextChunk(k).before = sending[k].drops
  BY <1>4, <1>5, <1>6 DEF Chunk
<1>8. NextChunk(k).n # NoChunk.n
  BY <1>4, <1>7 DEF NoChunk
<1>. QED
  BY <1>1, <1>2, <1>3, <1>5, <1>7, <1>8

LEMMA TypesStep ==
  ASSUME Types, LockInv, \A k \in Stream : Stage(k), PlaceInv, DropInv, [Next]_vars
  PROVE  Types'
<1>1. CASE \E s \in Subscriber, k \in Stream : SubscribePush(s, k)
  <2>1. PICK s \in Subscriber, k \in Stream : SubscribePush(s, k)
    BY <1>1
  <2>2. Append(table[k], s) \in Seq(Subscriber)
    BY AppendQueue DEF Types
  <2>3. holder' = s /\ UNCHANGED <<dropped, count, chan, readerVars, histVars>>
        /\ spc' = [spc EXCEPT ![s] = "pushed"] /\ on' = [on EXCEPT ![s] = k]
        /\ table' = [table EXCEPT ![k] = Append(@, s)]
    BY <2>1 DEF SubscribePush
  <2>4. table' \in [Stream -> Seq(Subscriber)]
    BY <2>2, <2>3 DEF Types
  <2>. QED
    BY <2>3, <2>4 DEF Types, readerVars, histVars
<1>2. CASE \E s \in Subscriber : SubscribeCount(s)
  <2>1. PICK s \in Subscriber : SubscribeCount(s)
    BY <1>2
  <2>2. /\ spc[s] = "pushed" /\ holder' = None /\ spc' = [spc EXCEPT ![s] = "open"]
        /\ count' = count + 1 /\ since' = [since EXCEPT ![s] = Done(on[s])]
        /\ UNCHANGED <<table, dropped, on, chan, readerVars, got, slow>>
    BY <2>1 DEF SubscribeCount
  <2>3. on[s] \in Stream
    BY <2>2 DEF PlaceInv, Whereabouts
  <2>4. Done(on[s]) \in 0..MaxChunks
    <3>1. PICK r \in 0..MaxChunks : r = read[on[s]]
      BY <2>3 DEF Types
    <3>2. CASE rpc[on[s]] = "idle"
      BY <3>1, <3>2 DEF Done
    <3>3. CASE rpc[on[s]] # "idle"
      <4>1. PICK b \in 1..r : b = batch[on[s]]
        BY <2>3, <3>1, <3>3 DEF Stage
      <4>2. Done(on[s]) = r - b
        BY <3>1, <3>3, <4>1 DEF Done
      <4>. QED
        BY <3>1, <4>1, <4>2, SizeAssumption
    <3>. QED
      BY <3>2, <3>3
  <2>. QED
    BY <2>2, <2>3, <2>4 DEF Types, readerVars
<1>3. CASE \E s \in Subscriber : Recv(s)
  <2>1. PICK s \in Subscriber : Recv(s)
    BY <1>3
  <2>2. /\ chan[s] # <<>> /\ chan' = [chan EXCEPT ![s] = Tail(@)]
        /\ got' = [got EXCEPT ![s] = Head(chan[s])]
        /\ UNCHANGED <<holder, tableVars, spc, on, readerVars, since, slow>>
    BY <2>1 DEF Recv
  <2>3. chan[s] \in Seq(Chunk) /\ Len(chan[s]) <= Capacity /\ Capacity \in Nat
    BY SizeAssumption DEF Types
  <2>4. /\ Tail(chan[s]) \in Seq(Chunk) /\ Len(Tail(chan[s])) <= Capacity
        /\ Head(chan[s]) \in Chunk
    BY <2>2, <2>3
  <2>5. /\ chan' \in [Subscriber -> Seq(Chunk)]
        /\ \A t \in Subscriber : Len(chan'[t]) <= Capacity
        /\ got' \in [Subscriber -> Chunk \cup {NoChunk}]
    BY <2>2, <2>4 DEF Types
  <2>. QED
    BY <2>2, <2>5 DEF Types, tableVars, readerVars
<1>4. CASE \E s \in Subscriber : Close(s)
  <2>1. PICK s \in Subscriber : Close(s)
    BY <1>4
  <2>2. /\ spc' = [spc EXCEPT ![s] = "closed"] /\ chan' = [chan EXCEPT ![s] = <<>>]
        /\ UNCHANGED <<holder, tableVars, on, readerVars, histVars>>
    BY <2>1 DEF Close
  <2>3. <<>> \in Seq(Chunk) /\ Len(<<>>) <= Capacity
    BY SizeAssumption
  <2>4. chan' \in [Subscriber -> Seq(Chunk)] /\ \A t \in Subscriber : Len(chan'[t]) <= Capacity
    BY <2>2, <2>3 DEF Types
  <2>. QED
    BY <2>2, <2>4 DEF Types, tableVars, readerVars, histVars
<1>5. CASE \E k \in Stream : ReadBatch(k)
  <2>1. PICK k \in Stream : ReadBatch(k)
    BY <1>5
  <2>2. PICK n \in 1..MaxBatch : /\ read[k] + n <= MaxChunks
                                 /\ read' = [read EXCEPT ![k] = @ + n]
                                 /\ batch' = [batch EXCEPT ![k] = n]
    BY <2>1 DEF ReadBatch
  <2>3. read[k] + n \in 0..MaxChunks /\ n \in 0..MaxBatch
    BY <2>2, SizeAssumption DEF Types
  <2>4. /\ rpc' = [rpc EXCEPT ![k] = "read"]
        /\ UNCHANGED <<holder, tableVars, subVars, sending, histVars>>
    BY <2>1 DEF ReadBatch
  <2>. QED
    BY <2>2, <2>3, <2>4 DEF Types, tableVars, subVars, histVars
<1>6. CASE \E k \in Stream : Pass(k)
  BY <1>6 DEF Pass, Passes, Types, tableVars, subVars, histVars
<1>7. CASE \E k \in Stream : Take(k)
  <2>1. PICK k \in Stream : TakeSubscribers(k) /\ table[k] # <<>>
    BY <1>7 DEF Take
  <2>2. /\ holder' = k /\ rpc' = [rpc EXCEPT ![k] = "send"]
        /\ table' = [table EXCEPT ![k] = <<>>] /\ sending' \in [Stream -> Sending]
        /\ UNCHANGED <<dropped, count, subVars, read, batch, histVars>>
    BY <2>1, TakeDoes
  <2>. QED
    BY <2>2 DEF Types, subVars, histVars
<1>8. CASE \E k \in Stream : SendNext(k)
  <2>1. PICK k \in Stream : SendNext(k)
    BY <1>8
  <2>2. /\ rpc[k] = "send" /\ Todo(k) # <<>> /\ sending' \in [Stream -> Sending]
        /\ UNCHANGED <<holder, tableVars, spc, on, rpc, read, batch, since, got>>
    BY <2>1, SendDoes
  <2>3. PICK s \in Subscriber : s = Head(Todo(k))
                                /\ (GoesOn(k, s) \/ Served(k, s) \/ Goner(k, s))
    BY <2>1, SendDoes
  <2>4. slow' \subseteq Subscriber
    BY <2>3 DEF GoesOn, Served, Goner, Goes, Types
  <2>5. chan' \in [Subscriber -> Seq(Chunk)] /\ \A t \in Subscriber : Len(chan'[t]) <= Capacity
    <3>1. CASE UNCHANGED chan
      BY <3>1 DEF Types
    <3>2. CASE Goes(k, s)
      <4>1. NextChunk(k) \in Chunk
        BY <2>2, ChunkSent
      <4>2. /\ Append(chan[s], NextChunk(k)) \in Seq(Chunk)
            /\ Len(Append(chan[s], NextChunk(k))) <= Capacity
        BY <3>2, <4>1, SizeAssumption DEF Goes, Types
      <4>3. chan' = [chan EXCEPT ![s] = Append(chan[s], NextChunk(k))]
        BY <3>2 DEF Goes
      <4>. QED
        BY <4>2, <4>3 DEF Types
    <3>. QED
      BY <2>3, <3>1, <3>2 DEF GoesOn, Served, Goner
  <2>. QED
    BY <2>2, <2>4, <2>5 DEF Types, tableVars
<1>9. CASE \E k \in Stream : PutBack(k)
  <2>1. PICK k \in Stream : PutBack(k)
    BY <1>9
  <2>2. Kept(k) \in Seq(Subscriber) /\ sending[k].drops \in Nat
    BY SendingParts
  <2>3. /\ rpc' = [rpc EXCEPT ![k] = "settle"] /\ table' = [table EXCEPT ![k] = Kept(k)]
        /\ dropped' = [dropped EXCEPT ![k] = sending[k].drops]
        /\ UNCHANGED <<holder, count, subVars, read, batch, sending, histVars>>
    BY <2>1, PutBackDoes
  <2>. QED
    BY <2>2, <2>3 DEF Types, subVars, histVars
<1>10. CASE \E k \in Stream : Settle(k)
  <2>1. PICK k \in Stream : Settle(k)
    BY <1>10
  <2>2. /\ holder' = None /\ rpc' = [rpc EXCEPT ![k] = "idle"] /\ count' \in Nat
        /\ sending' \in [Stream -> Sending]
        /\ UNCHANGED <<table, dropped, subVars, read, batch, histVars>>
    BY <2>1, SettleDoes
  <2>. QED
    BY <2>2 DEF Types, subVars, histVars
<1>11. CASE UNCHANGED vars
  BY <1>11 DEF vars, tableVars, subVars, readerVars, histVars, Types
<1>. QED
  BY <1>1, <1>2, <1>3, <1>4, <1>5, <1>6, <1>7, <1>8, <1>9, <1>10, <1>11, StepCases

CountBound == count <= Cardinality(Subscriber)

\* Only a subscription raises the counter, and then it is exact.
LEMMA BoundStep ==
  ASSUME Types, LockInv, CountBound, CountInv', [Next]_vars
  PROVE  CountBound'
<1>1. CASE \E s \in Subscriber : SubscribeCount(s)
  <2>1. \A k \in Stream : ~Busy(k)'
    BY <1>1 DEF SubscribeCount, LockInv, Busy, readerVars
  <2>2. count' = Cardinality(Counted)'
    BY <2>1 DEF CountInv
  <2>3. (Cardinality(Counted) <= Cardinality(Subscriber))'
    BY CountedFinite, PTL
  <2>. QED
    BY <2>2, <2>3 DEF CountBound
<1>2. CASE \E k \in Stream : Settle(k)
  <2>1. PICK k \in Stream : Settle(k)
    BY <1>2
  <2>2. count' = IF count < Removed(k) THEN 0 ELSE count - Removed(k)
    BY <2>1 DEF Settle, Removed
  <2>3. /\ count \in Nat /\ Removed(k) \in Nat /\ Cardinality(Subscriber) \in Nat
    BY SendingParts, FS_CardinalityType, FiniteAssumption DEF Types
  <2>. QED
    BY <2>2, <2>3 DEF CountBound
<1>3. CASE UNCHANGED count
  BY <1>3 DEF CountBound
<1>4. CASE \E k \in Stream : Take(k) \/ PutBack(k) \/ SendNext(k)
  BY <1>3, <1>4, TakeDoes, PutBackDoes, SendDoes DEF Take, tableVars
<1>5. CASE \/ \E s \in Subscriber, k \in Stream : SubscribePush(s, k)
           \/ \E s \in Subscriber : Recv(s) \/ Close(s)
           \/ \E k \in Stream : ReadBatch(k) \/ Pass(k)
           \/ UNCHANGED vars
  BY <1>3, <1>5 DEF SubscribePush, Recv, Close, ReadBatch, Pass, vars, tableVars
<1>. QED
  BY <1>1, <1>2, <1>4, <1>5, StepCases

-----------------------------------------------------------------------------
(* Queues of chunks that follow one another.                               *)

Follows(c, d) == d.n = c.n + 1 /\ c.before <= d.before

Consecutive(q) == \A i \in 1..(Len(q) - 1) : Follows(q[i], q[i + 1])

\* What is taken by a chunk that has been read: never the chunk that stands
\* for none.
LEMMA ChunkType ==
  /\ NoChunk.n = 0 /\ NoChunk.before = 0
  /\ \A c \in Chunk : c.n \in Nat /\ c.n # 0 /\ c.before \in Nat /\ c # NoChunk
<1>1. NoChunk.n = 0 /\ NoChunk.before = 0
  BY DEF NoChunk
<1>2. ASSUME NEW c \in Chunk
      PROVE  c.n \in Nat /\ c.n # 0 /\ c.before \in Nat
  <2>1. c.n \in 1..MaxChunks /\ c.before \in 0..Cardinality(Subscriber)
    BY DEF Chunk
  <2>. QED
    BY <2>1, SizeAssumption, FS_CardinalityType, FiniteAssumption
<1>. QED
  BY <1>1, <1>2

LEMMA AppendChunk ==
  ASSUME NEW q \in Seq(Chunk), NEW c \in Chunk, Consecutive(q),
         q # <<>> => Follows(q[Len(q)], c)
  PROVE  /\ Append(q, c) \in Seq(Chunk) /\ Append(q, c) # <<>> /\ Consecutive(Append(q, c))
         /\ Append(q, c)[Len(Append(q, c))] = c
         /\ Append(q, c)[1] = IF q = <<>> THEN c ELSE q[1]
<1>. DEFINE r == Append(q, c)
<1>1. PICK m \in Nat : m = Len(q)
  OBVIOUS
<1>2. r \in Seq(Chunk) /\ Len(r) = m + 1 /\ r[m + 1] = c /\ \A i \in 1..m : r[i] = q[i]
  BY <1>1
<1>3. (q = <<>> <=> m = 0) /\ (m # 0 => 1 \in 1..m)
  BY <1>1
<1>. HIDE DEF r
<1>0. r # <<>>
  BY <1>2
<1>4. ASSUME NEW i \in 1..m
      PROVE  Follows(r[i], r[i + 1])
  <2>1. CASE i = m
    BY <1>1, <1>2, <1>3, <2>1
  <2>2. CASE i # m
    <3>1. i \in 1..(m - 1) /\ i + 1 \in 1..m
      BY <2>2
    <3>. QED
      BY <1>1, <1>2, <3>1 DEF Consecutive
  <2>. QED
    BY <2>1, <2>2
<1>5. Len(r) - 1 = m
  BY <1>2
<1>6. Consecutive(r)
  BY <1>4, <1>5 DEF Consecutive
<1>7. r[1] = IF q = <<>> THEN c ELSE q[1]
  BY <1>2, <1>3
<1>. QED
  BY <1>0, <1>2, <1>6, <1>7 DEF r

LEMMA TailChunk ==
  ASSUME NEW q \in Seq(Chunk), q # <<>>, Consecutive(q)
  PROVE  /\ Head(q) \in Chunk /\ Tail(q) \in Seq(Chunk) /\ Consecutive(Tail(q))
         /\ IF Tail(q) = <<>> THEN q[Len(q)] = Head(q)
                              ELSE /\ Tail(q)[Len(Tail(q))] = q[Len(q)]
                                   /\ Follows(Head(q), Tail(q)[1])
<1>. DEFINE r == Tail(q)
<1>1. PICK m \in Nat : Len(q) = m + 1
  <2>1. Len(q) \in Nat /\ Len(q) # 0
    OBVIOUS
  <2>2. Len(q) - 1 \in Nat /\ Len(q) = (Len(q) - 1) + 1
    BY <2>1
  <2>. QED
    BY <2>2
<1>2. r \in Seq(Chunk) /\ Len(r) = m /\ \A i \in 1..m : r[i] = q[i + 1]
  BY <1>1
<1>3. Head(q) = q[1] /\ Head(q) \in Chunk
  BY <1>1
<1>. HIDE DEF r
<1>4. \A i \in 1..m : Follows(q[i], q[i + 1])
  <2>1. Len(q) - 1 = m
    BY <1>1
  <2>. QED
    BY <2>1 DEF Consecutive
<1>5. Consecutive(r)
  <2>1. ASSUME NEW i \in 1..(m - 1)
        PROVE  Follows(r[i], r[i + 1])
    <3>1. i \in 1..m /\ i + 1 \in 1..m
      OBVIOUS
    <3>. QED
      BY <1>2, <1>4, <3>1
  <2>. QED
    BY <1>2, <2>1 DEF Consecutive
<1>6. CASE m = 0
  <2>1. r = <<>>
    BY <1>2, <1>6
  <2>2. q[Len(q)] = Head(q)
    BY <1>1, <1>3, <1>6
  <2>. QED
    BY <1>2, <1>3, <1>5, <2>1, <2>2 DEF r
<1>7. CASE m # 0
  <2>1. 1 \in 1..m /\ m \in 1..m /\ r # <<>>
    BY <1>2, <1>7
  <2>2. r[m] = q[Len(q)] /\ r[1] = q[1 + 1]
    BY <1>1, <1>2, <2>1
  <2>3. Follows(Head(q), r[1])
    BY <1>3, <1>4, <2>1, <2>2
  <2>. QED
    BY <1>2, <1>3, <1>5, <2>1, <2>2, <2>3 DEF r
<1>. QED
  BY <1>6, <1>7

LEMMA PrependChunk ==
  ASSUME NEW q \in Seq(Chunk), NEW c \in Chunk, Consecutive(q),
         q # <<>> => Follows(c, q[1])
  PROVE  /\ (<<c>> \o q) # <<>> /\ Consecutive(<<c>> \o q)
         /\ (<<c>> \o q)[Len(<<c>> \o q)] = IF q = <<>> THEN c ELSE q[Len(q)]
<1>. DEFINE r == <<c>> \o q
<1>1. PICK m \in Nat : m = Len(q)
  OBVIOUS
<1>2. <<c>> \in Seq(Chunk) /\ Len(<<c>>) = 1 /\ <<c>>[1] = c
  OBVIOUS
<1>3. /\ Len(r) = m + 1 /\ r[1] = c /\ r # <<>>
      /\ \A i \in 1..m : r[i + 1] = q[i]
  BY <1>1, <1>2
<1>4. (q = <<>> <=> m = 0) /\ (m # 0 => m \in 1..m)
  BY <1>1
<1>. HIDE DEF r
<1>5. ASSUME NEW i \in 1..m
      PROVE  Follows(r[i], r[i + 1])
  <2>1. CASE i = 1
    BY <1>3, <1>4, <2>1
  <2>2. CASE i # 1
    <3>1. PICK j \in 1..(m - 1) : i = j + 1
      <4>1. i - 1 \in 1..(m - 1) /\ i = (i - 1) + 1
        BY <2>2
      <4>. QED
        BY <4>1
    <3>2. j \in 1..m /\ j + 1 \in 1..m
      OBVIOUS
    <3>3. Follows(q[j], q[j + 1])
      BY <1>1 DEF Consecutive
    <3>. QED
      BY <1>3, <3>1, <3>2, <3>3
  <2>. QED
    BY <2>1, <2>2
<1>6. Len(r) - 1 = m
  BY <1>3
<1>7. Consecutive(r)
  BY <1>5, <1>6 DEF Consecutive
<1>8. r[Len(r)] = IF q = <<>> THEN c ELSE q[Len(q)]
  BY <1>1, <1>3, <1>4
<1>. QED
  BY <1>3, <1>7, <1>8 DEF r

-----------------------------------------------------------------------------
(* What has come to a subscriber, and how far its stream's reader has come *)
(* with it.                                                                *)

\* The last chunk that was sent to it.
LastOf(s) == IF chan[s] = <<>> THEN got[s] ELSE chan[s][Len(chan[s])]

\* What it has not taken follows what it has taken.
Begun(s) ==
  chan[s] # <<>> => IF got[s] = NoChunk THEN chan[s][1].n = since[s] + 1
                                        ELSE Follows(got[s], chan[s][1])

ChanInv ==
  \A s \in Subscriber : spc[s] = "open" =>
    /\ Consecutive(chan[s]) /\ Begun(s)
    /\ LastOf(s).before <= Drops(on[s])

\* The last chunk of its stream that it must have been sent.
Upto(s, k) ==
  IF rpc[k] = "idle" \/ s \in ToSet(Kept(k)) THEN read[k]
  ELSE IF Todo(k) # <<>> /\ s = Head(Todo(k)) THEN read[k] - batch[k] + At(k) - 1
  ELSE read[k] - batch[k]

\* It has been sent nothing yet, and need not have been: the reader has not
\* come to it.
Fresh(s, k) ==
  /\ Upto(s, k) = since[s]
  /\ s \notin ToSet(Kept(k))
  /\ Todo(k) # <<>> /\ s = Head(Todo(k)) => At(k) = 1

Progress(s) ==
  spc[s] = "open" /\ s \notin slow =>
    IF LastOf(s) = NoChunk THEN Fresh(s, on[s]) ELSE LastOf(s).n = Upto(s, on[s])

ProgressInv == \A s \in Subscriber : Progress(s)

LEMMA LastOfType ==
  ASSUME Types, NEW s \in Subscriber
  PROVE  /\ chan[s] # <<>> => LastOf(s) \in Chunk /\ LastOf(s) # NoChunk
         /\ LastOf(s) \in Chunk \cup {NoChunk}
         /\ LastOf(s).n \in Nat /\ LastOf(s).before \in Nat
<1>1. chan[s] \in Seq(Chunk) /\ got[s] \in Chunk \cup {NoChunk}
  BY DEF Types
<1>2. ASSUME chan[s] # <<>>
      PROVE  chan[s][Len(chan[s])] \in Chunk
  BY <1>1, <1>2
<1>3. /\ chan[s] # <<>> => LastOf(s) \in Chunk
      /\ LastOf(s) \in Chunk \cup {NoChunk}
  BY <1>1, <1>2 DEF LastOf
<1>. QED
  BY <1>3, ChunkType

\* Where Upto's numbers come from.
LEMMA ReadType ==
  ASSUME Types, NEW k \in Stream, Stage(k)
  PROVE  /\ read[k] \in Nat /\ batch[k] \in Nat /\ At(k) \in Nat
         /\ rpc[k] # "idle" => batch[k] <= read[k] /\ 1 <= batch[k]
         /\ rpc[k] = "send" => 1 <= At(k) /\ At(k) <= batch[k]
<1>1. read[k] \in Nat /\ batch[k] \in Nat /\ At(k) \in Nat
  BY SendingParts, SizeAssumption DEF Types
<1>. QED
  BY <1>1 DEF Stage

\* Nothing that its progress speaks of changes, or it goes away.
LEMMA SameProgress ==
  ASSUME NEW s \in Subscriber, Progress(s), NEW k, k = on[s],
         spc'[s] = "open" /\ s \notin slow' =>
           /\ spc[s] = "open" /\ s \notin slow
           /\ on'[s] = k /\ since'[s] = since[s]
           /\ LastOf(s)' = LastOf(s) /\ Upto(s, k)' = Upto(s, k)
           /\ s \in ToSet(Kept(k)') => s \in ToSet(Kept(k))
           /\ Todo(k)' # <<>> /\ s = Head(Todo(k)') =>
                At(k)' = 1 \/ (Todo(k)' = Todo(k) /\ At(k)' = At(k))
  PROVE  Progress(s)'
BY DEF Progress, Fresh

\* The chunk sent to it follows the last one.
LEMMA NextFollows ==
  ASSUME Types, DropInv, ChanInv, ProgressInv, NEW k \in Stream, Stage(k), Place(k),
         rpc[k] = "send", Todo(k) # <<>>, NEW s \in Subscriber, s = Head(Todo(k)),
         spc[s] = "open"
  PROVE  IF LastOf(s) = NoChunk THEN NextChunk(k).n = since[s] + 1
                                ELSE Follows(LastOf(s), NextChunk(k))
<1>1. s \notin ToSet(Kept(k)) /\ on[s] = k /\ s \notin slow
  BY FirstToServe
<1>2. Upto(s, k) = read[k] - batch[k] + At(k) - 1
  BY <1>1 DEF Upto
<1>3. PICK r \in Nat : r = read[k]
  BY ReadType
<1>4. PICK b \in Nat : b = batch[k] /\ b <= r
  BY <1>3, ReadType
<1>5. PICK a \in Nat : a = At(k) /\ 1 <= a
  BY ReadType
<1>6. NextChunk(k).n = r - b + a /\ Upto(s, k) = r - b + a - 1
      /\ NextChunk(k).before = Drops(k)
  BY <1>2, <1>3, <1>4, <1>5, ChunkSent
<1>7. IF LastOf(s) = NoChunk THEN Upto(s, k) = since[s] ELSE LastOf(s).n = Upto(s, k)
  BY <1>1 DEF ProgressInv, Progress, Fresh
<1>8. LastOf(s).before <= Drops(k)
  BY <1>1 DEF ChanInv
<1>9. since[s] \in Nat /\ LastOf(s).n \in Nat
  BY LastOfType, SizeAssumption DEF Types
<1>10. r - b + a - 1 = since[s] => r - b + a = since[s] + 1
  BY <1>3, <1>4, <1>5, <1>9
<1>11. LastOf(s).n = r - b + a - 1 => r - b + a = LastOf(s).n + 1
  BY <1>3, <1>4, <1>5, <1>9
<1>. QED
  BY <1>6, <1>7, <1>8, <1>10, <1>11 DEF Follows

\* A channel to which the chunk that follows is added.
LEMMA ChanSent ==
  ASSUME Types, NEW s \in Subscriber, Consecutive(chan[s]), Begun(s), NEW c \in Chunk,
         IF LastOf(s) = NoChunk THEN c.n = since[s] + 1 ELSE Follows(LastOf(s), c),
         chan'[s] = Append(chan[s], c), UNCHANGED <<got, since>>
  PROVE  Consecutive(chan[s])' /\ Begun(s)' /\ LastOf(s)' = c
<1>1. chan[s] \in Seq(Chunk)
  BY DEF Types
<1>2. chan[s] # <<>> => Follows(chan[s][Len(chan[s])], c)
  BY LastOfType DEF LastOf
<1>. DEFINE r == Append(chan[s], c)
<1>3. /\ r # <<>> /\ Consecutive(r) /\ r[Len(r)] = c
      /\ r[1] = IF chan[s] = <<>> THEN c ELSE chan[s][1]
  BY <1>1, <1>2, AppendChunk
<1>4. chan'[s] = r
  OBVIOUS
<1>. HIDE DEF r
<1>5. LastOf(s)' = c /\ Consecutive(chan[s])'
  BY <1>3, <1>4 DEF LastOf, Consecutive
<1>6. Begun(s)'
  <2>1. CASE chan[s] = <<>>
    <3>1. LastOf(s) = got[s] /\ r[1] = c
      BY <1>3, <2>1 DEF LastOf
    <3>. QED
      BY <1>4, <3>1 DEF Begun
  <2>2. CASE chan[s] # <<>>
    BY <1>3, <1>4, <2>2 DEF Begun
  <2>. QED
    BY <2>1, <2>2
<1>. QED
  BY <1>5, <1>6

\* A channel from which the first chunk is taken.
LEMMA ChanTaken ==
  ASSUME Types, NEW s \in Subscriber, Consecutive(chan[s]), chan[s] # <<>>,
         chan'[s] = Tail(chan[s]), got'[s] = Head(chan[s])
  PROVE  Consecutive(chan[s])' /\ Begun(s)' /\ LastOf(s)' = LastOf(s)
<1>1. chan[s] \in Seq(Chunk)
  BY DEF Types
<1>2. PICK r : r = Tail(chan[s])
  OBVIOUS
<1>3. /\ Consecutive(r) /\ Head(chan[s]) \in Chunk
      /\ IF r = <<>> THEN chan[s][Len(chan[s])] = Head(chan[s])
                     ELSE r[Len(r)] = chan[s][Len(chan[s])] /\ Follows(Head(chan[s]), r[1])
  BY <1>1, <1>2, TailChunk
<1>4. chan'[s] = r /\ got'[s] # NoChunk
  BY <1>2, <1>3, ChunkType
<1>5. Consecutive(chan[s])' /\ LastOf(s)' = LastOf(s)
  BY <1>3, <1>4 DEF Consecutive, LastOf
<1>6. Begun(s)'
  BY <1>3, <1>4 DEF Begun
<1>. QED
  BY <1>5, <1>6

\* A channel that is left alone.
LEMMA ChanSame ==
  ASSUME NEW s, chan'[s] = chan[s], got'[s] = got[s], since'[s] = since[s]
  PROVE  /\ Consecutive(chan[s])' <=> Consecutive(chan[s])
         /\ Begun(s)' <=> Begun(s)
         /\ LastOf(s)' = LastOf(s)
BY DEF Consecutive, Begun, LastOf

\* What is in a channel stays in order when its subscriber, its stream's reader
\* and the channel keep to these terms.
LEMMA ChanKept ==
  ASSUME Types, ChanInv, NEW s \in Subscriber, on[s] \in Stream,
         spc'[s] = "open" =>
           /\ spc[s] = "open"
           /\ on'[s] = on[s] /\ since'[s] = since[s] /\ chan'[s] = chan[s] /\ got'[s] = got[s],
         Drops(on[s]) <= Drops(on[s])', Drops(on[s]) \in Nat, Drops(on[s])' \in Nat,
         spc'[s] = "open"
  PROVE  /\ Consecutive(chan[s])' /\ Begun(s)'
         /\ LastOf(s)'.before <= Drops(on[s])'
<1>1. /\ Consecutive(chan[s]) /\ Begun(s)
      /\ LastOf(s).before <= Drops(on[s])
  BY DEF ChanInv
<1>2. Consecutive(chan[s])' /\ Begun(s)' /\ LastOf(s)' = LastOf(s)
  BY <1>1, ChanSame
<1>3. LastOf(s).before \in Nat
  BY LastOfType
<1>5. LastOf(s).before <= Drops(on[s])'
  BY <1>1, <1>3
<1>. QED
  BY <1>2, <1>5

LEMMA DropsNat == ASSUME DropInv, Types, NEW k \in Stream PROVE Drops(k) \in Nat
BY SlowFinite DEF DropInv

LEMMA ChanStep ==
  ASSUME Types, Types', LockInv, \A k \in Stream : Stage(k), PlaceInv, PlaceInv', DropInv,
         DropInv', ChanInv, ProgressInv, [Next]_vars
  PROVE  ChanInv'
<1>. SUFFICES ASSUME NEW s \in Subscriber, spc'[s] = "open"
              PROVE  /\ Consecutive(chan[s])' /\ Begun(s)'
                     /\ LastOf(s)'.before <= Drops(on[s])'
  BY DEF ChanInv
<1>0. /\ on'[s] \in Stream
      /\ \A k \in Stream : Drops(k) \in Nat /\ Drops(k)' \in Nat /\ Drops(k) <= Drops(k)
  <2>1. on'[s] \in Stream
    BY DEF PlaceInv, Whereabouts
  <2>2. \A k \in Stream : Drops(k) \in Nat
    BY DropsNat
  <2>3. \A k \in Stream : Drops(k)' \in Nat
    <3>1. ASSUME NEW k \in Stream
          PROVE  Drops(k)' \in Nat
      <4>1. (Cardinality(SlowOn(k)) \in Nat)'
        BY SlowFinite, PTL
      <4>2. Drops(k)' = Cardinality(SlowOn(k))'
        BY DEF DropInv
      <4>. QED
        BY <4>1, <4>2
    <3>. QED
      BY <3>1
  <2>. QED
    BY <2>1, <2>2, <2>3
<1>1. CASE \E t \in Subscriber, k \in Stream : SubscribePush(t, k)
  <2>1. PICK t \in Subscriber, k \in Stream : SubscribePush(t, k)
    BY <1>1
  <2>2. /\ spc' = [spc EXCEPT ![t] = "pushed"] /\ on' = [on EXCEPT ![t] = k]
        /\ UNCHANGED <<dropped, chan, readerVars, histVars>>
    BY <2>1 DEF SubscribePush
  <2>3. s # t /\ spc[s] = "open" /\ on'[s] = on[s]
    BY <2>2 DEF Types
  <2>4. \A j \in Stream : Drops(j)' = Drops(j)
    BY <2>2 DEF Drops, readerVars
  <2>. QED
    BY <1>0, <2>2, <2>3, <2>4, ChanKept DEF readerVars, histVars
<1>2. CASE \E t \in Subscriber : SubscribeCount(t)
  <2>1. PICK t \in Subscriber : SubscribeCount(t)
    BY <1>2
  <2>2. /\ spc[t] = "pushed" /\ spc' = [spc EXCEPT ![t] = "open"]
        /\ since' = [since EXCEPT ![t] = Done(on[t])]
        /\ UNCHANGED <<dropped, on, chan, readerVars, got, slow>>
    BY <2>1 DEF SubscribeCount
  <2>3. \A j \in Stream : Drops(j)' = Drops(j)
    BY <2>2 DEF Drops, readerVars
  <2>4. CASE s = t
    <3>1. chan[s] = <<>> /\ got[s] = NoChunk /\ on[s] \in Stream
      BY <1>0, <2>2, <2>4 DEF PlaceInv, Whereabouts
    <3>2. chan'[s] = <<>> /\ LastOf(s)' = NoChunk /\ on' = on
      BY <2>2, <2>4, <3>1 DEF LastOf, Types
    <3>3. Consecutive(<<>>)
      BY DEF Consecutive
    <3>4. Consecutive(chan[s])' /\ Begun(s)'
      BY <3>2, <3>3 DEF Consecutive, Begun
    <3>. QED
      BY <1>0, <3>1, <3>2, <3>4, ChunkType
  <2>5. CASE s # t
    <3>1. spc[s] = "open" /\ since'[s] = since[s]
      BY <2>2, <2>5 DEF Types
    <3>. QED
      BY <1>0, <2>2, <2>3, <3>1, ChanKept DEF readerVars
  <2>. QED
    BY <2>4, <2>5
<1>3. CASE \E t \in Subscriber : Recv(t)
  <2>1. PICK t \in Subscriber : Recv(t)
    BY <1>3
  <2>2. /\ chan[t] # <<>> /\ chan' = [chan EXCEPT ![t] = Tail(@)]
        /\ got' = [got EXCEPT ![t] = Head(chan[t])]
        /\ UNCHANGED <<tableVars, spc, on, readerVars, since>>
    BY <2>1 DEF Recv
  <2>3. \A j \in Stream : Drops(j)' = Drops(j)
    BY <2>2 DEF Drops, readerVars, tableVars
  <2>4. CASE s = t
    <3>1. chan'[s] = Tail(chan[s]) /\ got'[s] = Head(chan[s])
      BY <2>2, <2>4 DEF Types
    <3>2. /\ Consecutive(chan[s])
          /\ LastOf(s).before <= Drops(on[s])
      BY <2>2 DEF ChanInv
    <3>3. Consecutive(chan[s])' /\ Begun(s)' /\ LastOf(s)' = LastOf(s)
      BY <2>2, <2>4, <3>1, <3>2, ChanTaken
    <3>. QED
      BY <1>0, <2>2, <2>3, <3>2, <3>3 DEF readerVars
  <2>5. CASE s # t
    <3>1. chan'[s] = chan[s] /\ got'[s] = got[s]
      BY <2>2, <2>5 DEF Types
    <3>. QED
      BY <1>0, <2>2, <2>3, <3>1, ChanKept DEF readerVars
  <2>. QED
    BY <2>4, <2>5
<1>4. CASE \E t \in Subscriber : Close(t)
  <2>1. PICK t \in Subscriber : Close(t)
    BY <1>4
  <2>2. /\ spc' = [spc EXCEPT ![t] = "closed"] /\ chan' = [chan EXCEPT ![t] = <<>>]
        /\ UNCHANGED <<tableVars, on, readerVars, histVars>>
    BY <2>1 DEF Close
  <2>3. s # t /\ spc[s] = "open" /\ chan'[s] = chan[s]
    BY <2>2 DEF Types
  <2>4. \A j \in Stream : Drops(j)' = Drops(j)
    BY <2>2 DEF Drops, readerVars, tableVars
  <2>. QED
    BY <1>0, <2>2, <2>3, <2>4, ChanKept DEF readerVars, histVars
<1>5. CASE \E k \in Stream : ReadBatch(k)
  <2>1. PICK k \in Stream : ReadBatch(k)
    BY <1>5
  <2>2. /\ rpc[k] = "idle" /\ rpc' = [rpc EXCEPT ![k] = "read"]
        /\ UNCHANGED <<holder, tableVars, subVars, sending, histVars>>
    BY <2>1 DEF ReadBatch
  <2>3. \A j \in Stream : Drops(j)' = Drops(j)
    BY <2>2 DEF Drops, tableVars, Types
  <2>. QED
    BY <1>0, <2>2, <2>3, ChanKept DEF subVars, histVars
<1>6. CASE \E k \in Stream : Pass(k)
  <2>1. PICK k \in Stream : Pass(k)
    BY <1>6
  <2>2. UNCHANGED <<tableVars, subVars, read, sending, histVars>>
    BY <2>1 DEF Pass
  <2>3. \A j \in Stream : Drops(j)' = Drops(j)
    BY <2>1, <2>2 DEF Pass, Passes, Drops, tableVars, Types
  <2>. QED
    BY <1>0, <2>2, <2>3, ChanKept DEF subVars, histVars
<1>7. CASE \E k \in Stream : Take(k) \/ PutBack(k) \/ Settle(k)
  <2>1. PICK k \in Stream : Take(k) \/ PutBack(k) \/ Settle(k)
    BY <1>7
  <2>2. rpc[k] \in {"send", "settle", "lock"} /\ UNCHANGED <<subVars, read, histVars>>
    BY <2>1, TakeDoes, PutBackDoes, SettleDoes DEF Take
  <2>3. Drops(k)' = Drops(k)
    BY <2>1, <2>2, SameDrops
  <2>4. Only(k)
    BY <2>1, TurnIn
  <2>5. \A j \in Stream : Drops(j)' = Drops(j)
    BY <2>3, <2>4 DEF Only, Drops
  <2>. QED
    BY <1>0, <2>2, <2>5, ChanKept DEF subVars, histVars
<1>8. CASE \E k \in Stream : SendNext(k)
  <2>1. PICK k \in Stream : SendNext(k)
    BY <1>8
  <2>2. /\ rpc[k] = "send" /\ Todo(k) # <<>> /\ Only(k)
        /\ UNCHANGED <<tableVars, spc, on, rpc, read, since, got>>
    BY <2>1, SendDoes
  <2>3. PICK t \in Subscriber : t = Head(Todo(k))
                                /\ (GoesOn(k, t) \/ Served(k, t) \/ Goner(k, t))
    BY <2>1, SendDoes
  <2>4. \A j \in Stream : Drops(j) <= Drops(j)'
    <3>1. \A j \in Stream \ {k} : Drops(j)' = Drops(j)
      BY <2>2 DEF Only, Drops
    <3>2. Drops(k) = sending[k].drops /\ Drops(k)' = sending'[k].drops
      BY <2>2 DEF Drops
    <3>3. sending'[k].drops \in {Drops(k), Drops(k) + 1}
      BY <2>3, <3>2 DEF GoesOn, Served, Goner, Goes
    <3>4. Drops(k) <= Drops(k)'
      BY <1>0, <3>2, <3>3
    <3>. QED
      BY <1>0, <3>1, <3>4
  <2>5. CASE s = t /\ Goes(k, t)
    <3>1. /\ spc[s] = "open" /\ on[s] = k /\ chan'[s] = Append(chan[s], NextChunk(k))
          /\ sending'[k].drops = sending[k].drops
      BY <2>2, <2>3, <2>5, FirstToServe DEF Goes, PlaceInv, Types
    <3>2. IF LastOf(s) = NoChunk THEN NextChunk(k).n = since[s] + 1
                                 ELSE Follows(LastOf(s), NextChunk(k))
      BY <2>2, <2>3, <2>5, <3>1, NextFollows DEF PlaceInv
    <3>3. NextChunk(k) \in Chunk /\ NextChunk(k).before = Drops(k)
      BY <2>2, ChunkSent
    <3>4. Consecutive(chan[s]) /\ Begun(s)
      BY <3>1 DEF ChanInv
    <3>5. Consecutive(chan[s])' /\ Begun(s)' /\ LastOf(s)' = NextChunk(k)
      BY <2>2, <3>1, <3>2, <3>3, <3>4, ChanSent
    <3>. QED
      BY <1>0, <2>2, <2>4, <3>1, <3>3, <3>4, <3>5
  <2>6. CASE ~(s = t /\ Goes(k, t))
    <3>1. chan'[s] = chan[s]
      BY <2>3, <2>6 DEF GoesOn, Served, Goner, Goes, Types
    <3>. QED
      BY <1>0, <2>2, <2>4, <3>1, ChanKept
  <2>. QED
    BY <2>5, <2>6
<1>9. CASE UNCHANGED vars
  <2>1. UNCHANGED <<tableVars, subVars, readerVars, histVars>>
    BY <1>9 DEF vars
  <2>2. \A j \in Stream : Drops(j)' = Drops(j)
    BY <2>1 DEF Drops, tableVars, readerVars
  <2>. QED
    BY <1>0, <2>1, <2>2, ChanKept DEF subVars, histVars, readerVars
<1>. QED
  BY <1>1, <1>2, <1>3, <1>4, <1>5, <1>6, <1>7, <1>8, <1>9, StepCases

\* A reader without locals is as far as it has read, but for a batch it holds.
LEMMA FreeUpto ==
  ASSUME NEW k, NEW s, Todo(k) = <<>>, Kept(k) = <<>>
  PROVE  Upto(s, k) = IF rpc[k] = "idle" THEN read[k] ELSE read[k] - batch[k]
BY EmptyQueue DEF Upto

\* While somebody is counted the counter is not zero, so the fast path is not
\* taken, and a stream with subscribers finds them in the table.
LEMMA SkipsNobody ==
  ASSUME Types, LockInv, \A k \in Stream : Stage(k), PlaceInv, CountInv,
         NEW k \in Stream, Pass(k), NEW s \in Subscriber, on[s] = k,
         spc[s] = "open", s \notin slow
  PROVE  rpc[k] = "read" /\ rpc'[k] = "lock"
<1>1. s \in In(k) /\ s \in Counted
  BY DEF PlaceInv, Whereabouts, Counted
<1>2. Todo(k) = <<>> /\ Kept(k) = <<>> /\ ~Busy(k)
  BY FreeLocals DEF Pass, Passes, Busy
<1>3. table[k] # <<>>
  BY <1>1, <1>2, EmptyQueue DEF In
<1>4. count # 0
  <2>1. Cardinality(Counted) # 0
    BY <1>1, CountedFinite, FS_EmptySet
  <2>2. Cardinality(Counted) \in Nat /\ \A j \in Stream : Removed(j) \in Nat
    BY CountedFinite, SendingParts
  <2>3. count = Cardinality(Counted)
        \/ \E j \in Stream : count = Cardinality(Counted) + Removed(j)
    BY DEF CountInv
  <2>. QED
    BY <2>1, <2>2, <2>3
<1>. QED
  BY <1>3, <1>4 DEF Pass, Passes, Types

\* A subscriber whose stream's reader does not step.
LEMMA OtherProgress ==
  ASSUME NEW s \in Subscriber, Progress(s), NEW k, k = on[s],
         rpc'[k] = rpc[k], sending'[k] = sending[k], read'[k] = read[k], batch'[k] = batch[k],
         spc'[s] = "open" => spc[s] = "open" /\ on'[s] = k,
         LastOf(s)' = LastOf(s), since'[s] = since[s], slow \subseteq slow'
  PROVE  Progress(s)'
<1>1. Todo(k)' = Todo(k) /\ Kept(k)' = Kept(k) /\ At(k)' = At(k)
  BY DEF Todo, Kept, At
<1>2. Upto(s, k)' = Upto(s, k)
  BY <1>1 DEF Upto
<1>. QED
  BY <1>1, <1>2, SameProgress

\* One turn of the reader of its stream.
LEMMA TurnProgress ==
  ASSUME Types, \A k \in Stream : Stage(k), PlaceInv,
         NEW s \in Subscriber, Progress(s), NEW k \in Stream, k = on[s],
         spc[s] = "open", s \notin slow, Take(k) \/ PutBack(k) \/ Settle(k)
  PROVE  Progress(s)'
<1>1. UNCHANGED <<spc, on, slow, chan, got, since, read, batch>>
  BY TakeDoes, PutBackDoes, SettleDoes DEF Take, subVars, histVars
<1>2. LastOf(s)' = LastOf(s)
  BY <1>1 DEF LastOf
<1>3. s \in In(k)
  BY DEF PlaceInv, Whereabouts
<1>4. PICK r \in Nat : r = read[k]
  BY ReadType
<1>5. PICK b \in Nat : b = batch[k]
  BY ReadType
<1>6. CASE Take(k)
  <2>1. /\ rpc[k] = "lock" /\ rpc'[k] = "send" /\ Kept(k)' = <<>> /\ At(k)' = 1
    BY <1>6, TakeDoes DEF Take, Types
  <2>2. Todo(k) = <<>> /\ Kept(k) = <<>>
    BY <2>1, FreeLocals DEF Busy
  <2>3. Upto(s, k) = r - b
    BY <1>4, <1>5, <2>1, <2>2, FreeUpto
  <2>4. Upto(s, k)' = r - b
    <3>1. Upto(s, k)' = IF Todo(k)' # <<>> /\ s = Head(Todo(k)') THEN r - b + 1 - 1 ELSE r - b
      BY <1>1, <1>4, <1>5, <2>1, EmptyQueue DEF Upto
    <3>2. r - b + 1 - 1 = r - b
      BY <1>4, <1>5
    <3>. QED
      BY <3>1, <3>2
  <2>5. s \notin ToSet(Kept(k)')
    BY <2>1, EmptyQueue
  <2>. QED
    BY <1>1, <1>2, <2>1, <2>3, <2>4, <2>5, SameProgress
<1>7. CASE PutBack(k)
  <2>1. /\ rpc[k] = "send" /\ rpc'[k] = "settle" /\ Todo(k) = <<>> /\ UNCHANGED sending
    BY <1>7, PutBackDoes DEF Types
  <2>2. Todo(k)' = Todo(k) /\ Kept(k)' = Kept(k) /\ At(k)' = At(k)
    BY <2>1 DEF Todo, Kept, At
  <2>3. Upto(s, k)' = Upto(s, k)
    BY <1>1, <2>1, <2>2 DEF Upto
  <2>. QED
    BY <1>1, <1>2, <2>2, <2>3, SameProgress
<1>8. CASE Settle(k)
  <2>1. /\ rpc[k] = "settle" /\ rpc'[k] = "idle" /\ sending'[k] = NoSending
    BY <1>8, SettleDoes DEF Types
  <2>2. Todo(k)' = <<>> /\ Kept(k)' = <<>>
    BY <2>1, Idle DEF Todo, Kept
  <2>3. s \in ToSet(Kept(k))
    BY <1>3, <2>1, EmptyQueue DEF In, Stage
  <2>4. Upto(s, k) = read[k] /\ Upto(s, k)' = read[k]
    BY <1>1, <2>1, <2>3 DEF Upto
  <2>. QED
    BY <1>1, <1>2, <2>2, <2>3, <2>4, EmptyQueue, SameProgress
<1>. QED
  BY <1>6, <1>7, <1>8

\* One try_send of the reader of its stream.
LEMMA SendProgress ==
  ASSUME Types, \A k \in Stream : Stage(k), PlaceInv, DropInv, ChanInv, ProgressInv,
         NEW s \in Subscriber, NEW k \in Stream, k = on[s],
         spc[s] = "open", s \notin slow, SendNext(k)
  PROVE  Progress(s)'
<1>1. /\ rpc[k] = "send" /\ rpc'[k] = "send" /\ Todo(k) # <<>>
      /\ UNCHANGED <<spc, on, since, got, read, batch>>
  BY SendDoes
<1>2. PICK t \in Subscriber : t = Head(Todo(k))
                              /\ (GoesOn(k, t) \/ Served(k, t) \/ Goner(k, t))
  BY SendDoes
<1>3. /\ ToSet(Append(Kept(k), t)) = ToSet(Kept(k)) \cup {t} /\ t \notin ToSet(Kept(k))
      /\ on[t] = k
  BY <1>1, <1>2, FirstToServe DEF PlaceInv
<1>4. PICK r \in Nat : r = read[k]
  BY ReadType
<1>5. PICK b \in Nat : b = batch[k] /\ 1 <= b
  BY <1>1, ReadType
<1>6. PICK a \in Nat : a = At(k) /\ a <= b
  BY <1>1, <1>5, ReadType
<1>7. Progress(s)
  BY DEF ProgressInv
<1>8. CASE s # t
  <2>1. LastOf(s)' = LastOf(s)
    BY <1>1, <1>2, <1>8 DEF LastOf, GoesOn, Served, Goner, Goes, Types
  <2>2. s \in ToSet(Kept(k)') <=> s \in ToSet(Kept(k))
    BY <1>2, <1>3, <1>8 DEF GoesOn, Served, Goner
  <2>3. Upto(s, k) = IF s \in ToSet(Kept(k)) THEN r ELSE r - b
    BY <1>1, <1>2, <1>4, <1>5, <1>8 DEF Upto
  <2>4. (Todo(k)' = Todo(k) /\ At(k)' = a + 1) \/ At(k)' = 1
    BY <1>2, <1>6 DEF GoesOn, Served, Goner
  <2>5. Upto(s, k)' = IF s \in ToSet(Kept(k)) THEN r ELSE r - b
    <3>1. r - b + 1 - 1 = r - b
      BY <1>4, <1>5
    <3>2. Todo(k)' # <<>> /\ s = Head(Todo(k)') => At(k)' = 1
      BY <1>2, <1>8, <2>4
    <3>. QED
      BY <1>1, <1>4, <1>5, <2>2, <3>1, <3>2 DEF Upto
  <2>. QED
    BY <1>1, <1>2, <1>7, <1>8, <2>1, <2>2, <2>3, <2>4, <2>5, SameProgress
<1>9. CASE s = t /\ Goes(k, t)
  <2>1. chan'[s] = Append(chan[s], NextChunk(k)) /\ NextChunk(k) \in Chunk
        /\ NextChunk(k).n = r - b + a
    BY <1>1, <1>4, <1>5, <1>6, <1>9, ChunkSent DEF Goes, Types
  <2>2. chan[s] \in Seq(Chunk)
    BY DEF Types
  <2>3. LastOf(s)' = NextChunk(k) /\ NextChunk(k) # NoChunk
    <3>1. LastOf(s)' = IF chan'[s] = <<>> THEN got'[s] ELSE chan'[s][Len(chan'[s])]
      BY DEF LastOf
    <3>2. PICK c \in Chunk : c = NextChunk(k)
      BY <2>1
    <3>3. chan'[s] = Append(chan[s], c)
      BY <2>1, <3>2
    <3>4. chan'[s] # <<>> /\ chan'[s][Len(chan'[s])] = c
      BY <2>2, <3>3
    <3>. QED
      BY <3>1, <3>2, <3>4, ChunkType
  <2>4. CASE GoesOn(k, t)
    <3>1. Todo(k)' = Todo(k) /\ Kept(k)' = Kept(k) /\ At(k)' = a + 1
      BY <1>6, <2>4 DEF GoesOn
    <3>2. Upto(s, k)' = r - b + (a + 1) - 1
      BY <1>1, <1>2, <1>3, <1>4, <1>5, <1>9, <3>1 DEF Upto
    <3>3. r - b + (a + 1) - 1 = r - b + a
      BY <1>4, <1>5, <1>6
    <3>. QED
      BY <1>1, <2>1, <2>3, <3>2, <3>3 DEF Progress
  <2>5. CASE Served(k, t)
    <3>1. Kept(k)' = Append(Kept(k), t) /\ a >= b
      BY <1>5, <1>6, <2>5 DEF Served
    <3>2. r - b + a = r
      BY <1>4, <1>5, <1>6, <3>1
    <3>3. Upto(s, k)' = r
      BY <1>1, <1>3, <1>4, <1>9, <3>1 DEF Upto
    <3>. QED
      BY <1>1, <2>1, <2>3, <3>2, <3>3 DEF Progress
  <2>6. ~Goner(k, t)
    <3>1. Removed(k) \in Nat
      BY SendingParts
    <3>. QED
      BY <1>9, <3>1 DEF Goner, Goes
  <2>. QED
    BY <1>2, <2>4, <2>5, <2>6
<1>10. CASE s = t /\ Goner(k, t)
  BY <1>1, <1>10 DEF Progress, Goner
<1>. QED
  BY <1>2, <1>8, <1>9, <1>10 DEF GoesOn, Served

LEMMA ProgressStep ==
  ASSUME Types, LockInv, \A k \in Stream : Stage(k), PlaceInv, CountInv, DropInv, ChanInv,
         ProgressInv, [Next]_vars
  PROVE  ProgressInv'
<1>. SUFFICES ASSUME NEW s \in Subscriber PROVE Progress(s)'
  BY DEF ProgressInv
<1>0. Progress(s) /\ (spc[s] = "idle" \/ on[s] \in Stream)
  BY DEF ProgressInv, PlaceInv, Whereabouts
<1>1. CASE \E t \in Subscriber, k \in Stream : SubscribePush(t, k)
  <2>1. PICK t \in Subscriber, k \in Stream : SubscribePush(t, k)
    BY <1>1
  <2>2. /\ spc' = [spc EXCEPT ![t] = "pushed"] /\ on' = [on EXCEPT ![t] = k]
        /\ UNCHANGED <<chan, rpc, read, batch, sending, since, got, slow>>
    BY <2>1 DEF SubscribePush, readerVars, histVars
  <2>3. spc'[s] = "open" => spc[s] = "open" /\ on'[s] = on[s]
    BY <2>2 DEF Types
  <2>4. LastOf(s)' = LastOf(s)
    BY <2>2 DEF LastOf
  <2>. QED
    BY <1>0, <2>2, <2>3, <2>4, OtherProgress
<1>2. CASE \E t \in Subscriber : SubscribeCount(t)
  <2>1. PICK t \in Subscriber : SubscribeCount(t)
    BY <1>2
  <2>2. /\ spc[t] = "pushed" /\ spc' = [spc EXCEPT ![t] = "open"]
        /\ since' = [since EXCEPT ![t] = Done(on[t])]
        /\ UNCHANGED <<on, chan, rpc, read, batch, sending, got, slow>>
    BY <2>1 DEF SubscribeCount, readerVars
  <2>3. LastOf(s)' = LastOf(s)
    BY <2>2 DEF LastOf
  <2>4. CASE s = t
    <3>1. PICK k \in Stream : k = on[s]
      BY <1>0, <2>2, <2>4
    <3>2. ~Busy(k) /\ chan[s] = <<>> /\ got[s] = NoChunk
      BY <2>2, <2>4 DEF LockInv, PlaceInv, Whereabouts
    <3>3. Todo(k) = <<>> /\ Kept(k) = <<>>
      BY <3>2, FreeLocals
    <3>4. Todo(k)' = <<>> /\ Kept(k)' = <<>>
      BY <2>2, <3>3 DEF Todo, Kept
    <3>5. LastOf(s)' = NoChunk /\ since'[s] = Done(k)
      BY <2>2, <2>3, <2>4, <3>1, <3>2 DEF LastOf, Types
    <3>6. Upto(s, k)' = Done(k)
      BY <2>2, <3>4, EmptyQueue DEF Upto, Done
    <3>8. Fresh(s, k)'
      BY <3>4, <3>5, <3>6, EmptyQueue DEF Fresh
    <3>. QED
      BY <2>2, <3>1, <3>5, <3>8 DEF Progress
  <2>5. CASE s # t
    <3>1. spc'[s] = spc[s] /\ since'[s] = since[s]
      BY <2>2, <2>5 DEF Types
    <3>. QED
      BY <1>0, <2>2, <2>3, <3>1, OtherProgress
  <2>. QED
    BY <2>4, <2>5
<1>3. CASE \E t \in Subscriber : Recv(t)
  <2>1. PICK t \in Subscriber : Recv(t)
    BY <1>3
  <2>2. /\ spc[t] = "open" /\ chan[t] # <<>> /\ chan' = [chan EXCEPT ![t] = Tail(@)]
        /\ got' = [got EXCEPT ![t] = Head(chan[t])]
        /\ UNCHANGED <<spc, on, rpc, read, batch, sending, since, slow>>
    BY <2>1 DEF Recv, readerVars
  <2>3. LastOf(s)' = LastOf(s)
    <3>1. CASE s = t
      <4>1. chan'[s] = Tail(chan[s]) /\ got'[s] = Head(chan[s]) /\ Consecutive(chan[s])
        BY <2>2, <3>1 DEF Types, ChanInv
      <4>. QED
        BY <2>2, <3>1, <4>1, ChanTaken
    <3>2. CASE s # t
      BY <2>2, <3>2 DEF LastOf, Types
    <3>. QED
      BY <3>1, <3>2
  <2>. QED
    BY <1>0, <2>2, <2>3, OtherProgress
<1>4. CASE \E t \in Subscriber : Close(t)
  <2>1. PICK t \in Subscriber : Close(t)
    BY <1>4
  <2>2. /\ spc' = [spc EXCEPT ![t] = "closed"] /\ chan' = [chan EXCEPT ![t] = <<>>]
        /\ UNCHANGED <<on, rpc, read, batch, sending, since, got, slow>>
    BY <2>1 DEF Close, readerVars, histVars
  <2>3. CASE s = t
    BY <2>2, <2>3 DEF Progress, Types
  <2>4. CASE s # t
    <3>1. spc'[s] = spc[s] /\ LastOf(s)' = LastOf(s)
      BY <2>2, <2>4 DEF Types, LastOf
    <3>. QED
      BY <1>0, <2>2, <3>1, OtherProgress
  <2>. QED
    BY <2>3, <2>4
<1>5. CASE \E k \in Stream : ReadBatch(k)
  <2>1. PICK k \in Stream : ReadBatch(k)
    BY <1>5
  <2>2. PICK n \in 1..MaxBatch : /\ read' = [read EXCEPT ![k] = @ + n]
                                 /\ batch' = [batch EXCEPT ![k] = n]
    BY <2>1 DEF ReadBatch
  <2>3. /\ rpc[k] = "idle" /\ rpc' = [rpc EXCEPT ![k] = "read"]
        /\ UNCHANGED <<spc, on, chan, sending, since, got, slow>>
    BY <2>1 DEF ReadBatch, subVars, histVars
  <2>4. LastOf(s)' = LastOf(s)
    BY <2>3 DEF LastOf
  <2>5. CASE on[s] = k
    <3>1. Todo(k) = <<>> /\ Kept(k) = <<>>
      BY <2>3, FreeLocals DEF Busy
    <3>2. Todo(k)' = <<>> /\ Kept(k)' = <<>>
      BY <2>3, <3>1 DEF Todo, Kept
    <3>3. /\ rpc'[k] = "read" /\ read'[k] = read[k] + n /\ batch'[k] = n
      BY <2>2, <2>3 DEF Types
    <3>4. Upto(s, k)' = (read[k] + n) - n
      BY <3>2, <3>3, EmptyQueue DEF Upto
    <3>5. Upto(s, k) = read[k]
      BY <2>3 DEF Upto
    <3>6. (read[k] + n) - n = read[k]
      <4>1. read[k] \in Nat /\ n \in Nat
        BY ReadType, SizeAssumption
      <4>. QED
        BY <4>1
    <3>. QED
      BY <1>0, <2>3, <2>4, <2>5, <3>2, <3>4, <3>5, <3>6, EmptyQueue, SameProgress
  <2>6. CASE on[s] # k
    <3>1. CASE spc[s] = "open"
      <4>1. on[s] \in Stream
        BY <1>0, <3>1
      <4>2. rpc'[on[s]] = rpc[on[s]] /\ read'[on[s]] = read[on[s]] /\ batch'[on[s]] = batch[on[s]]
        BY <2>2, <2>3, <2>6, <4>1 DEF Types
      <4>. QED
        BY <1>0, <2>3, <2>4, <4>2, OtherProgress
    <3>2. CASE spc[s] # "open"
      BY <2>3, <3>2 DEF Progress
    <3>. QED
      BY <3>1, <3>2
  <2>. QED
    BY <2>5, <2>6
<1>6. CASE \E k \in Stream : Pass(k)
  <2>1. PICK k \in Stream : Pass(k)
    BY <1>6
  <2>2. UNCHANGED <<spc, on, chan, read, batch, sending, since, got, slow>>
        /\ \A j \in Stream \ {k} : rpc'[j] = rpc[j]
    BY <2>1 DEF Pass, Passes, subVars, histVars, Types
  <2>3. CASE spc[s] = "open" /\ s \notin slow
    <3>1. PICK j \in Stream : j = on[s]
      BY <1>0, <2>3
    <3>2. Todo(j)' = Todo(j) /\ Kept(j)' = Kept(j) /\ At(j)' = At(j) /\ LastOf(s)' = LastOf(s)
      BY <2>2 DEF Todo, Kept, At, LastOf
    <3>3. rpc'[j] = rpc[j] \/ (rpc[j] = "read" /\ rpc'[j] = "lock")
      BY <2>1, <2>2, <2>3, <3>1, SkipsNobody
    <3>4. Upto(s, j)' = Upto(s, j)
      BY <2>2, <3>2, <3>3 DEF Upto
    <3>. QED
      BY <1>0, <2>2, <3>1, <3>2, <3>4, SameProgress
  <2>4. CASE ~(spc[s] = "open" /\ s \notin slow)
    BY <2>2, <2>4 DEF Progress
  <2>. QED
    BY <2>3, <2>4
<1>7. CASE \E k \in Stream : Take(k) \/ PutBack(k) \/ Settle(k) \/ SendNext(k)
  <2>1. PICK k \in Stream : Take(k) \/ PutBack(k) \/ Settle(k) \/ SendNext(k)
    BY <1>7
  <2>2. UNCHANGED <<spc, on, got, since, read, batch>> /\ Only(k) /\ slow \subseteq slow'
    <3>1. CASE Take(k) \/ PutBack(k) \/ Settle(k)
      BY <3>1, TakeDoes, PutBackDoes, SettleDoes DEF Take, subVars, histVars
    <3>2. CASE SendNext(k)
      BY <3>2, SendDoes DEF GoesOn, Served, Goner, Goes
    <3>. QED
      BY <2>1, <3>1, <3>2
  <2>3. CASE ~(spc[s] = "open" /\ s \notin slow)
    BY <2>2, <2>3 DEF Progress
  <2>4. CASE spc[s] = "open" /\ s \notin slow /\ on[s] = k
    BY <1>0, <2>1, <2>4, TurnProgress, SendProgress
  <2>5. CASE spc[s] = "open" /\ s \notin slow /\ on[s] # k
    <3>1. PICK j \in Stream \ {k} : j = on[s]
      BY <1>0, <2>5
    <3>2. chan'[s] = chan[s]
      <4>1. CASE Take(k) \/ PutBack(k) \/ Settle(k)
        BY <4>1, TakeDoes, PutBackDoes, SettleDoes DEF Take, subVars
      <4>2. CASE SendNext(k)
        <5>1. PICK t \in Subscriber : t = Head(Todo(k))
                                      /\ (GoesOn(k, t) \/ Served(k, t) \/ Goner(k, t))
          BY <4>2, SendDoes
        <5>2. Todo(k) # <<>>
          BY <4>2, SendDoes
        <5>3. s # t
          BY <2>5, <5>1, <5>2, FirstToServe DEF PlaceInv
        <5>. QED
          BY <5>1, <5>3 DEF GoesOn, Served, Goner, Goes, Types
      <4>. QED
        BY <2>1, <4>1, <4>2
    <3>3. LastOf(s)' = LastOf(s)
      BY <2>2, <3>2 DEF LastOf
    <3>. QED
      BY <1>0, <2>2, <3>1, <3>3, OtherProgress DEF Only
  <2>. QED
    BY <2>3, <2>4, <2>5
<1>8. CASE UNCHANGED vars
  <2>1. UNCHANGED <<spc, on, chan, rpc, read, batch, sending, since, got, slow>>
    BY <1>8 DEF vars, subVars, readerVars, histVars
  <2>2. LastOf(s)' = LastOf(s)
    BY <2>1 DEF LastOf
  <2>. QED
    BY <1>0, <2>1, <2>2, OtherProgress
<1>. QED
  BY <1>1, <1>2, <1>3, <1>4, <1>5, <1>6, <1>7, <1>8, StepCases

-----------------------------------------------------------------------------
(* The invariant.                                                          *)

SubscriptionInv ==
  /\ Types /\ LockInv /\ (\A k \in Stream : Stage(k))
  /\ PlaceInv /\ CountInv /\ CountBound /\ DropInv
  /\ ChanInv /\ ProgressInv

LEMMA SubscriptionInit == ASSUME Init PROVE SubscriptionInv
<1>1. \A k \in Stream : /\ table[k] = <<>> /\ dropped[k] = 0 /\ rpc[k] = "idle"
                        /\ sending[k] = NoSending
  BY DEF Init
<1>2. \A s \in Subscriber : spc[s] = "idle" /\ chan[s] = <<>> /\ got[s] = NoChunk
  BY DEF Init
<1>3. Types
  <2>1. <<>> \in Seq(Subscriber) /\ <<>> \in Seq(Chunk) /\ Len(<<>>) <= Capacity
    BY SizeAssumption
  <2>2. 0 \in 0..MaxChunks /\ 0 \in 0..MaxBatch /\ 0 \in Nat
    BY SizeAssumption
  <2>3. holder = None /\ count = 0 /\ slow = {}
    BY DEF Init
  <2>4. /\ table \in [Stream -> Seq(Subscriber)] /\ dropped \in [Stream -> Nat]
        /\ rpc \in [Stream -> {"idle", "read", "lock", "send", "settle"}]
        /\ read \in [Stream -> 0..MaxChunks] /\ batch \in [Stream -> 0..MaxBatch]
        /\ sending \in [Stream -> Sending]
    BY <2>1, <2>2, Idle DEF Init
  <2>5. /\ spc \in [Subscriber -> {"idle", "pushed", "open", "closed"}]
        /\ on \in [Subscriber -> Stream \cup {None}]
        /\ chan \in [Subscriber -> Seq(Chunk)] /\ since \in [Subscriber -> 0..MaxChunks]
        /\ got \in [Subscriber -> Chunk \cup {NoChunk}]
    BY <2>1, <2>2 DEF Init
  <2>. QED
    BY <1>2, <2>1, <2>2, <2>3, <2>4, <2>5 DEF Types
<1>4. LockInv
  BY <1>1, <1>2 DEF LockInv, Busy
<1>5. \A k \in Stream : Todo(k) = <<>> /\ Kept(k) = <<>> /\ At(k) = 1 /\ ~Busy(k)
  BY <1>1, Idle DEF Todo, Kept, At, Busy
<1>6. \A k \in Stream : Stage(k)
  BY <1>1, <1>5 DEF Stage, Busy
<1>7. slow = {}
  BY DEF Init
<1>8. \A k \in Stream : In(k) = {}
  BY <1>1, <1>5, EmptyQueue DEF In
<1>9. PlaceInv
  BY <1>1, <1>2, <1>5, <1>7, <1>8, EmptyQueue DEF PlaceInv, Place, Whereabouts
<1>10. CountInv /\ CountBound
  <2>1. Counted = {} /\ count = 0
    BY <1>8 DEF Counted, Init
  <2>2. Cardinality(Subscriber) \in Nat
    BY FS_CardinalityType, FiniteAssumption
  <2>. QED
    BY <1>5, <2>1, <2>2, FS_EmptySet DEF CountInv, CountBound
<1>11. DropInv
  <2>1. \A k \in Stream : SlowOn(k) = {}
    BY <1>7 DEF SlowOn
  <2>. QED
    BY <1>1, <2>1, FS_EmptySet DEF DropInv, Drops, Behind
<1>12. ChanInv /\ ProgressInv
  BY <1>2 DEF ChanInv, ProgressInv, Progress
<1>. QED
  BY <1>3, <1>4, <1>6, <1>9, <1>10, <1>11, <1>12 DEF SubscriptionInv

LEMMA SubscriptionStep == ASSUME SubscriptionInv, [Next]_vars PROVE SubscriptionInv'
<1>1. Types' /\ LockInv' /\ \A k \in Stream : Stage(k)'
  BY TypesStep, LockStep, StageStep DEF SubscriptionInv
<1>2. PlaceInv' /\ CountInv' /\ DropInv'
  BY PlaceStep, CountStep, DropStep DEF SubscriptionInv
<1>3. CountBound'
  BY <1>2, BoundStep DEF SubscriptionInv
<1>4. ChanInv'
  BY <1>1, <1>2, ChanStep DEF SubscriptionInv
<1>5. ProgressInv'
  BY ProgressStep DEF SubscriptionInv
<1>. QED
  BY <1>1, <1>2, <1>3, <1>4, <1>5 DEF SubscriptionInv

LEMMA SubscriptionAlways == Spec => []SubscriptionInv
<1>1. Init => SubscriptionInv
  BY SubscriptionInit
<1>2. SubscriptionInv /\ [Next]_vars => SubscriptionInv'
  BY SubscriptionStep
<1>. QED
  BY <1>1, <1>2, PTL DEF Spec

-----------------------------------------------------------------------------
(* The theorems.                                                           *)

\* A queue of some of the subscribers is one of the bounded ones.
LEMMA BoundedQueue ==
  ASSUME NEW q \in Seq(Subscriber), Distinct(q)
  PROVE  q \in BoundedSeq(Subscriber, Cardinality(Subscriber))
<1>1. PICK m \in Nat : m = Len(q)
  OBVIOUS
<1>2. m \in 0..Cardinality(Subscriber)
  BY <1>1, QueueLength, FS_CardinalityType, FiniteAssumption
<1>3. q \in [1..m -> Subscriber]
  BY <1>1
<1>. QED
  BY <1>2, <1>3, Zenon DEF BoundedSeq, SeqOf

LEMMA TypesMean == ASSUME SubscriptionInv PROVE TypeOK
<1>. USE DEF SubscriptionInv
<1>1. PICK c \in Nat : c = Cardinality(Subscriber)
  BY FS_CardinalityType, FiniteAssumption
<1>2. table \in [Stream -> BoundedSeq(Subscriber, Cardinality(Subscriber))]
  <2>1. ASSUME NEW k \in Stream
        PROVE  table[k] \in BoundedSeq(Subscriber, Cardinality(Subscriber))
    BY BoundedQueue DEF Types, PlaceInv, Place
  <2>. QED
    BY <2>1 DEF Types
<1>3. dropped \in [Stream -> Total]
  <2>1. ASSUME NEW k \in Stream
        PROVE  dropped[k] \in Total
    <3>1. dropped[k] \in Nat /\ Drops(k) \in 0..c
      BY <1>1, DropsSmall DEF Types
    <3>2. dropped[k] <= Drops(k)
      BY <3>1 DEF DropInv, Behind, Drops
    <3>. QED
      BY <1>1, <3>1, <3>2 DEF Total
  <2>. QED
    BY <2>1 DEF Types
<1>4. count \in Total
  BY <1>1 DEF Types, CountBound, Total
<1>5. \A s \in Subscriber : Len(chan[s]) <= Capacity /\ ToSet(chan[s]) \subseteq Chunk
  <2>1. ASSUME NEW s \in Subscriber
        PROVE  ToSet(chan[s]) \subseteq Chunk
    <3>1. chan[s] \in Seq(Chunk)
      BY DEF Types
    <3>. QED
      BY <3>1 DEF ToSet
  <2>. QED
    BY <2>1 DEF Types
<1>. QED
  BY <1>2, <1>3, <1>4, <1>5 DEF Types, TypeOK

\* The table, the counters, the channels and the readers keep their types: no
\* channel holds more than its capacity, no subscriber is in a table twice, and
\* neither the counter nor a stream's count of drops exceeds the number of
\* subscriptions (src/native_runtime.rs subscribe_output,
\* broadcast_output_batch).
THEOREM TypeAlways == Spec => []TypeOK
<1>1. SubscriptionInv => TypeOK
  BY TypesMean
<1>. QED
  BY <1>1, SubscriptionAlways, PTL

\* The counter that readers look at without the lock is exact whenever nobody
\* holds it (src/native_runtime.rs subscribe_output, broadcast_output_batch,
\* decrement_subscriber_count).
THEOREM CountExactAlways == Spec => []CountExact
<1>1. SubscriptionInv => CountExact
  BY CountIsExact DEF SubscriptionInv
<1>. QED
  BY <1>1, SubscriptionAlways, PTL

\* What a subscriber has seen is what it took last and what waits for it.
LEMMA SeenIs ==
  ASSUME SubscriptionInv, NEW s \in Subscriber, spc[s] = "open"
  PROVE  /\ Consecutive(Seen(s))
         /\ IF Seen(s) = <<>> THEN LastOf(s) = NoChunk
                              ELSE /\ LastOf(s) # NoChunk
                                   /\ Seen(s)[Len(Seen(s))] = LastOf(s)
         /\ got[s] = NoChunk /\ Seen(s) # <<>> => Seen(s)[1].n = since[s] + 1
<1>1. /\ Types /\ Consecutive(chan[s]) /\ Begun(s)
      /\ chan[s] \in Seq(Chunk) /\ got[s] \in Chunk \cup {NoChunk}
  BY DEF SubscriptionInv, ChanInv, Types
<1>2. CASE got[s] = NoChunk
  <2>1. Seen(s) = chan[s]
    BY <1>2 DEF Seen
  <2>2. IF chan[s] = <<>> THEN LastOf(s) = NoChunk
                          ELSE LastOf(s) # NoChunk /\ chan[s][Len(chan[s])] = LastOf(s)
    BY <1>1, <1>2, LastOfType DEF LastOf
  <2>. QED
    BY <1>1, <1>2, <2>1, <2>2 DEF Begun
<1>3. CASE got[s] # NoChunk
  <2>1. PICK g \in Chunk : g = got[s]
    BY <1>1, <1>3
  <2>2. chan[s] # <<>> => Follows(g, chan[s][1])
    BY <1>1, <1>3, <2>1 DEF Begun
  <2>3. Seen(s) = <<g>> \o chan[s]
    BY <1>3, <2>1 DEF Seen
  <2>4. /\ Seen(s) # <<>> /\ Consecutive(Seen(s))
        /\ Seen(s)[Len(Seen(s))] = IF chan[s] = <<>> THEN g ELSE chan[s][Len(chan[s])]
    BY <1>1, <2>2, <2>3, PrependChunk
  <2>5. Seen(s)[Len(Seen(s))] = LastOf(s)
    BY <2>1, <2>4 DEF LastOf
  <2>6. LastOf(s) # NoChunk
    BY <1>1, <1>3, LastOfType DEF LastOf
  <2>. QED
    BY <1>3, <2>4, <2>5, <2>6
<1>. QED
  BY <1>2, <1>3

\* A subscription that is not dropped misses nothing of its stream, the fast
\* path and the lock notwithstanding (src/native_runtime.rs
\* broadcast_output_batch).
THEOREM NothingMissedAlways == Spec => []NothingMissed
<1>1. ASSUME SubscriptionInv
      PROVE  NothingMissed
  <2>1. SUFFICES ASSUME NEW s \in Subscriber, spc[s] = "open"
                 PROVE  /\ \A i \in 1..(Len(Seen(s)) - 1) :
                             /\ Seen(s)[i + 1].n = Seen(s)[i].n + 1
                             /\ Seen(s)[i].before <= Seen(s)[i + 1].before
                        /\ got[s] = NoChunk /\ Seen(s) # <<>> => Seen(s)[1].n = since[s] + 1
                        /\ s \notin slow /\ rpc[on[s]] = "idle" =>
                             IF Seen(s) = <<>> THEN read[on[s]] = since[s]
                             ELSE Seen(s)[Len(Seen(s))].n = read[on[s]]
    BY DEF NothingMissed
  <2>2. \A i \in 1..(Len(Seen(s)) - 1) : /\ Seen(s)[i + 1].n = Seen(s)[i].n + 1
                                         /\ Seen(s)[i].before <= Seen(s)[i + 1].before
    BY <1>1, <2>1, SeenIs DEF Consecutive, Follows
  <2>3. got[s] = NoChunk /\ Seen(s) # <<>> => Seen(s)[1].n = since[s] + 1
    BY <1>1, <2>1, SeenIs
  <2>4. ASSUME s \notin slow, rpc[on[s]] = "idle"
        PROVE  IF Seen(s) = <<>> THEN read[on[s]] = since[s]
               ELSE Seen(s)[Len(Seen(s))].n = read[on[s]]
    <3>1. IF LastOf(s) = NoChunk THEN read[on[s]] = since[s] ELSE LastOf(s).n = read[on[s]]
      BY <1>1, <2>1, <2>4 DEF SubscriptionInv, ProgressInv, Progress, Fresh, Upto
    <3>. QED
      BY <1>1, <2>1, <3>1, SeenIs
  <2>. QED
    BY <2>2, <2>3, <2>4
<1>. QED
  BY <1>1, SubscriptionAlways, PTL


-----------------------------------------------------------------------------
(* The contract.                                                           *)

\* Of any numbers one is the least.
LEMMA LeastOf ==
  ASSUME NEW S \in SUBSET Nat, S # {}
  PROVE  \E x \in S : \A y \in S : x <= y
<1>1. PICK x \in S : \A y \in S : <<y, x>> \notin OpToRel(<, Nat)
  BY WFMin, NatLessThanWellFounded
<1>2. ASSUME NEW y \in S
      PROVE  x <= y
  <2>1. x \in Nat /\ y \in Nat /\ <<y, x>> \in Nat \X Nat
    OBVIOUS
  <2>2. ~(y < x)
    BY <1>1, <2>1 DEF OpToRel
  <2>. QED
    BY <2>1, <2>2
<1>. QED
  BY <1>2

\* The numbers of consecutive chunks.
LEMMA Numbered ==
  ASSUME NEW q \in Seq(Chunk), Consecutive(q)
  PROVE  \A i \in 1..Len(q) : q[i].n = q[1].n + i - 1
<1>1. PICK m \in Nat : m = Len(q)
  OBVIOUS
<1>2. /\ \A i \in 1..m : q[i].n \in Nat
      /\ \A i \in 1..(m - 1) : q[i + 1].n = q[i].n + 1
  <2>1. \A i \in 1..m : q[i] \in Chunk
    BY <1>1
  <2>2. \A c \in Chunk : c.n \in Nat
    BY ChunkType
  <2>. QED
    BY <1>1, <2>1, <2>2 DEF Consecutive, Follows
<1>. DEFINE Bad == {i \in 1..m : q[i].n # q[1].n + i - 1}
<1>3. SUFFICES ASSUME Bad # {} PROVE FALSE
  BY <1>1
<1>4. PICK i \in Bad : \A j \in Bad : i <= j
  <2>1. Bad \in SUBSET Nat
    OBVIOUS
  <2>. HIDE DEF Bad
  <2>. QED
    BY <1>3, <2>1, LeastOf
<1>5. i \in 1..m /\ q[i].n # q[1].n + i - 1
  OBVIOUS
<1>6. i # 1
  <2>1. 1 \in 1..m => q[1].n \in Nat
    BY <1>2
  <2>. QED
    BY <1>5, <2>1
<1>7. PICK j \in 1..(m - 1) : i = j + 1
  <2>1. i - 1 \in 1..(m - 1) /\ i = (i - 1) + 1
    BY <1>5, <1>6
  <2>. QED
    BY <2>1
<1>8. j \in 1..m /\ 1 \in 1..m /\ ~(i <= j)
  BY <1>7
<1>9. q[j].n = q[1].n + j - 1
  BY <1>4, <1>8
<1>10. q[i].n = q[j].n + 1
  BY <1>2, <1>7
<1>11. q[1].n \in Nat
  BY <1>2, <1>8
<1>. QED
  BY <1>5, <1>7, <1>9, <1>10, <1>11

\* What a subscriber has been given is what its stream's reader has come to,
\* and what it has not taken is in its channel.
LEMMA GivenIs ==
  ASSUME SubscriptionInv, NEW s \in Subscriber, spc[s] = "open"
  PROVE  /\ Given(s) = Number(s, LastOf(s))
         /\ on[s] \in Stream /\ Taken(s) \in Nat /\ Given(s) = Taken(s) + Len(chan[s])
         /\ s \notin slow => Given(s) = Upto(s, on[s])
<1>1. /\ Types /\ Consecutive(chan[s]) /\ Begun(s)
      /\ chan[s] \in Seq(Chunk) /\ got[s] \in Chunk \cup {NoChunk} /\ since[s] \in Nat
      /\ on[s] \in Stream
  BY SizeAssumption DEF SubscriptionInv, ChanInv, Types, PlaceInv, Whereabouts
<1>2. Given(s) = Number(s, LastOf(s))
  BY DEF Given, LastOf, Last
<1>3. Taken(s) \in Nat
  <2>1. got[s] # NoChunk => got[s].n \in Nat
    BY <1>1, ChunkType
  <2>. QED
    BY <1>1, <2>1 DEF Taken, Number
<1>4. Given(s) = Taken(s) + Len(chan[s])
  <2>1. CASE chan[s] = <<>>
    <3>1. Given(s) = Taken(s) /\ Len(chan[s]) = 0
      BY <2>1 DEF Given, Taken
    <3>. QED
      BY <1>3, <3>1
  <2>2. CASE chan[s] # <<>>
    <3>1. PICK m \in Nat : m = Len(chan[s]) /\ 1 <= m
      BY <1>1, <2>2
    <3>2. PICK c \in Chunk : c = chan[s][1]
      BY <1>1, <3>1
    <3>3. c.n \in Nat /\ c.n = Taken(s) + 1
      <4>1. c.n \in Nat
        BY ChunkType
      <4>2. c.n = Taken(s) + 1
        BY <1>1, <2>2, <3>2 DEF Begun, Taken, Number, Follows
      <4>. QED
        BY <4>1, <4>2
    <3>4. PICK d \in Chunk : d = chan[s][m]
      BY <1>1, <3>1
    <3>5. d.n = c.n + m - 1
      BY <1>1, <3>1, <3>2, <3>4, Numbered
    <3>6. Given(s) = d.n
      BY <1>2, <2>2, <3>1, <3>4, ChunkType DEF LastOf, Number
    <3>. QED
      BY <1>3, <3>1, <3>3, <3>5, <3>6
  <2>. QED
    BY <2>1, <2>2
<1>5. ASSUME s \notin slow
      PROVE  Given(s) = Upto(s, on[s])
  BY <1>2, <1>5 DEF SubscriptionInv, ProgressInv, Progress, Fresh, Number
<1>. QED
  BY <1>1, <1>2, <1>3, <1>4, <1>5

\* A view of which nothing changes.
LEMMA SameView ==
  ASSUME NEW s,
         \/ spc[s] = "open" /\ UNCHANGED <<spc[s], on[s], since[s], got[s], chan[s]>>
         \/ spc[s] # "open" /\ spc'[s] = spc[s]
         \/ spc[s] = "idle" /\ spc'[s] = "pushed"
  PROVE  View(s)' = View(s)
<1>1. CASE spc[s] = "open" /\ UNCHANGED <<spc[s], on[s], since[s], got[s], chan[s]>>
  <2>1. Taken(s)' = Taken(s) /\ Given(s)' = Given(s)
    BY <1>1 DEF Taken, Given, Number
  <2>. QED
    BY <1>1, <2>1 DEF View
<1>2. CASE spc[s] # "open" /\ spc'[s] = spc[s]
  BY <1>2 DEF View
<1>3. CASE spc[s] = "idle" /\ spc'[s] = "pushed"
  BY <1>3 DEF View
<1>. QED
  BY <1>1, <1>2, <1>3

\* A step that is none of the contract's.
LEMMA NoStep ==
  ASSUME UNCHANGED <<read, slow>>, \A k \in Stream : Done(k)' = Done(k),
         \A s \in Subscriber : View(s)' = View(s)
  PROVE  UNCHANGED Contract!vars
BY DEF Contract!vars

OpenView(s, taken, given) == [state |-> "open", on |-> on[s], taken |-> taken, given |-> given]

LEMMA OpenIs ==
  ASSUME NEW s
  PROVE  /\ View(s).state = "open" <=> spc[s] = "open"
         /\ spc[s] = "open" => View(s) = OpenView(s, Taken(s), Given(s))
BY DEF View, OpenView

\* What the steps of the contract that concern one subscriber are in terms of
\* its view.
LEMMA ContractSteps ==
  ASSUME NEW s \in Subscriber, \A t \in Subscriber \ {s} : View(t)' = View(t),
         UNCHANGED read, \A k \in Stream : Done(k)' = Done(k)
  PROVE  /\ \A k \in Stream :
              /\ View(s).state = "absent" /\ UNCHANGED slow
              /\ View(s)' = [state |-> "open", on |-> k, taken |-> Done(k), given |-> Done(k)]
              => Contract!Subscribe(s, k)
         /\ \A t, g :
              /\ View(s) = OpenView(s, t, g) /\ t < g /\ UNCHANGED slow
              /\ View(s)' = OpenView(s, t + 1, g)
              => Contract!Take(s)
         /\ /\ View(s).state = "open" /\ UNCHANGED slow
            /\ View(s)' = [state |-> "closed", on |-> None, taken |-> 0, given |-> 0]
            => Contract!Close(s)
         /\ \A t, g :
              /\ View(s) = OpenView(s, t, g) /\ s \notin slow /\ g < read[on[s]]
              /\ g - t < Capacity /\ UNCHANGED slow
              /\ View(s)' = OpenView(s, t, g + 1)
              => Contract!Deliver(s)
         /\ \A t, g :
              /\ View(s) = OpenView(s, t, g) /\ s \notin slow /\ g < read[on[s]]
              /\ g - t = Capacity /\ View(s)' = View(s) /\ slow' = slow \cup {s}
              => Contract!Lose(s)
<1>. DEFINE V == [u \in Subscriber |-> View(u)]
            D == [k \in Stream |-> Done(k)]
<1>1. /\ V[s] = View(s) /\ V' = [V EXCEPT ![s] = View(s)'] /\ UNCHANGED D
  <2>1. V' = [u \in Subscriber |-> View(u)']
    OBVIOUS
  <2>. QED
    BY <2>1
<1>2. \A k \in Stream : D[k] = Done(k)
  OBVIOUS
<1>. HIDE DEF V, D
<1>3. ASSUME NEW k \in Stream, View(s).state = "absent", UNCHANGED slow,
             View(s)' = [state |-> "open", on |-> k, taken |-> Done(k), given |-> Done(k)]
      PROVE  Contract!Subscribe(s, k)
  BY <1>1, <1>2, <1>3 DEF Contract!Subscribe, Contract!Open, V, D
<1>4. ASSUME NEW t, NEW g, View(s) = OpenView(s, t, g), t < g, UNCHANGED slow,
             View(s)' = OpenView(s, t + 1, g)
      PROVE  Contract!Take(s)
  <2>1. [V[s] EXCEPT !.taken = @ + 1] = OpenView(s, t + 1, g)
    BY <1>1, <1>4 DEF OpenView
  <2>2. V' = [V EXCEPT ![s].taken = @ + 1]
    BY <1>1, <1>4, <2>1
  <2>3. V[s].state = "open" /\ V[s].taken < V[s].given
    BY <1>1, <1>4 DEF OpenView
  <2>. QED
    BY <1>1, <1>4, <2>2, <2>3 DEF Contract!Take, Contract!IsOpen, V, D
<1>5. ASSUME View(s).state = "open", UNCHANGED slow,
             View(s)' = [state |-> "closed", on |-> None, taken |-> 0, given |-> 0]
      PROVE  Contract!Close(s)
  BY <1>1, <1>5 DEF Contract!Close, Contract!IsOpen, Contract!NotOpen, V, D
<1>6. ASSUME NEW t, NEW g, View(s) = OpenView(s, t, g), s \notin slow, g < read[on[s]],
             g - t < Capacity, UNCHANGED slow, View(s)' = OpenView(s, t, g + 1)
      PROVE  Contract!Deliver(s)
  <2>1. [V[s] EXCEPT !.given = @ + 1] = OpenView(s, t, g + 1)
    BY <1>1, <1>6 DEF OpenView
  <2>2. V' = [V EXCEPT ![s].given = @ + 1]
    BY <1>1, <1>6, <2>1
  <2>3. /\ V[s].state = "open" /\ V[s].given < read[V[s].on]
        /\ V[s].given - V[s].taken < Capacity
    BY <1>1, <1>6 DEF OpenView
  <2>. QED
    BY <1>1, <1>6, <2>2, <2>3
    DEF Contract!Deliver, Contract!IsOpen, Contract!Waiting, V, D
<1>7. ASSUME NEW t, NEW g, View(s) = OpenView(s, t, g), s \notin slow, g < read[on[s]],
             g - t = Capacity, View(s)' = View(s), slow' = slow \cup {s}
      PROVE  Contract!Lose(s)
  <2>1. /\ V[s].state = "open" /\ V[s].given < read[V[s].on]
        /\ V[s].given - V[s].taken = Capacity
    BY <1>1, <1>7 DEF OpenView
  <2>2. UNCHANGED V
    BY <1>1, <1>7 DEF V
  <2>. QED
    BY <1>1, <1>7, <2>1, <2>2 DEF Contract!Lose, Contract!IsOpen, Contract!Waiting, V, D
<1>. QED
  BY <1>3, <1>4, <1>5, <1>6, <1>7

\* What a stream's reader has done with.
LEMMA DoneIs ==
  ASSUME SubscriptionInv, NEW k \in Stream
  PROVE  /\ Done(k) \in Nat /\ read[k] \in Nat
         /\ IF rpc[k] = "idle" THEN Done(k) = read[k] ELSE Done(k) < read[k]
<1>1. PICK r \in Nat, b \in Nat : r = read[k] /\ b = batch[k]
  BY ReadType DEF SubscriptionInv
<1>2. rpc[k] # "idle" => b <= r /\ 1 <= b
  BY <1>1, ReadType DEF SubscriptionInv
<1>3. Done(k) = IF rpc[k] = "idle" THEN r ELSE r - b
  BY <1>1 DEF Done
<1>. QED
  BY <1>1, <1>2, <1>3

\* Subscribing, as the contract has it.
LEMMA SubscribeSteps ==
  ASSUME SubscriptionInv, NEW s \in Subscriber
  PROVE  /\ \A k \in Stream : SubscribePush(s, k) => UNCHANGED Contract!vars
         /\ SubscribeCount(s) => on[s] \in Stream /\ Contract!Subscribe(s, on[s])
<1>1. ASSUME NEW k \in Stream, SubscribePush(s, k)
      PROVE  UNCHANGED Contract!vars
  <2>1. /\ spc[s] = "idle" /\ spc' = [spc EXCEPT ![s] = "pushed"]
        /\ on' = [on EXCEPT ![s] = k] /\ UNCHANGED <<chan, readerVars, histVars>>
    BY <1>1 DEF SubscribePush
  <2>2. /\ spc'[s] = "pushed"
        /\ \A t \in Subscriber \ {s} : spc'[t] = spc[t] /\ on'[t] = on[t]
    BY <2>1 DEF SubscriptionInv, Types
  <2>3. \A t \in Subscriber : View(t)' = View(t)
    BY <2>1, <2>2, SameView DEF histVars
  <2>4. \A j \in Stream : Done(j)' = Done(j)
    BY <2>1 DEF Done, readerVars
  <2>. QED
    BY <2>1, <2>3, <2>4, NoStep DEF readerVars, histVars
<1>2. ASSUME SubscribeCount(s)
      PROVE  on[s] \in Stream /\ Contract!Subscribe(s, on[s])
  <2>1. /\ spc[s] = "pushed" /\ spc' = [spc EXCEPT ![s] = "open"]
        /\ since' = [since EXCEPT ![s] = Done(on[s])]
        /\ UNCHANGED <<on, chan, readerVars, got, slow>>
    BY <1>2 DEF SubscribeCount
  <2>2. /\ spc'[s] = "open" /\ since'[s] = Done(on[s])
        /\ \A t \in Subscriber \ {s} : spc'[t] = spc[t] /\ since'[t] = since[t]
    BY <2>1 DEF SubscriptionInv, Types
  <2>3. on[s] \in Stream /\ chan[s] = <<>> /\ got[s] = NoChunk
    BY <2>1 DEF SubscriptionInv, PlaceInv, Whereabouts
  <2>4. \A t \in Subscriber \ {s} : View(t)' = View(t)
    BY <2>1, <2>2, SameView
  <2>5. View(s).state = "absent"
    BY <2>1 DEF View
  <2>6. Taken(s)' = Done(on[s]) /\ Given(s)' = Done(on[s])
    BY <2>1, <2>2, <2>3 DEF Taken, Given, Number
  <2>7. View(s)' = [state |-> "open", on |-> on[s], taken |-> Done(on[s]),
                    given |-> Done(on[s])]
    BY <2>1, <2>2, <2>6 DEF View
  <2>8. \A j \in Stream : Done(j)' = Done(j)
    BY <2>1 DEF Done, readerVars
  <2>9. UNCHANGED <<read, slow>>
    BY <2>1 DEF readerVars
  <2>. QED
    BY <2>3, <2>4, <2>5, <2>7, <2>8, <2>9, ContractSteps
<1>. QED
  BY <1>1, <1>2

\* Receiving and hanging up, as the contract has it.
LEMMA ReceiveSteps ==
  ASSUME SubscriptionInv, NEW s \in Subscriber
  PROVE  (Recv(s) => Contract!Take(s)) /\ (Close(s) => Contract!Close(s))
<1>1. ASSUME Recv(s)
      PROVE  Contract!Take(s)
  <2>1. /\ spc[s] = "open" /\ chan[s] # <<>> /\ chan' = [chan EXCEPT ![s] = Tail(@)]
        /\ got' = [got EXCEPT ![s] = Head(chan[s])]
        /\ UNCHANGED <<spc, on, readerVars, since, slow>>
    BY <1>1 DEF Recv
  <2>2. /\ chan'[s] = Tail(chan[s]) /\ got'[s] = Head(chan[s])
        /\ \A t \in Subscriber \ {s} : chan'[t] = chan[t] /\ got'[t] = got[t]
    BY <2>1 DEF SubscriptionInv, Types
  <2>3. \A t \in Subscriber \ {s} : View(t)' = View(t)
    BY <2>1, <2>2, SameView
  <2>4. PICK t \in Nat, m \in Nat : /\ t = Taken(s) /\ m = Len(chan[s]) /\ 1 <= m
                                    /\ Given(s) = t + m
    <3>1. chan[s] \in Seq(Chunk)
      BY DEF SubscriptionInv, Types
    <3>2. Len(chan[s]) \in Nat /\ 1 <= Len(chan[s])
      BY <2>1, <3>1
    <3>. QED
      BY <2>1, <3>2, GivenIs
  <2>5. Given(s)' = Given(s)
    <3>1. LastOf(s)' = LastOf(s)
      BY <2>1, <2>2, ChanTaken DEF SubscriptionInv, ChanInv
    <3>2. Given(s)' = Number(s, LastOf(s))' /\ Given(s) = Number(s, LastOf(s))
      BY DEF Given, LastOf, Last, Number
    <3>. QED
      BY <2>1, <3>1, <3>2 DEF Number
  <2>6. Taken(s)' = t + 1
    <3>1. PICK c \in Chunk : c = chan[s][1] /\ c = Head(chan[s])
      BY <2>1 DEF SubscriptionInv, Types
    <3>2. c.n = t + 1
      BY <2>1, <2>4, <3>1 DEF SubscriptionInv, ChanInv, Begun, Taken, Number, Follows
    <3>3. c # NoChunk
      BY ChunkType
    <3>. QED
      BY <2>2, <3>1, <3>2, <3>3 DEF Taken, Number
  <2>7. View(s) = OpenView(s, t, Given(s)) /\ t < Given(s)
    BY <2>1, <2>4, OpenIs
  <2>8. View(s)' = OpenView(s, t + 1, Given(s))
    BY <2>1, <2>5, <2>6 DEF View, OpenView
  <2>9. UNCHANGED <<read, slow>> /\ \A j \in Stream : Done(j)' = Done(j)
    BY <2>1 DEF Done, readerVars
  <2>. QED
    BY <2>3, <2>7, <2>8, <2>9, ContractSteps
<1>2. ASSUME Close(s)
      PROVE  Contract!Close(s)
  <2>1. /\ spc[s] = "open" /\ spc' = [spc EXCEPT ![s] = "closed"]
        /\ chan' = [chan EXCEPT ![s] = <<>>] /\ UNCHANGED <<on, readerVars, histVars>>
    BY <1>2 DEF Close
  <2>2. /\ spc'[s] = "closed"
        /\ \A t \in Subscriber \ {s} : spc'[t] = spc[t] /\ chan'[t] = chan[t]
    BY <2>1 DEF SubscriptionInv, Types
  <2>3. \A t \in Subscriber \ {s} : View(t)' = View(t)
    BY <2>1, <2>2, SameView DEF histVars
  <2>4. View(s).state = "open"
        /\ View(s)' = [state |-> "closed", on |-> None, taken |-> 0, given |-> 0]
    BY <2>1, <2>2 DEF View
  <2>5. UNCHANGED <<read, slow>> /\ \A j \in Stream : Done(j)' = Done(j)
    BY <2>1 DEF Done, readerVars, histVars
  <2>. QED
    BY <2>3, <2>4, <2>5, ContractSteps
<1>. QED
  BY <1>1, <1>2

\* Reading, as the contract has it.
LEMMA ReadStep ==
  ASSUME SubscriptionInv, NEW k \in Stream, ReadBatch(k)
  PROVE  Contract!Produce(k)
<1>1. PICK n \in 1..MaxBatch : /\ read' = [read EXCEPT ![k] = @ + n]
                               /\ batch' = [batch EXCEPT ![k] = n]
  BY DEF ReadBatch
<1>2. /\ rpc[k] = "idle" /\ rpc' = [rpc EXCEPT ![k] = "read"]
      /\ UNCHANGED <<subVars, histVars>>
  BY DEF ReadBatch
<1>3. \A s \in Subscriber : View(s)' = View(s)
  BY <1>2, SameView DEF subVars, histVars
<1>4. \A j \in Stream : Done(j)' = Done(j)
  <2>1. \A j \in Stream \ {k} : rpc'[j] = rpc[j] /\ read'[j] = read[j] /\ batch'[j] = batch[j]
    BY <1>1, <1>2 DEF SubscriptionInv, Types
  <2>2. rpc'[k] = "read" /\ read'[k] = read[k] + n /\ batch'[k] = n
    BY <1>1, <1>2 DEF SubscriptionInv, Types
  <2>3. read'[k] - batch'[k] = read[k]
    BY <2>2, DoneIs
  <2>4. Done(k)' = Done(k)
    BY <1>2, <2>2, <2>3 DEF Done
  <2>. QED
    BY <2>1, <2>4 DEF Done
<1>5. Done(k) = read[k]
  BY <1>2 DEF Done
<1>. QED
  BY <1>1, <1>2, <1>3, <1>4, <1>5 DEF Contract!Produce, histVars

\* A reader goes back to its stream.
LEMMA FinishStep ==
  ASSUME SubscriptionInv, NEW k \in Stream, rpc[k] # "idle",
         rpc' = [rpc EXCEPT ![k] = "idle"], UNCHANGED <<subVars, read, batch, histVars>>,
         \A s \in Subscriber \ slow : spc[s] = "open" /\ on[s] = k => Upto(s, k) = read[k]
  PROVE  Contract!Finish(k)
<1>. DEFINE D == [j \in Stream |-> Done(j)]
<1>1. \A s \in Subscriber : View(s)' = View(s)
  BY SameView DEF subVars, histVars
<1>2. /\ Done(k) < read[k] /\ Done(k)' = read[k]
      /\ \A j \in Stream \ {k} : Done(j)' = Done(j)
  BY DoneIs DEF Done, SubscriptionInv, Types
<1>3. D' = [D EXCEPT ![k] = read[k]] /\ D[k] = Done(k)
  BY <1>2
<1>4. ASSUME NEW s \in Subscriber \ slow, View(s).state = "open", View(s).on = k
      PROVE  View(s).given = read[k]
  <2>1. spc[s] = "open" /\ on[s] = k /\ View(s).given = Given(s)
    BY <1>4 DEF View
  <2>. QED
    BY <2>1, GivenIs
<1>. QED
  BY <1>1, <1>2, <1>3, <1>4 DEF Contract!Finish, Contract!IsOpen, histVars

\* The turns of a reader, as the contract has them.
LEMMA TurnSteps ==
  ASSUME SubscriptionInv, NEW k \in Stream,
         Pass(k) \/ Take(k) \/ PutBack(k) \/ Settle(k)
  PROVE  UNCHANGED Contract!vars \/ Contract!Finish(k)
<1>1. Types /\ Stage(k)
  BY DEF SubscriptionInv
<1>2. ASSUME rpc' = [rpc EXCEPT ![k] = "lock"] \/ rpc' = [rpc EXCEPT ![k] = "send"]
               \/ rpc' = [rpc EXCEPT ![k] = "settle"],
             rpc[k] # "idle", UNCHANGED <<subVars, read, batch, histVars>>
      PROVE  UNCHANGED Contract!vars
  <2>1. \A s \in Subscriber : View(s)' = View(s)
    BY <1>2, SameView DEF subVars, histVars
  <2>2. \A j \in Stream : rpc'[j] = "idle" <=> rpc[j] = "idle"
    BY <1>1, <1>2 DEF Types
  <2>3. \A j \in Stream : Done(j)' = Done(j)
    BY <1>2, <2>2 DEF Done
  <2>. QED
    BY <1>2, <2>1, <2>3, NoStep DEF histVars
<1>3. CASE Pass(k)
  <2>1. rpc[k] # "idle" /\ UNCHANGED <<subVars, read, batch, histVars>>
    BY <1>3 DEF Pass, Passes
  <2>2. CASE rpc' = [rpc EXCEPT ![k] = "lock"]
    BY <1>2, <2>1, <2>2
  <2>3. CASE rpc' = [rpc EXCEPT ![k] = "idle"]
    <3>1. \A s \in Subscriber \ slow : ~(spc[s] = "open" /\ on[s] = k)
      <4>1. rpc'[k] = "idle"
        BY <1>1, <2>3 DEF Types
      <4>. QED
        BY <1>3, <4>1, SkipsNobody DEF SubscriptionInv
    <3>. QED
      BY <2>1, <2>3, <3>1, FinishStep
  <2>. QED
    BY <1>3, <2>2, <2>3 DEF Pass, Passes
<1>4. CASE Take(k)
  BY <1>1, <1>2, <1>4, TakeDoes DEF Take
<1>5. CASE PutBack(k)
  BY <1>1, <1>2, <1>5, PutBackDoes
<1>6. CASE Settle(k)
  <2>1. /\ rpc[k] = "settle" /\ rpc' = [rpc EXCEPT ![k] = "idle"]
        /\ UNCHANGED <<subVars, read, batch, histVars>>
    BY <1>1, <1>6, SettleDoes
  <2>2. ASSUME NEW s \in Subscriber \ slow, spc[s] = "open", on[s] = k
        PROVE  Upto(s, k) = read[k]
    <3>1. s \in In(k) /\ Todo(k) = <<>> /\ table[k] = Kept(k)
      BY <1>1, <2>1, <2>2 DEF SubscriptionInv, PlaceInv, Whereabouts, Stage
    <3>2. s \in ToSet(Kept(k))
      BY <3>1, EmptyQueue DEF In
    <3>. QED
      BY <3>2 DEF Upto
  <2>. QED
    BY <2>1, <2>2, FinishStep
<1>. QED
  BY <1>3, <1>4, <1>5, <1>6

\* A try_send, as the contract has it.
LEMMA SendStep ==
  ASSUME SubscriptionInv, NEW k \in Stream, SendNext(k)
  PROVE  \/ UNCHANGED Contract!vars
         \/ \E s \in Subscriber : Contract!Deliver(s) \/ Contract!Lose(s)
<1>1. Types /\ Stage(k) /\ Place(k)
  BY DEF SubscriptionInv, PlaceInv
<1>2. /\ rpc[k] = "send" /\ Todo(k) # <<>>
      /\ UNCHANGED <<spc, on, rpc, read, batch, since, got>>
  BY <1>1, SendDoes
<1>3. PICK s \in Subscriber : s = Head(Todo(k)) /\ (GoesOn(k, s) \/ Served(k, s) \/ Goner(k, s))
  BY <1>1, SendDoes
<1>4. on[s] = k /\ spc[s] \in {"pushed", "open", "closed"} /\ s \notin slow /\ s \notin ToSet(Kept(k))
  BY <1>1, <1>2, <1>3, FirstToServe DEF Types
<1>5. spc[s] \in {"open", "closed"}
  BY <1>2, <1>4 DEF SubscriptionInv, LockInv, Busy
<1>6. \A j \in Stream : Done(j)' = Done(j)
  BY <1>2 DEF Done
<1>7. \A t \in Subscriber : chan'[t] = chan[t] => View(t)' = View(t)
  BY <1>2, SameView
<1>8. \A t \in Subscriber \ {s} : View(t)' = View(t)
  BY <1>1, <1>3, <1>7 DEF GoesOn, Served, Goner, Goes, Types
<1>9. CASE spc[s] = "closed"
  <2>1. UNCHANGED <<chan, slow>>
    BY <1>3, <1>9 DEF GoesOn, Served, Goner, Goes
  <2>. QED
    BY <1>2, <1>6, <1>7, <2>1, NoStep
<1>10. CASE spc[s] = "open"
  <2>1. PICK r \in Nat, b \in Nat, a \in Nat :
          r = read[k] /\ b = batch[k] /\ a = At(k) /\ b <= r /\ 1 <= a /\ a <= b
    BY <1>1, <1>2, ReadType
  <2>2. PICK t \in Nat, m \in Nat : /\ t = Taken(s) /\ m = Len(chan[s]) /\ Given(s) = t + m
    <3>1. chan[s] \in Seq(Chunk)
      BY <1>1 DEF Types
    <3>2. Len(chan[s]) \in Nat
      BY <3>1
    <3>. QED
      BY <1>10, <3>2, GivenIs
  <2>3. t + m = r - b + a - 1
    <3>1. Upto(s, k) = r - b + a - 1
      BY <1>2, <1>3, <1>4, <2>1 DEF Upto
    <3>. QED
      BY <1>4, <1>10, <2>2, <3>1, GivenIs
  <2>4. View(s) = OpenView(s, t, t + m) /\ t + m < read[on[s]] /\ (t + m) - t = m
    <3>1. View(s) = OpenView(s, t, t + m)
      <4>1. View(s) = OpenView(s, Taken(s), Given(s))
        BY <1>10, OpenIs
      <4>. QED
        BY ONLY <2>2, <4>1
    <3>2. t + m < r
      BY ONLY <2>1, <2>3, r \in Nat, b \in Nat, a \in Nat
    <3>3. (t + m) - t = m
      BY ONLY t \in Nat, m \in Nat
    <3>. QED
      BY <1>4, <2>1, <3>1, <3>2, <3>3
  <2>5. CASE Goes(k, s)
    <3>1. chan'[s] = Append(chan[s], NextChunk(k)) /\ m < Capacity /\ UNCHANGED slow
      BY <1>1, <2>2, <2>5 DEF Goes, Types
    <3>2. NextChunk(k) # NoChunk /\ NextChunk(k).n = t + m + 1
      <4>1. NextChunk(k) # NoChunk /\ NextChunk(k).n = r - b + a
        BY <1>1, <1>2, <2>1, ChunkSent DEF SubscriptionInv
      <4>. QED
        BY <2>1, <2>2, <2>3, <4>1
    <3>3. chan'[s] # <<>> /\ Last(chan'[s]) = NextChunk(k)
      <4>1. chan[s] \in Seq(Chunk) /\ NextChunk(k) \in Chunk
        BY <1>1, <1>2, ChunkSent DEF SubscriptionInv, Types
      <4>2. PICK q : q = Append(chan[s], NextChunk(k))
        OBVIOUS
      <4>3. q # <<>> /\ q[Len(q)] = NextChunk(k)
        BY <4>1, <4>2
      <4>. QED
        BY <3>1, <4>2, <4>3 DEF Last
    <3>4. Given(s)' = t + m + 1 /\ Taken(s)' = t
      BY <1>2, <2>2, <3>2, <3>3 DEF Given, Taken, Number
    <3>5. View(s)' = OpenView(s, t, t + m + 1)
      BY <1>2, <1>10, <3>4 DEF View, OpenView
    <3>6. Contract!Deliver(s)
      BY <1>2, <1>4, <1>6, <1>8, <2>4, <3>1, <3>5, ContractSteps
    <3>. QED
      BY <3>6
  <2>6. CASE Goner(k, s)
    <3>1. UNCHANGED chan /\ m = Capacity /\ slow' = slow \cup {s}
      BY <1>10, <2>2, <2>6 DEF Goner
    <3>2. View(s)' = View(s)
      BY <1>7, <3>1
    <3>3. Contract!Lose(s)
      BY <1>2, <1>4, <1>6, <1>8, <2>4, <3>1, <3>2, ContractSteps
    <3>. QED
      BY <3>3
  <2>. QED
    BY <1>3, <2>5, <2>6 DEF GoesOn, Served
<1>. QED
  BY <1>5, <1>9, <1>10

LEMMA ContractStep ==
  ASSUME SubscriptionInv, [Next]_vars
  PROVE  [Contract!Next]_Contract!vars
<1>1. CASE \E s \in Subscriber :
             SubscribeCount(s) \/ Recv(s) \/ Close(s) \/ \E k \in Stream : SubscribePush(s, k)
  BY <1>1, SubscribeSteps, ReceiveSteps DEF Contract!Next
<1>2. CASE \E k \in Stream :
             ReadBatch(k) \/ Pass(k) \/ Take(k) \/ PutBack(k) \/ Settle(k)
  BY <1>2, ReadStep, TurnSteps DEF Contract!Next
<1>3. CASE \E k \in Stream : SendNext(k)
  BY <1>3, SendStep DEF Contract!Next
<1>4. CASE UNCHANGED vars
  <2>1. UNCHANGED <<subVars, readerVars, histVars>>
    BY <1>4 DEF vars
  <2>2. \A s \in Subscriber : View(s)' = View(s)
    BY <2>1, SameView DEF subVars, histVars
  <2>3. \A j \in Stream : Done(j)' = Done(j)
    BY <2>1 DEF Done, readerVars
  <2>. QED
    BY <2>1, <2>2, <2>3, NoStep DEF readerVars, histVars
<1>. QED
  BY <1>1, <1>2, <1>3, <1>4, StepCases

LEMMA ContractInit == ASSUME Init PROVE Contract!Init
<1>1. \A k \in Stream : Done(k) = 0
  BY DEF Init, Done
<1>2. \A s \in Subscriber : View(s) = [state |-> "absent", on |-> None, taken |-> 0, given |-> 0]
  BY DEF Init, View
<1>. QED
  BY <1>1, <1>2 DEF Init, Contract!Init, Contract!NotOpen

\* Table, counter, lock and fast path together do what OutputContract promises
\* a subscriber: from the batch on that its stream's reader is busy with it is
\* given every chunk, once and in order, until it is a whole channel behind
\* (src/native_runtime.rs subscribe_output, broadcast_output_batch).
THEOREM Refinement == Spec => ImplementsOutputContract
<1>1. Init => Contract!Init
  BY ContractInit
<1>2. SubscriptionInv /\ [Next]_vars => [Contract!Next]_Contract!vars
  BY ContractStep
<1>. QED
  BY <1>1, <1>2, SubscriptionAlways, PTL DEF Spec, ImplementsOutputContract, Contract!Spec
=============================================================================
