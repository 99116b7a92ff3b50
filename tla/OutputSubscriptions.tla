------------------------ MODULE OutputSubscriptions ------------------------
(***************************************************************************)
(* How chunks of output reach the subscribers of a manager                 *)
(* (src/native_runtime.rs: subscribe_output, broadcast_output_batch and    *)
(* FerrousNativeOutputSubscription).                                       *)
(*                                                                         *)
(* Every stream has one thread that reads it: the reactor, or whoever      *)
(* reads a pipe's stdout.  A reader looks at a counter of subscribers      *)
(* without taking the lock and goes away when it is zero; otherwise it     *)
(* takes the lock and offers each chunk to each subscriber of its stream,  *)
(* never waiting: a subscriber whose channel is full is dropped.  The      *)
(* counter is one for all streams, and changes under the lock.             *)
(***************************************************************************)
EXTENDS Naturals, SequencesExt

CONSTANTS
  Stream,       \* keys (shell, stdout or stderr) of the table
  Subscriber,   \* subscriptions, each made once
  None,         \* nobody
  Capacity,     \* of a subscription's channel
  MaxBatch,     \* bound: chunks one read yields
  MaxChunks     \* bound: chunks of all streams

ASSUME SubscriberAssumption == None \notin Stream \cup Subscriber
ASSUME FiniteAssumption == IsFiniteSet(Stream) /\ IsFiniteSet(Subscriber)
ASSUME SizeAssumption ==
  Capacity \in Nat \ {0} /\ MaxBatch \in Nat \ {0} /\ MaxChunks \in Nat

VARIABLES
  holder,   \* who has the lock: a stream's reader or a subscriber
  table,    \* OutputSubscriptions.subscribers: per stream, in order
  dropped,  \* OutputSubscriptions.dropped
  count,    \* subscriber_count
  spc,      \* each subscription: idle, pushed, open or closed
  on,       \* the stream it is for
  chan,     \* its channel
  rpc,      \* each reader: idle, read, send or settle
  read,     \* chunks it has read; the n-th chunk of a stream is number n
  batch,    \* how many of them are the batch it is busy with
  sending,  \* the locals of its broadcast
  \* history
  since,    \* chunks its stream's reader had done with when it was handed out
  got,      \* the last chunk a subscriber took from its channel
  slow      \* subscribers dropped because their channel was full

tableVars  == <<table, dropped, count>>
subVars    == <<spc, on, chan>>
readerVars == <<rpc, read, batch, sending>>
histVars   == <<since, got, slow>>
vars == <<holder, tableVars, subVars, readerVars, histVars>>

-----------------------------------------------------------------------------
\* FerrousNativeOutputChunk: its number stands for its bytes.
Chunk == [n : 1..MaxChunks, before : 0..Cardinality(Subscriber)]
NoChunk == [n |-> 0, before |-> 0]

\* Locals of broadcast_output_batch: subscribers to serve, retained ones, the
\* chunk of the batch that is next, and the two counts.
NoSending == [todo |-> <<>>, kept |-> <<>>, next |-> 1, drops |-> 0, removed |-> 0]

Init ==
  /\ holder = None
  /\ table = [k \in Stream |-> <<>>]
  /\ dropped = [k \in Stream |-> 0]
  /\ count = 0
  /\ spc = [s \in Subscriber |-> "idle"]
  /\ on = [s \in Subscriber |-> None]
  /\ chan = [s \in Subscriber |-> <<>>]
  /\ rpc = [k \in Stream |-> "idle"]
  /\ read = [k \in Stream |-> 0]
  /\ batch = [k \in Stream |-> 0]
  /\ sending = [k \in Stream |-> NoSending]
  /\ since = [s \in Subscriber |-> 0]
  /\ got = [s \in Subscriber |-> NoChunk]
  /\ slow = {}

-----------------------------------------------------------------------------
(* subscribe_output and FerrousNativeOutputSubscription.                   *)

\* Under the lock: the sender joins the table ...
SubscribePush(s, k) ==
  /\ spc[s] = "idle"
  /\ holder = None /\ holder' = s
  /\ spc' = [spc EXCEPT ![s] = "pushed"]
  /\ on' = [on EXCEPT ![s] = k]
  /\ table' = [table EXCEPT ![k] = Append(@, s)]
  /\ UNCHANGED <<dropped, count, chan, readerVars, histVars>>

\* What the reader of a stream has done with: all but the batch it is busy with.
Done(k) == IF rpc[k] = "idle" THEN read[k] ELSE read[k] - batch[k]

\* ... and is counted before the lock is released.
SubscribeCount(s) ==
  /\ spc[s] = "pushed"
  /\ holder' = None
  /\ spc' = [spc EXCEPT ![s] = "open"]
  /\ count' = count + 1
  /\ since' = [since EXCEPT ![s] = Done(on[s])]
  /\ UNCHANGED <<table, dropped, on, chan, readerVars, got, slow>>

\* recv, recv_timeout and try_recv when a chunk is there.
Recv(s) ==
  /\ spc[s] = "open" /\ chan[s] # <<>>
  /\ chan' = [chan EXCEPT ![s] = Tail(@)]
  /\ got' = [got EXCEPT ![s] = Head(chan[s])]
  /\ UNCHANGED <<holder, tableVars, spc, on, readerVars, since, slow>>

\* The subscription is dropped; its sender stays in the table for now.
Close(s) ==
  /\ spc[s] = "open"
  /\ spc' = [spc EXCEPT ![s] = "closed"]
  /\ chan' = [chan EXCEPT ![s] = <<>>]
  /\ UNCHANGED <<holder, tableVars, on, readerVars, histVars>>

-----------------------------------------------------------------------------
(* The reader of a stream: drain_reactor_stream or read_available.         *)

ReadBatch(k) ==
  /\ rpc[k] = "idle"
  /\ rpc' = [rpc EXCEPT ![k] = "read"]
  /\ \E n \in 1..MaxBatch :
       /\ read[k] + n <= MaxChunks /\ SumFunction(read) + n <= MaxChunks
       /\ read' = [read EXCEPT ![k] = @ + n]
       /\ batch' = [batch EXCEPT ![k] = n]
  /\ UNCHANGED <<holder, tableVars, subVars, sending, histVars>>

\* The fast path: nobody counted, nothing sent.
SkipBroadcast(k) ==
  /\ rpc[k] = "read" /\ count = 0
  /\ rpc' = [rpc EXCEPT ![k] = "idle"]
  /\ UNCHANGED <<holder, tableVars, subVars, read, batch, sending, histVars>>

BeginBroadcast(k) ==
  /\ rpc[k] = "read" /\ count > 0
  /\ rpc' = [rpc EXCEPT ![k] = "lock"]
  /\ UNCHANGED <<holder, tableVars, subVars, read, batch, sending, histVars>>

\* broadcast_output_batch takes the lock and this stream's subscribers out of
\* the table, if there are any.
TakeSubscribers(k) ==
  /\ rpc[k] = "lock"
  /\ holder = None
  /\ IF table[k] = <<>>
     THEN /\ rpc' = [rpc EXCEPT ![k] = "idle"]
          /\ UNCHANGED <<holder, table, sending>>
     ELSE /\ rpc' = [rpc EXCEPT ![k] = "send"]
          /\ holder' = k
          /\ table' = [table EXCEPT ![k] = <<>>]
          /\ sending' = [sending EXCEPT ![k] =
                           [NoSending EXCEPT !.todo = table[k], !.drops = dropped[k]]]
  /\ UNCHANGED <<dropped, count, subVars, read, batch, histVars>>

\* try_send of the next chunk to the first subscriber that is left.
NextChunk(k) == [n      |-> read[k] - batch[k] + sending[k].next,
                 before |-> sending[k].drops]

\* Mistake: an unbounded channel.
SentUnbounded(k) ==
  LET s == Head(sending[k].todo) IN
  /\ spc[s] # "closed"
  /\ chan' = [chan EXCEPT ![s] = Append(@, NextChunk(k))]
  /\ sending' = IF sending[k].next < batch[k]
                THEN [sending EXCEPT ![k].next = @ + 1]
                ELSE [sending EXCEPT ![k].next = 1, ![k].todo = Tail(@),
                                     ![k].kept = Append(@, s)]
  /\ UNCHANGED slow

Sent(k) ==
  LET s == Head(sending[k].todo) IN
  /\ spc[s] # "closed"
  /\ Len(chan[s]) < Capacity
  /\ chan' = [chan EXCEPT ![s] = Append(@, NextChunk(k))]
  /\ sending' = IF sending[k].next < batch[k]
                THEN [sending EXCEPT ![k].next = @ + 1]
                ELSE [sending EXCEPT ![k].next = 1, ![k].todo = Tail(@),
                                     ![k].kept = Append(@, s)]
  /\ UNCHANGED slow

\* Mistake: a channel that is full loses the chunk and keeps the subscriber.
FullKept(k) ==
  LET s == Head(sending[k].todo) IN
  /\ spc[s] # "closed"
  /\ Len(chan[s]) = Capacity
  /\ sending' = [sending EXCEPT ![k].next = 1, ![k].todo = Tail(@),
                                ![k].kept = Append(@, s)]
  /\ UNCHANGED <<chan, slow>>

Full(k) ==
  LET s == Head(sending[k].todo) IN
  /\ spc[s] # "closed"
  /\ Len(chan[s]) = Capacity
  /\ sending' = [sending EXCEPT ![k].next = 1, ![k].todo = Tail(@),
                                ![k].drops = @ + 1, ![k].removed = @ + 1]
  /\ slow' = slow \cup {s}
  /\ UNCHANGED chan

Disconnected(k) ==
  /\ spc[Head(sending[k].todo)] = "closed"
  /\ sending' = [sending EXCEPT ![k].next = 1, ![k].todo = Tail(@), ![k].removed = @ + 1]
  /\ UNCHANGED <<chan, slow>>

\* Mistake: waiting for room in a channel that is full.
SendPatiently(k) ==
  /\ rpc[k] = "send" /\ sending[k].todo # <<>>
  /\ Sent(k) \/ Disconnected(k)
  /\ UNCHANGED <<holder, tableVars, spc, on, rpc, read, batch, since, got>>

\* Mistake: going on with the next subscriber after one chunk of the batch.
SendFirstOnly(k) ==
  /\ rpc[k] = "send" /\ sending[k].todo # <<>>
  /\ Full(k) \/ Disconnected(k)
     \/ /\ sending[k].next = 1
        /\ LET s == Head(sending[k].todo) IN
           /\ spc[s] # "closed" /\ Len(chan[s]) < Capacity
           /\ chan' = [chan EXCEPT ![s] = Append(@, NextChunk(k))]
           /\ sending' = [sending EXCEPT ![k].todo = Tail(@), ![k].kept = Append(@, s)]
           /\ UNCHANGED slow
  /\ UNCHANGED <<holder, tableVars, spc, on, rpc, read, batch, since, got>>

SendNext(k) ==
  /\ rpc[k] = "send" /\ sending[k].todo # <<>>
  /\ Sent(k) \/ Full(k) \/ Disconnected(k)
  /\ UNCHANGED <<holder, tableVars, spc, on, rpc, read, batch, since, got>>

\* The retained subscribers go back, the counts are settled and the lock is
\* released.
PutBack(k) ==
  /\ rpc[k] = "send" /\ sending[k].todo = <<>>
  /\ rpc' = [rpc EXCEPT ![k] = "settle"]
  /\ table' = [table EXCEPT ![k] = sending[k].kept]
  /\ dropped' = [dropped EXCEPT ![k] = sending[k].drops]
  /\ UNCHANGED <<holder, count, subVars, read, batch, sending, histVars>>

\* Mistake: subtracting every subscriber that was offered the batch.
SettleAll(k) ==
  /\ rpc[k] = "settle"
  /\ rpc' = [rpc EXCEPT ![k] = "idle"]
  /\ holder' = None
  /\ LET n == sending[k].removed + Len(sending[k].kept) IN
       count' = IF count < n THEN 0 ELSE count - n
  /\ sending' = [sending EXCEPT ![k] = NoSending]
  /\ UNCHANGED <<table, dropped, subVars, read, batch, histVars>>

\* decrement_subscriber_count, which stops at zero.
Settle(k) ==
  /\ rpc[k] = "settle"
  /\ rpc' = [rpc EXCEPT ![k] = "idle"]
  /\ holder' = None
  /\ count' = IF count < sending[k].removed THEN 0 ELSE count - sending[k].removed
  /\ sending' = [sending EXCEPT ![k] = NoSending]
  /\ UNCHANGED <<table, dropped, subVars, read, batch, histVars>>

Broadcast(k) ==
  \/ SkipBroadcast(k) \/ BeginBroadcast(k) \/ TakeSubscribers(k)
  \/ SendNext(k) \/ PutBack(k) \/ Settle(k)

-----------------------------------------------------------------------------
Next ==
  \/ \E s \in Subscriber :
       \/ \E k \in Stream : SubscribePush(s, k)
       \/ SubscribeCount(s) \/ Recv(s) \/ Close(s)
  \/ \E k \in Stream : ReadBatch(k) \/ Broadcast(k)

Spec == Init /\ [][Next]_vars

\* Readers and subscribing threads run; the mutex lets each of them in; nobody
\* has to receive what it subscribed to.
Fairness ==
  /\ \A k \in Stream : SF_vars(Broadcast(k))
  /\ \A s \in Subscriber : WF_vars(SubscribeCount(s))

FairSpec == Spec /\ Fairness

-----------------------------------------------------------------------------
(* Correctness.                                                            *)

Total == 0..Cardinality(Subscriber)

TypeOK ==
  /\ holder \in Stream \cup Subscriber \cup {None}
  /\ table \in [Stream -> BoundedSeq(Subscriber, Cardinality(Subscriber))]
  /\ dropped \in [Stream -> Total]
  /\ count \in Total
  /\ spc \in [Subscriber -> {"idle", "pushed", "open", "closed"}]
  /\ on \in [Subscriber -> Stream \cup {None}]
  /\ \A s \in Subscriber : Len(chan[s]) <= Capacity /\ ToSet(chan[s]) \subseteq Chunk
  /\ rpc \in [Stream -> {"idle", "read", "lock", "send", "settle"}]
  /\ read \in [Stream -> 0..MaxChunks]
  /\ batch \in [Stream -> 0..MaxBatch]
  /\ since \in [Subscriber -> 0..MaxChunks]
  /\ \A s \in Subscriber : got[s] \in Chunk \cup {NoChunk}
  /\ slow \subseteq Subscriber

\* The counter readers look at without the lock is exact whenever nobody holds
\* it: it counts the subscribers of all streams, those that hung up unnoticed
\* included.  Were it ever too low, every stream would lose its output to the
\* fast path.  (subscribe_output, decrement_subscriber_count)
CountExact ==
  holder = None => count = Cardinality(UNION {ToSet(table[k]) : k \in Stream})

\* What has come to a subscriber, oldest first, beginning with the last chunk
\* it took.
Seen(s) == IF got[s] = NoChunk THEN chan[s] ELSE <<got[s]>> \o chan[s]

\* A subscription that is not dropped misses nothing: its chunks are
\* consecutive, begin with the batch its stream's reader was busy with when it
\* was handed out, or with the next one, and end with the last one read once
\* the reader is done, the fast path and the lock notwithstanding; and the
\* count of subscribers dropped before, which comes with each chunk, never goes
\* back.
\* (broadcast_output_batch)
NothingMissed ==
  \A s \in Subscriber : spc[s] = "open" =>
    LET seen == Seen(s) IN
    /\ \A i \in 1..(Len(seen) - 1) :
         seen[i + 1].n = seen[i].n + 1 /\ seen[i].before <= seen[i + 1].before
    /\ got[s] = NoChunk /\ seen # <<>> => seen[1].n = since[s] + 1
    /\ s \notin slow /\ rpc[on[s]] = "idle" =>
         IF seen = <<>> THEN read[on[s]] = since[s]
         ELSE seen[Len(seen)].n = read[on[s]]

\* The chunk subscriber s took last and the last one it was sent, or else what
\* its stream's reader had done with when it came.
Number(s, c) == IF c = NoChunk THEN since[s] ELSE c.n
Taken(s) == Number(s, got[s])
Given(s) == Number(s, IF chan[s] = <<>> THEN got[s] ELSE Last(chan[s]))

\* What there is to a subscription for whoever has it.
View(s) ==
  IF spc[s] = "open"
  THEN [state |-> "open", on |-> on[s], taken |-> Taken(s), given |-> Given(s)]
  ELSE [state |-> IF spc[s] = "closed" THEN "closed" ELSE "absent",
        on |-> None, taken |-> 0, given |-> 0]

Contract == INSTANCE OutputContract WITH
  produced <- read,
  done <- [k \in Stream |-> Done(k)],
  sub <- [s \in Subscriber |-> View(s)],
  lost <- slow

\* Table, counter, lock and fast path together do what a subscriber is
\* promised: all of the output from the batch on that is under way, in order,
\* until it is a whole channel behind.  (subscribe_output,
\* broadcast_output_batch, FerrousNativeOutputSubscription)
ImplementsOutputContract == Contract!Spec

\* A subscriber that never receives does not hold up the reader, which may be
\* the reactor of every shell.
ReaderGoesOn == \A k \in Stream : rpc[k] # "idle" ~> rpc[k] = "idle"
=============================================================================
