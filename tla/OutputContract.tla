--------------------------- MODULE OutputContract ---------------------------
(***************************************************************************)
(* What a manager promises the subscribers of its shells' output, with no  *)
(* lock, table, counter or thread: whoever subscribes gets every chunk,    *)
(* once and in order, beginning with the first one of the batch that the   *)
(* stream's reader is busy with, or with the next one; nobody waits for    *)
(* anybody, so a subscriber that is a whole channel behind is lost: it     *)
(* keeps what it has been given and is given no more.  A reader is done    *)
(* with a batch only when everybody else has all of it.                    *)
(***************************************************************************)
EXTENDS Naturals

CONSTANTS Stream, Subscriber, None, Capacity, MaxBatch

VARIABLES
  produced,  \* chunks each stream's reader has read
  done,      \* how many of them it has done with
  sub,       \* each subscription
  lost       \* subscriptions that were a whole channel behind

vars == <<produced, done, sub, lost>>

\* A subscriber of stream k that has been given the chunks up to `given' and
\* has taken those up to `taken'.
Open(k, taken, given) == [state |-> "open", on |-> k, taken |-> taken, given |-> given]
NotOpen(state) == [state |-> state, on |-> None, taken |-> 0, given |-> 0]

Init ==
  /\ produced = [k \in Stream |-> 0]
  /\ done = [k \in Stream |-> 0]
  /\ sub = [s \in Subscriber |-> NotOpen("absent")]
  /\ lost = {}

IsOpen(s) == sub[s].state = "open"
Waiting(s) == sub[s].given - sub[s].taken

Subscribe(s, k) ==
  /\ sub[s].state = "absent"
  /\ sub' = [sub EXCEPT ![s] = Open(k, done[k], done[k])]
  /\ UNCHANGED <<produced, done, lost>>

Take(s) ==
  /\ IsOpen(s) /\ sub[s].taken < sub[s].given
  /\ sub' = [sub EXCEPT ![s].taken = @ + 1]
  /\ UNCHANGED <<produced, done, lost>>

Close(s) ==
  /\ IsOpen(s)
  /\ sub' = [sub EXCEPT ![s] = NotOpen("closed")]
  /\ UNCHANGED <<produced, done, lost>>

\* The next chunk there is for a subscriber, if it has room ...
Deliver(s) ==
  /\ IsOpen(s) /\ s \notin lost
  /\ sub[s].given < produced[sub[s].on] /\ Waiting(s) < Capacity
  /\ sub' = [sub EXCEPT ![s].given = @ + 1]
  /\ UNCHANGED <<produced, done, lost>>

\* ... and if it has not.
Lose(s) ==
  /\ IsOpen(s) /\ s \notin lost
  /\ sub[s].given < produced[sub[s].on] /\ Waiting(s) = Capacity
  /\ lost' = lost \cup {s}
  /\ UNCHANGED <<produced, done, sub>>

Produce(k) ==
  /\ done[k] = produced[k]
  /\ \E n \in 1..MaxBatch : produced' = [produced EXCEPT ![k] = @ + n]
  /\ UNCHANGED <<done, sub, lost>>

Finish(k) ==
  /\ done[k] < produced[k]
  /\ \A s \in Subscriber \ lost :
       IsOpen(s) /\ sub[s].on = k => sub[s].given = produced[k]
  /\ done' = [done EXCEPT ![k] = produced[k]]
  /\ UNCHANGED <<produced, sub, lost>>

Next ==
  \/ \E s \in Subscriber :
       \/ \E k \in Stream : Subscribe(s, k)
       \/ Take(s) \/ Close(s) \/ Deliver(s) \/ Lose(s)
  \/ \E k \in Stream : Produce(k) \/ Finish(k)

Spec == Init /\ [][Next]_vars
=============================================================================
