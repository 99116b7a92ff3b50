---------------------------- MODULE LogDashboard ----------------------------
(***************************************************************************)
(* One stream of a log in the dashboard (assets/fws_ui/fws.js), between    *)
(* the shell that prints, the manager that logs and announces what it      *)
(* prints (src/native_runtime.rs), and the windows of the log the host     *)
(* serves (LogWindow).                                                     *)
(*                                                                         *)
(* Of a log it matters how many records are complete, and whether another  *)
(* one has begun.  What a shell prints is announced when it is in the      *)
(* writer's buffer; later it reaches the file.  A window is answered in    *)
(* one step here: LogIndex has the steps inside, and the changes of the    *)
(* log that make it fail.                                                  *)
(*                                                                         *)
(* The drawer may be opened again, for this shell or another one: the log  *)
(* of another shell is not told from what this one has after a truncation, *)
(* since what was asked for before is void either way.                     *)
(***************************************************************************)
EXTENDS LogWindow, Sequences

CONSTANTS
  None,        \* no view, no request, no generation
  Records,     \* LOG_WINDOW_RECORDS
  Shift,       \* LOG_WINDOW_SHIFT
  Fit,         \* records the budget of a response always has room for
  MaxRecords,  \* bound: records in the log
  MaxNews,     \* bound: announcements on their way
  MaxResets,   \* bound: truncations
  MaxFails,    \* bound: requests that fail
  MaxActs      \* bound: what the reader of the dashboard does, and resets
               \* that are announced

\* A record's text has at most 8 KiB, a response 1 MiB.
ASSUME WindowAssumption ==
  /\ Records \in Nat /\ Shift \in Nat /\ Fit \in Nat
  /\ 1 <= Shift /\ Shift < Records /\ 2 <= Fit

ASSUME NoneAssumption == None \notin Nat

ASSUME BoundAssumption == {MaxRecords, MaxNews, MaxResets, MaxFails, MaxActs} \subseteq Nat

VARIABLES
  \* the manager and the host
  held,       \* what is in the writer's buffer
  log,        \* what is in the file
  generation, \* of the index of the log
  news,       \* fws.logs.chunk notifications on their way
  \* the dashboard
  drawer,     \* closed, opening, open, or failed when it could not subscribe
  paused,     \* logState.paused
  error,      \* is an error shown instead of the view?
  view,       \* projections[stream]
  following,  \* following[stream]
  pending,    \* projectionPending: the action to do next
  busy,       \* the request in flight (projectionBusy), its answer, and whether
              \* projectionEpoch or resetRevision have changed since (void)
  \* bounds and history
  acts, fails,
  due         \* records in the file when a follower was told of a chunk

hostVars == <<held, log, generation, news>>
pageVars == <<drawer, paused, error, view, following, pending, busy>>
vars == <<hostVars, pageVars, acts, fails, due>>

-----------------------------------------------------------------------------
(* The log.                                                                *)

Logs == [complete : 0..MaxRecords, partial : BOOLEAN]

Empty == [complete |-> 0, partial |-> FALSE]

\* The records a file may have.
MaxTotal == MaxRecords + 1

\* LineIndex: the complete records, and one for what follows the last newline.
Total(text) == text.complete + (IF text.partial THEN 1 ELSE 0)

\* A record as a window shows it.
Record(n) == [generation |-> generation, n |-> n, whole |-> n < log.complete]

\* A shell prints a part of a record or the end of one: it is written to the
\* log's buffer and broadcast.
Publish(ends) ==
  /\ log.complete + held.complete < MaxRecords /\ news < MaxNews
  /\ held' = [complete |-> held.complete + (IF ends THEN 1 ELSE 0), partial |-> ~ends]
  /\ news' = news + 1
  /\ UNCHANGED <<log, generation, pageVars, acts, fails, due>>

Flush ==
  /\ held # Empty
  /\ log' = [complete |-> log.complete + held.complete, partial |-> held.partial]
  /\ held' = Empty
  /\ UNCHANGED <<generation, news, pageVars, acts, fails, due>>

\* The host truncates the log; what is still in the buffer comes later.
Truncate ==
  /\ generation < MaxResets
  /\ generation' = generation + 1
  /\ log' = Empty
  /\ due' = 0
  /\ UNCHANGED <<held, news, pageVars, acts, fails>>

-----------------------------------------------------------------------------
(* Requests (loadWindow).                                                  *)

\* Mistake: asking for what comes after the last record that is shown.
RequestFromEnd(action, asked, v) ==
  [asked      |-> asked,
   action     |-> IF action = "newer" /\ v # None THEN "current" ELSE action,
   current    |-> IF v = None THEN 0 ELSE IF action = "newer" THEN v.end ELSE v.start,
   count      |-> IF action = "newer" /\ v # None THEN Shift + 1 ELSE Records,
   generation |-> IF v = None THEN None ELSE v.generation,
   page       |-> None,
   void       |-> FALSE]

\* Mistake: not counting the record that is asked for again.
RequestShort(action, asked, v) ==
  [asked      |-> asked,
   action     |-> IF action = "newer" /\ v # None THEN "current" ELSE action,
   current    |-> IF v = None THEN 0
                  ELSE IF action # "newer" THEN v.start
                  ELSE IF v.start + 1 >= v.end THEN v.start ELSE v.end - 1,
   count      |-> IF action = "newer" /\ v # None THEN Shift ELSE Records,
   generation |-> IF v = None THEN None ELSE v.generation,
   page       |-> None,
   void       |-> FALSE]

\* A request for `action' on behalf of the action `asked'.  `newer' asks for
\* the last record that is shown again, which may have been partial.
Request(action, asked, v) ==
  LET newer == action = "newer" /\ v # None IN
  [asked      |-> asked,
   action     |-> IF newer THEN "current" ELSE action,
   current    |-> IF v = None THEN 0
                  ELSE IF ~newer THEN v.start
                  ELSE IF v.start + 1 >= v.end THEN v.start ELSE v.end - 1,
   count      |-> IF newer THEN Shift + 1 ELSE Records,
   generation |-> IF v = None THEN None ELSE v.generation,
   page       |-> None,
   void       |-> FALSE]

\* The host answers; an old generation is a conflict (409), upon which the
\* tail is asked for.
Serve ==
  /\ busy # None /\ busy.page = None
  /\ IF busy.generation \notin {None, generation}
     THEN busy' = [Request("tail", busy.asked, None) EXCEPT !.void = busy.void]
     ELSE \E fit \in Fit..(Fit + Records) :
            LET w == Window(busy.action, busy.current, busy.count, Shift, Total(log), fit) IN
            busy' = [busy EXCEPT !.page =
              [generation |-> generation, start |-> w.start, end |-> w.end,
               total |-> Total(log),
               records |-> [i \in 1..(w.end - w.start) |-> Record(w.start + i - 1)]]]
  /\ UNCHANGED <<hostVars, drawer, paused, error, view, following, pending, acts, fails, due>>

-----------------------------------------------------------------------------
(* slideWindow: a page is joined to the view it continues.                 *)

LastOf(s, n) == SubSeq(s, IF Len(s) < n THEN 1 ELSE Len(s) - n + 1, Len(s))
FirstOf(s, n) == SubSeq(s, 1, Least(n, Len(s)))

\* Mistake: keeping the records at the wrong end of a window that is full.
SlideFirst(v, p, action) ==
  LET fits == /\ v.generation = p.generation
              /\ \/ action = "older" /\ p.end = v.start
                 \/ action = "newer" /\ v.start <= p.start /\ p.start <= v.end
      joined == IF action = "older" THEN p.records \o v.records
                ELSE FirstOf(v.records, p.start - v.start) \o p.records
      kept  == FirstOf(joined, Records)
      start == IF action = "older" THEN p.start ELSE p.end - Len(kept) IN
  IF ~fits THEN p
  ELSE [p EXCEPT !.records = kept, !.start = start, !.end = start + Len(kept)]

Slide(v, p, action) ==
  LET fits == /\ v.generation = p.generation
              /\ \/ action = "older" /\ p.end = v.start
                 \/ action = "newer" /\ v.start <= p.start /\ p.start <= v.end
      kept  == IF action = "older" THEN FirstOf(p.records \o v.records, Records)
               ELSE LastOf(FirstOf(v.records, p.start - v.start) \o p.records, Records)
      start == IF action = "older" THEN p.start ELSE p.end - Len(kept) IN
  IF ~fits THEN p
  ELSE [p EXCEPT !.records = kept, !.start = start, !.end = start + Len(kept)]

-----------------------------------------------------------------------------
(* requestProjection: one request at a time, the last action asked for in  *)
(* the meantime comes next.                                                *)

\* Mistake: forgetting what is asked for while a request is in flight.
AskIdly(action, v) ==
  /\ pending' = pending
  /\ busy' = IF busy = None THEN Request(action, action, v) ELSE busy

Ask(action, v) ==
  IF busy = None
  THEN busy' = Request(action, action, v) /\ UNCHANGED pending
  ELSE pending' = action /\ UNCHANGED busy

\* The loop goes on with what was asked for in the meantime.
GoOn ==
  /\ busy' = IF pending = None THEN None ELSE Request(pending, pending, view')
  /\ pending' = None

\* Mistake: not to ask whether the drawer or the log is another by now.
DroppedUnlessVoid ==
  \/ pending \notin {None, busy.asked}
  \/ (paused \/ ~following) /\ view # None /\ busy.asked = "tail"

\* An answer is dropped when the drawer or the log is another by now, when
\* something else is asked for, and a tail when the reader has left it.
Dropped ==
  \/ busy.void
  \/ pending \notin {None, busy.asked}
  \/ (paused \/ ~following) /\ view # None /\ busy.asked = "tail"

Receive ==
  /\ busy # None /\ busy.page # None
  /\ IF Dropped
     THEN UNCHANGED <<view, following, error>>
     ELSE LET page == busy.page IN
          /\ view' = IF busy.generation = None THEN page ELSE Slide(view, page, busy.asked)
          /\ following' = (following \/ (view # None /\ view.generation # page.generation))
          /\ error' = FALSE
  /\ GoOn
  /\ UNCHANGED <<hostVars, drawer, paused, acts, fails, due>>

\* Any other answer, a second conflict among them, is an error, which is shown
\* unless another request follows.  Nothing is asked for again.
Refused ==
  /\ busy # None /\ busy.page = None /\ fails < MaxFails
  /\ fails' = fails + 1
  /\ error' = (error \/ (~busy.void /\ pending = None))
  /\ UNCHANGED view
  /\ GoOn
  /\ UNCHANGED <<hostVars, drawer, paused, following, acts, due>>

\* projectionChanged: a follower asks for the tail, and others are told that
\* there is more.
Changed(now) ==
  IF following /\ ~now
  THEN due' = Total(log) /\ Ask("tail", view)
  ELSE due' = 0 /\ UNCHANGED <<pending, busy>>

\* routeLogNotification: a chunk of the shell the drawer shows, which may come
\* before the answer to its subscription, or although that has failed here.
Chunk ==
  /\ news > 0
  /\ news' = news - 1
  /\ \/ drawer # "closed" /\ Changed(paused)
     \/ drawer # "open" /\ UNCHANGED <<pending, busy, due>>
  /\ UNCHANGED <<held, log, generation, drawer, paused, error, view, following, acts, fails>>

-----------------------------------------------------------------------------
(* What the reader of the dashboard does.                                  *)

Act ==
  /\ acts < MaxActs /\ acts' = acts + 1
  /\ UNCHANGED hostVars

\* What is in flight is of an earlier opening, or of the log before its reset.
Voided == IF busy = None THEN None ELSE [busy EXCEPT !.void = TRUE]

\* openLogDrawer, also when it is open.
Open ==
  /\ Act
  /\ drawer' = "opening"
  /\ view' = None /\ following' = TRUE /\ busy' = Voided
  /\ error' = FALSE
  /\ due' = 0
  /\ UNCHANGED <<paused, pending, fails>>

\* openLogSubscription: the shell is subscribed to, and the tail asked for ...
Opened ==
  /\ drawer = "opening"
  /\ drawer' = "open"
  /\ Ask("tail", view)
  /\ UNCHANGED <<hostVars, paused, error, view, following, acts, fails, due>>

\* ... or that fails.
OpenFails ==
  /\ drawer = "opening" /\ fails < MaxFails
  /\ drawer' = "failed"
  /\ error' = TRUE
  /\ fails' = fails + 1
  /\ UNCHANGED <<hostVars, paused, view, following, pending, busy, acts, due>>

\* closeLogDrawer.
Close ==
  /\ drawer # "closed" /\ Act
  /\ drawer' = "closed"
  /\ view' = None /\ pending' = None /\ busy' = Voided
  /\ due' = 0
  /\ UNCHANGED <<paused, error, following, fails>>

\* A peer announces that it has reset the log; the host never does.
ResetAnnounced ==
  /\ drawer = "open" /\ Act
  /\ view' = None /\ following' = TRUE
  /\ error' = FALSE
  /\ IF busy = None
     THEN busy' = Request("tail", "tail", None) /\ UNCHANGED pending
     ELSE busy' = Voided /\ pending' = "tail"
  /\ due' = 0
  /\ UNCHANGED <<drawer, paused, fails>>

\* The box "pause": leaving it asks for what is new.
Pause ==
  /\ drawer # "closed" /\ Act
  /\ paused' = ~paused
  /\ Changed(paused')
  /\ UNCHANGED <<drawer, error, view, following, fails>>

\* The reader presses a button, or scrolls towards an end of the window.
Navigate(action) ==
  /\ view # None /\ Act
  /\ action = "older" => view.start # 0
  /\ action = "newer" => view.end # view.total
  /\ following' = (action = "tail")
  /\ due' = IF action = "tail" THEN due ELSE 0
  /\ Ask(action, view)
  /\ UNCHANGED <<drawer, paused, error, view, fails>>

\* The reader scrolls away from the bottom, not so far that more is needed.
ScrollAway ==
  /\ view # None /\ following /\ ~paused /\ Act
  /\ following' = FALSE
  /\ due' = 0
  /\ UNCHANGED <<drawer, paused, error, view, pending, busy, fails>>

-----------------------------------------------------------------------------
\* The drawer is being opened.
Init ==
  /\ held = Empty /\ log = Empty
  /\ generation = 0
  /\ news = 0
  /\ drawer = "opening" /\ paused = FALSE /\ error = FALSE
  /\ view = None
  /\ following = TRUE
  /\ pending = None
  /\ busy = None
  /\ acts = 0 /\ fails = 0
  /\ due = 0

Next ==
  \/ \E ends \in BOOLEAN : Publish(ends)
  \/ Flush \/ Truncate
  \/ Serve \/ Receive \/ Refused \/ Chunk
  \/ Open \/ Opened \/ OpenFails \/ Close \/ ResetAnnounced \/ Pause
  \/ \E action \in {"tail", "older", "newer"} : Navigate(action)
  \/ ScrollAway

Spec == Init /\ [][Next]_vars

\* Notifications and answers arrive.  Nobody has to flush the buffer.
Fairness == WF_vars(Serve) /\ WF_vars(Receive) /\ WF_vars(Chunk)

FairSpec == Spec /\ Fairness

-----------------------------------------------------------------------------
(* Correctness.                                                            *)

Actions == {"tail", "older", "newer"}

IsPage(p) ==
  /\ p.generation \in 0..MaxResets
  /\ p.start \in 0..p.end /\ p.end \in 0..p.total /\ p.total \in 0..MaxTotal

TypeOK ==
  /\ log \in Logs /\ held \in Logs
  /\ log.complete + held.complete <= MaxRecords
  /\ generation \in 0..MaxResets
  /\ news \in 0..MaxNews
  /\ drawer \in {"closed", "opening", "open", "failed"}
  /\ paused \in BOOLEAN /\ error \in BOOLEAN
  /\ view # None => IsPage(view) /\ drawer # "closed"
  /\ following \in BOOLEAN
  /\ pending \in Actions \cup {None}
  /\ busy # None => /\ busy.asked \in Actions
                    /\ busy.action \in WindowAction
                    /\ busy.current \in 0..MaxTotal
                    /\ busy.page # None => IsPage(busy.page)
                    /\ busy.void \in BOOLEAN
  /\ acts \in 0..MaxActs /\ fails \in 0..MaxFails
  /\ due \in 0..MaxTotal

\* What the reader sees is an uninterrupted stretch of one content of the log,
\* numbered as the window says, and no longer than a window may be, however
\* pages were asked for, dropped and joined.  (slideWindow)
ViewConsecutive ==
  view # None =>
    /\ Len(view.records) = view.end - view.start
    /\ Len(view.records) <= Records
    /\ \A i \in 1..Len(view.records) :
         /\ view.records[i].n = view.start + i - 1
         /\ view.records[i].generation = view.generation

\* A record that was partial when it was shown does not stay so in the middle
\* of a window that has moved on.  (loadWindow)
NoStalePartial ==
  view # None => \A i \in 1..(Len(view.records) - 1) : view.records[i].whole

\* Paging goes on: whenever an answer to a request for older or newer records
\* than those in view is taken, the window moves that way, without a gap, or
\* shows that there are no more; what comes after a conflict is the tail of
\* another log.  (loadWindow, slideWindow, LineIndex::window)
Paged == Receive /\ ~Dropped /\ busy.generation # None
PagesMove ==
  [][Paged => /\ busy.asked = "older" =>
                   view'.end >= view.start
                   /\ (view'.start < view.start \/ view'.start = 0)
              /\ busy.asked = "newer" =>
                   view'.start <= view.end
                   /\ (view'.end > view.end \/ view'.end = view'.total)]_vars

\* A follower is never behind without knowing it: when a chunk is announced,
\* what is in the file by then is shown in the end, or the error of a request
\* that failed is, unless the reader goes elsewhere, pauses, opens or closes
\* the drawer, or the log is reset; and whatever the request in flight was
\* about.  (requestProjection, projectionChanged)
Follows == drawer = "open" /\ following /\ ~paused

FollowerCatchesUp ==
  (Follows /\ due > 0)
    ~> (~Follows \/ due = 0 \/ error
        \/ (view # None /\ view.generation = generation /\ view.end >= due))
=============================================================================
