------------------------- MODULE LogDashboard_proofs -------------------------
(***************************************************************************)
(* Proofs about LogWindow and LogDashboard, for windows, shifts, budgets   *)
(* and logs of any size.                                                   *)
(***************************************************************************)
EXTENDS LogDashboard, TLAPS

-----------------------------------------------------------------------------
(* Windows of a log.                                                       *)

\* A window lies within the log and holds no more than was asked for and than
\* there is room for.
LEMMA WindowInLog ==
  ASSUME NEW action \in WindowAction, NEW current \in Nat, NEW count \in Nat,
         NEW shift \in Nat, NEW total \in Nat, NEW fit \in Nat,
         NEW w, w = Window(action, current, count, shift, total, fit)
  PROVE  /\ w.start \in Nat /\ w.end \in Nat
         /\ w.start <= w.end /\ w.end <= total
         /\ w.end - w.start <= count /\ w.end - w.start <= fit
BY DEF Window, WindowAction, Boundary, Length, Backward, Least

-----------------------------------------------------------------------------
(* Stretches of records.                                                   *)

Entry == [generation : Nat, n : Nat, whole : BOOLEAN]

\* The records of generation g from number `from' on.
Stretch(s, g, from) ==
  /\ s \in Seq(Entry)
  /\ \A i \in 1..Len(s) : s[i].n = from + i - 1 /\ s[i].generation = g

LEMMA StretchJoined ==
  ASSUME NEW g \in Nat, NEW from \in Nat,
         NEW s \in Seq(Entry), NEW t \in Seq(Entry),
         NEW mid \in Nat, mid = from + Len(s), Stretch(s, g, from), Stretch(t, g, mid)
  PROVE  Stretch(s \o t, g, from) /\ Len(s \o t) = Len(s) + Len(t)
<1>1. s \in Seq(Entry) /\ t \in Seq(Entry) /\ Len(s) \in Nat /\ Len(t) \in Nat
  BY DEF Stretch
<1>2. s \o t \in Seq(Entry) /\ Len(s \o t) = Len(s) + Len(t)
  BY <1>1
<1>3. ASSUME NEW i \in 1..Len(s \o t)
      PROVE  (s \o t)[i].n = from + i - 1 /\ (s \o t)[i].generation = g
  <2>1. CASE i <= Len(s)
    <3>1. (s \o t)[i] = s[i] /\ i \in 1..Len(s)
      BY <1>1, <1>2, <1>3, <2>1
    <3>. QED
      BY <3>1 DEF Stretch
  <2>2. CASE i > Len(s)
    <3>1. (s \o t)[i] = t[i - Len(s)] /\ i - Len(s) \in 1..Len(t)
      BY <1>1, <1>2, <1>3, <2>2
    <3>2. t[i - Len(s)].n = from + Len(s) + (i - Len(s)) - 1 /\ t[i - Len(s)].generation = g
      BY <3>1 DEF Stretch
    <3>. QED
      BY <1>1, <3>1, <3>2
  <2>. QED
    BY <1>1, <1>2, <1>3, <2>1, <2>2
<1>. QED
  BY <1>2, <1>3 DEF Stretch

LEMMA StretchCut ==
  ASSUME NEW g \in Nat, NEW from \in Nat, NEW s \in Seq(Entry), Stretch(s, g, from),
         NEW a \in 1..(Len(s) + 1), NEW b \in 0..Len(s), a <= b + 1
  PROVE  /\ Stretch(SubSeq(s, a, b), g, from + a - 1)
         /\ Len(SubSeq(s, a, b)) = b - a + 1
<1>1. s \in Seq(Entry) /\ Len(s) \in Nat
  BY DEF Stretch
<1>2. \A i \in a..b : s[i] \in Entry
  BY <1>1
<1>3. /\ SubSeq(s, a, b) \in Seq(Entry) /\ Len(SubSeq(s, a, b)) = b - a + 1
      /\ \A i \in 1..(b - a + 1) : SubSeq(s, a, b)[i] = s[a + i - 1]
  BY <1>1, <1>2
<1>4. ASSUME NEW i \in 1..Len(SubSeq(s, a, b))
      PROVE  /\ SubSeq(s, a, b)[i].n = from + a - 1 + i - 1
             /\ SubSeq(s, a, b)[i].generation = g
  <2>1. SubSeq(s, a, b)[i] = s[a + i - 1] /\ a + i - 1 \in 1..Len(s)
    BY <1>1, <1>3, <1>4
  <2>2. s[a + i - 1].n = from + (a + i - 1) - 1 /\ s[a + i - 1].generation = g
    BY <2>1 DEF Stretch
  <2>. QED
    BY <2>1, <2>2
<1>. QED
  BY <1>3, <1>4 DEF Stretch

-----------------------------------------------------------------------------
(* Pages.                                                                  *)

Page ==
  [generation : Nat, start : Nat, end : Nat, total : Nat, records : Seq(Entry)]

\* What ViewConsecutive asks of the view.
Consecutive(p) ==
  /\ Len(p.records) = p.end - p.start /\ Len(p.records) <= Records
  /\ Stretch(p.records, p.generation, p.start)

IsStretch(p) == p \in Page /\ Consecutive(p)

\* The first and the last records of a stretch.
LEMMA FirstStretch ==
  ASSUME NEW g \in Nat, NEW from \in Nat, NEW s \in Seq(Entry), Stretch(s, g, from),
         NEW n \in Nat
  PROVE  /\ Stretch(FirstOf(s, n), g, from) /\ FirstOf(s, n) \in Seq(Entry)
         /\ Len(FirstOf(s, n)) <= n /\ Len(FirstOf(s, n)) \in Nat
         /\ n <= Len(s) => Len(FirstOf(s, n)) = n
<1>. DEFINE b == Least(n, Len(s))
<1>1. /\ b \in 0..Len(s) /\ b <= n /\ 1 \in 1..(Len(s) + 1) /\ 1 <= b + 1
      /\ n <= Len(s) => b = n
  BY DEF Least
<1>2. FirstOf(s, n) = SubSeq(s, 1, b)
  BY DEF FirstOf
<1>. HIDE DEF b
<1>3. Stretch(SubSeq(s, 1, b), g, from + 1 - 1) /\ Len(SubSeq(s, 1, b)) = b - 1 + 1
  BY <1>1, StretchCut
<1>4. from + 1 - 1 = from /\ b - 1 + 1 = b
  BY <1>1
<1>. QED
  BY <1>1, <1>2, <1>3, <1>4 DEF Stretch

LEMMA LastStretch ==
  ASSUME NEW g \in Nat, NEW from \in Nat, NEW s \in Seq(Entry), Stretch(s, g, from),
         NEW n \in Nat
  PROVE  /\ Stretch(LastOf(s, n), g, from + Len(s) - Len(LastOf(s, n)))
         /\ Len(LastOf(s, n)) <= n /\ Len(LastOf(s, n)) \in 0..Len(s)
<1>. DEFINE a == IF Len(s) < n THEN 1 ELSE Len(s) - n + 1
<1>1. /\ a \in 1..(Len(s) + 1) /\ Len(s) \in 0..Len(s) /\ a <= Len(s) + 1
      /\ Len(s) - a + 1 <= n
  OBVIOUS
<1>2. LastOf(s, n) = SubSeq(s, a, Len(s))
  BY DEF LastOf
<1>. HIDE DEF a
<1>3. /\ Stretch(SubSeq(s, a, Len(s)), g, from + a - 1)
      /\ Len(SubSeq(s, a, Len(s))) = Len(s) - a + 1
  BY <1>1, StretchCut
<1>4. from + Len(s) - (Len(s) - a + 1) = from + a - 1
  BY <1>1
<1>. QED
  BY <1>1, <1>2, <1>3, <1>4

\* A page of older records before the view, and one of newer records after
\* the part of the view it does not repeat.
LEMMA OlderStretch ==
  ASSUME NEW g \in Nat, NEW from \in Nat, NEW p \in Seq(Entry), NEW v \in Seq(Entry),
         Stretch(p, g, from), Stretch(v, g, from + Len(p))
  PROVE  /\ Stretch(FirstOf(p \o v, Records), g, from)
         /\ Len(FirstOf(p \o v, Records)) \in 0..Records
<1>. DEFINE joined == p \o v
<1>1. Stretch(joined, g, from) /\ joined \in Seq(Entry)
  <2>1. from + Len(p) \in Nat
    OBVIOUS
  <2>. QED
    BY <2>1, StretchJoined DEF Stretch
<1>2. Records \in Nat
  BY WindowAssumption
<1>. HIDE DEF joined
<1>3. /\ Stretch(FirstOf(joined, Records), g, from)
      /\ Len(FirstOf(joined, Records)) <= Records /\ Len(FirstOf(joined, Records)) \in Nat
  BY <1>1, <1>2, FirstStretch
<1>4. Len(FirstOf(joined, Records)) \in 0..Records
  BY <1>2, <1>3
<1>. QED
  BY <1>3, <1>4 DEF joined

LEMMA NewerStretch ==
  ASSUME NEW g \in Nat, NEW from \in Nat, NEW head \in Seq(Entry), NEW p \in Seq(Entry),
         Stretch(head, g, from), Stretch(p, g, from + Len(head)),
         NEW end \in Nat, end = from + Len(head) + Len(p),
         NEW kept, kept = LastOf(head \o p, Records)
  PROVE  /\ Stretch(kept, g, end - Len(kept))
         /\ Len(kept) \in 0..Records /\ Len(kept) <= end
<1>. DEFINE joined == head \o p
<1>1. /\ Stretch(joined, g, from) /\ joined \in Seq(Entry)
      /\ Len(joined) = Len(head) + Len(p)
  <2>1. from + Len(head) \in Nat
    OBVIOUS
  <2>. QED
    BY <2>1, StretchJoined DEF Stretch
<1>2. Records \in Nat /\ kept = LastOf(joined, Records)
  BY WindowAssumption
<1>. HIDE DEF joined
<1>3. /\ Stretch(kept, g, from + Len(joined) - Len(kept))
      /\ Len(kept) <= Records /\ Len(kept) \in 0..Len(joined)
  BY <1>1, <1>2, LastStretch
<1>4. from + Len(joined) = end
  BY <1>1
<1>. QED
  BY <1>1, <1>2, <1>3, <1>4

\* Joining two stretches gives a stretch that is no longer than a window.
LEMMA SlideStretch ==
  ASSUME NEW v, NEW p, NEW action, IsStretch(v), IsStretch(p)
  PROVE  IsStretch(Slide(v, p, action))
<1>. DEFINE fits == /\ v.generation = p.generation
                    /\ \/ action = "older" /\ p.end = v.start
                       \/ action = "newer" /\ v.start <= p.start /\ p.start <= v.end
<1>1. /\ v.start \in Nat /\ v.end \in Nat /\ v.records \in Seq(Entry)
      /\ v.generation \in Nat /\ Len(v.records) = v.end - v.start
  BY DEF IsStretch, Consecutive, Page
<1>2. /\ p.start \in Nat /\ p.end \in Nat /\ p.records \in Seq(Entry)
      /\ p.generation \in Nat /\ Len(p.records) = p.end - p.start /\ p \in Page
  BY DEF IsStretch, Consecutive, Page
<1>3. Stretch(v.records, v.generation, v.start) /\ Stretch(p.records, p.generation, p.start)
  BY DEF IsStretch, Consecutive
<1>4. CASE ~fits
  BY <1>4 DEF Slide
<1>5. CASE fits /\ action = "older"
  <2>. DEFINE kept == FirstOf(p.records \o v.records, Records)
              q == [p EXCEPT !.records = kept, !.start = p.start, !.end = p.start + Len(kept)]
  <2>1. Stretch(v.records, p.generation, p.start + Len(p.records))
    <3>1. v.generation = p.generation /\ p.start + Len(p.records) = v.start
      BY <1>1, <1>2, <1>5
    <3>. QED
      BY <1>3, <3>1
  <2>2. Stretch(kept, p.generation, p.start) /\ Len(kept) \in 0..Records
    BY <1>1, <1>2, <1>3, <2>1, OlderStretch
  <2>3. Slide(v, p, action) = q
    BY <1>5, Zenon DEF Slide
  <2>. HIDE DEF kept
  <2>4. kept \in Seq(Entry) /\ p.start + Len(kept) \in Nat
    BY <1>2, <2>2, WindowAssumption DEF Stretch
  <2>5. /\ q \in Page /\ q.records = kept /\ q.start = p.start
        /\ q.end = p.start + Len(kept) /\ q.generation = p.generation
    BY <1>2, <2>4 DEF Page
  <2>. HIDE DEF q
  <2>6. Len(q.records) = q.end - q.start /\ Len(q.records) <= Records
    BY <1>2, <2>2, <2>5, WindowAssumption
  <2>. QED
    BY <2>2, <2>3, <2>5, <2>6 DEF IsStretch, Consecutive
<1>6. CASE fits /\ action = "newer"
  <2>. DEFINE n == p.start - v.start
              head == FirstOf(v.records, n)
              kept == LastOf(head \o p.records, Records)
              q == [p EXCEPT !.records = kept, !.start = p.end - Len(kept),
                             !.end = p.end - Len(kept) + Len(kept)]
  <2>1. /\ n \in Nat /\ n <= Len(v.records) /\ v.start + n = p.start
        /\ v.start + n + Len(p.records) = p.end
    BY <1>1, <1>2, <1>6
  <2>3. Slide(v, p, action) = q
    BY <1>6, Zenon DEF Slide
  <2>. HIDE DEF n
  <2>2. Stretch(head, v.generation, v.start) /\ head \in Seq(Entry) /\ Len(head) = n
    BY <1>1, <1>3, <2>1, FirstStretch
  <2>. HIDE DEF head
  <2>4. /\ Stretch(kept, p.generation, p.end - Len(kept))
        /\ Len(kept) \in 0..Records /\ Len(kept) <= p.end
    <3>1. /\ v.generation = p.generation /\ v.start + Len(head) = p.start
          /\ p.end = v.start + Len(head) + Len(p.records)
      BY <1>1, <1>2, <1>6, <2>1, <2>2
    <3>2. /\ Stretch(p.records, p.generation, v.start + Len(head))
          /\ Stretch(head, p.generation, v.start)
      BY <1>3, <2>2, <3>1
    <3>. QED
      BY <1>1, <1>2, <2>2, <3>1, <3>2, NewerStretch
  <2>. HIDE DEF kept
  <2>5. kept \in Seq(Entry) /\ Len(kept) \in Nat /\ Len(kept) <= Records
    BY <2>4, WindowAssumption DEF Stretch
  <2>6. p.end - Len(kept) \in Nat /\ p.end - Len(kept) + Len(kept) \in Nat
    BY <1>2, <2>4, <2>5
  <2>7. /\ q \in Page /\ q.records = kept /\ q.start = p.end - Len(kept)
        /\ q.end = p.end - Len(kept) + Len(kept) /\ q.generation = p.generation
    BY <1>2, <2>5, <2>6 DEF Page
  <2>. HIDE DEF q
  <2>8. Len(q.records) = q.end - q.start /\ Len(q.records) <= Records
    BY <1>2, <2>5, <2>7
  <2>. QED
    BY <2>3, <2>4, <2>7, <2>8 DEF IsStretch, Consecutive
<1>. QED
  BY <1>4, <1>5, <1>6

-----------------------------------------------------------------------------
(* The invariant: whatever is shown, or on its way to be shown, is a       *)
(* stretch of one content of the log.                                      *)

Asked ==
  [asked : Actions, action : WindowAction, current : Nat, count : 0..Records,
   generation : Nat \cup {None}, page : Page \cup {None}, void : BOOLEAN]

Answerable(r) == r \in Asked /\ (r.page # None => IsStretch(r.page))

Text == [complete : Nat, partial : BOOLEAN]

Inv ==
  /\ log \in Text /\ held \in Text
  /\ generation \in Nat
  /\ pending \in Actions \cup {None}
  /\ view # None => IsStretch(view)
  /\ busy # None => Answerable(busy)

\* The log has a number of records.
LEMMA TotalIsNat ==
  ASSUME NEW text \in Text
  PROVE  /\ Total(text) \in Nat /\ text.complete \in Nat
         /\ text.complete <= Total(text) /\ Total(text) <= text.complete + 1
BY DEF Text, Total

\* A request asks for a window no longer than the dashboard's.
LEMMA RequestAnswerable ==
  ASSUME NEW action \in Actions, NEW asked \in Actions, NEW v,
         v # None => IsStretch(v)
  PROVE  Answerable(Request(action, asked, v))
<1>. DEFINE r == Request(action, asked, v)
<1>1. v # None => v.start \in Nat /\ v.end \in Nat /\ v.generation \in Nat
  BY DEF IsStretch, Page
<1>2. r \in Asked
  BY <1>1, WindowAssumption DEF Request, Asked, Actions, WindowAction
<1>3. r.page = None
  BY DEF Request
<1>. QED
  BY <1>2, <1>3 DEF Answerable

\* The page the host answers with is a stretch of what the log has then.
LEMMA ServedStretch ==
  ASSUME NEW total \in Nat, log.complete \in Nat, generation \in Nat,
         NEW action \in WindowAction, NEW current \in Nat, NEW count \in 0..Records,
         NEW fit \in Nat,
         NEW w, w = Window(action, current, count, Shift, total, fit)
  PROVE  IsStretch([generation |-> generation, start |-> w.start, end |-> w.end,
                    total |-> total,
                    records |-> [i \in 1..(w.end - w.start) |-> Record(w.start + i - 1)]])
<1>. DEFINE n == w.end - w.start
            records == [i \in 1..n |-> Record(w.start + i - 1)]
            page == [generation |-> generation, start |-> w.start, end |-> w.end,
                     total |-> total, records |-> records]
<1>1. /\ w.start \in Nat /\ w.end \in Nat /\ n \in Nat /\ n <= Records
  <2>1. Shift \in Nat /\ Records \in Nat /\ count \in Nat /\ count <= Records
    BY WindowAssumption
  <2>2. w.start \in Nat /\ w.end \in Nat /\ w.start <= w.end /\ w.end - w.start <= count
    BY <2>1, WindowInLog, Zenon
  <2>. QED
    BY <2>1, <2>2
<1>2. \A i \in 1..n : /\ Record(w.start + i - 1) \in Entry
                       /\ Record(w.start + i - 1).n = w.start + i - 1
                       /\ Record(w.start + i - 1).generation = generation
  BY <1>1 DEF Record, Entry
<1>. HIDE DEF n
<1>3. records \in Seq(Entry) /\ Len(records) = n
  BY <1>1, <1>2
<1>4. Stretch(records, generation, w.start)
  BY <1>2, <1>3 DEF Stretch
<1>. HIDE DEF records
<1>5. /\ page \in Page /\ page.generation = generation /\ page.start = w.start
      /\ page.end = w.end /\ page.records = records
  BY <1>1, <1>3 DEF Page
<1>6. Len(page.records) = page.end - page.start /\ Len(page.records) <= Records
  BY <1>1, <1>3, <1>5 DEF n
<1>. HIDE DEF page
<1>7. IsStretch(page)
  BY <1>4, <1>5, <1>6 DEF IsStretch, Consecutive
<1>. QED
  BY <1>7 DEF page, records, n

-----------------------------------------------------------------------------
(* The steps.                                                              *)

LEMMA InitInv == Init => Inv
BY DEF Init, Inv, Text, Empty

\* What is asked for while a request is in flight waits.
LEMMA AskInv ==
  ASSUME Inv, NEW action \in Actions, NEW v, v # None => IsStretch(v), Ask(action, v)
  PROVE  pending' \in Actions \cup {None} /\ (busy' # None => Answerable(busy'))
<1>1. CASE busy = None
  <2>1. busy' = Request(action, action, v) /\ pending' = pending
    BY <1>1 DEF Ask
  <2>. QED
    BY <2>1, RequestAnswerable DEF Inv
<1>2. CASE busy # None
  BY <1>2 DEF Ask, Inv
<1>. QED
  BY <1>1, <1>2

LEMMA ServeInv == ASSUME Inv, Serve PROVE Inv'
<1>1. busy # None /\ Answerable(busy) /\ busy \in Asked
  BY DEF Serve, Inv, Answerable
<1>2. Answerable(busy')
  <2>1. CASE busy.generation \notin {None, generation}
    <3>1. PICK r : r = Request("tail", busy.asked, None)
      OBVIOUS
    <3>2. busy' = [r EXCEPT !.void = busy.void]
      BY <2>1, <3>1 DEF Serve
    <3>3. busy.asked \in Actions /\ busy.void \in BOOLEAN
      BY <1>1 DEF Asked
    <3>4. Answerable(r)
      BY <3>1, <3>3, RequestAnswerable DEF Actions
    <3>5. busy' \in Asked /\ busy'.page = r.page
      BY <3>2, <3>3, <3>4 DEF Answerable, Asked
    <3>. QED
      BY <3>4, <3>5 DEF Answerable
  <2>2. CASE ~(busy.generation \notin {None, generation})
    <3>1. PICK fit \in Fit..(Fit + Records) :
            LET w == Window(busy.action, busy.current, busy.count, Shift, Total(log), fit) IN
            busy' = [busy EXCEPT !.page =
              [generation |-> generation, start |-> w.start, end |-> w.end,
               total |-> Total(log),
               records |-> [i \in 1..(w.end - w.start) |-> Record(w.start + i - 1)]]]
      BY <2>2 DEF Serve
    <3>. DEFINE w == Window(busy.action, busy.current, busy.count, Shift, Total(log), fit)
                page == [generation |-> generation, start |-> w.start, end |-> w.end,
                  total |-> Total(log),
                  records |-> [i \in 1..(w.end - w.start) |-> Record(w.start + i - 1)]]
    <3>2. IsStretch(page)
      <4>1. /\ Total(log) \in Nat /\ log.complete \in Nat /\ generation \in Nat
        BY TotalIsNat DEF Inv
      <4>2. /\ busy.action \in WindowAction /\ busy.current \in Nat
            /\ busy.count \in 0..Records
        BY <1>1 DEF Asked
      <4>3. fit \in Nat
        BY <3>1, WindowAssumption
      <4>. QED
        BY <4>1, <4>2, <4>3, ServedStretch, Zenon
    <3>. HIDE DEF w, page
    <3>3. busy' = [busy EXCEPT !.page = page]
      BY <3>1 DEF w, page
    <3>4. busy' \in Asked /\ busy'.page = page
      BY <1>1, <3>2, <3>3 DEF Asked, IsStretch
    <3>. QED
      BY <3>2, <3>4 DEF Answerable
  <2>. QED
    BY <2>1, <2>2
<1>. QED
  BY <1>2 DEF Serve, Inv, hostVars

\* The loop goes on with what is asked for.
LEMMA GoOnInv ==
  ASSUME Inv, GoOn, view' # None => IsStretch(view')
  PROVE  busy' # None => Answerable(busy')
<1>1. CASE pending = None
  BY <1>1 DEF GoOn
<1>2. CASE pending # None
  <2>1. busy' = Request(pending, pending, view') /\ pending \in Actions
    BY <1>2 DEF GoOn, Inv
  <2>. QED
    BY <2>1, RequestAnswerable
<1>. QED
  BY <1>1, <1>2

\* A request with a generation is about a view, unless it is void: part of
\* PagesInv below.
Continues == busy # None /\ ~busy.void /\ busy.generation # None => view # None

LEMMA ReceiveInv == ASSUME Inv, Continues, Receive PROVE Inv'
<1>1. /\ busy # None /\ busy.page # None /\ Answerable(busy) /\ IsStretch(busy.page)
  BY DEF Receive, Inv, Answerable
<1>2. view' # None => IsStretch(view')
  <2>1. \/ view' = view
        \/ view' = busy.page
        \/ view # None /\ view' = Slide(view, busy.page, busy.asked)
    BY DEF Receive, Dropped, Continues
  <2>2. ASSUME view # None
        PROVE  IsStretch(Slide(view, busy.page, busy.asked))
    BY <1>1, <2>2, SlideStretch DEF Inv
  <2>. QED
    BY <1>1, <2>1, <2>2 DEF Inv
<1>3. busy' # None => Answerable(busy')
  BY <1>2, GoOnInv DEF Receive
<1>. QED
  BY <1>2, <1>3 DEF Receive, GoOn, Inv, hostVars

LEMMA RefusedInv == ASSUME Inv, Refused PROVE Inv'
<1>1. (view' # None => IsStretch(view')) /\ GoOn
  BY DEF Refused, Inv
<1>2. busy' # None => Answerable(busy')
  BY <1>1, GoOnInv
<1>. QED
  BY <1>1, <1>2 DEF Refused, GoOn, Inv, hostVars

\* What is in flight stays so when it has become void.
LEMMA VoidedInv ==
  ASSUME Inv, busy' = Voided
  PROVE  busy' # None => Answerable(busy') /\ busy'.void
<1>1. SUFFICES ASSUME busy # None
               PROVE  Answerable(busy') /\ busy'.void
  BY DEF Voided
<1>2. busy' = [busy EXCEPT !.void = TRUE] /\ Answerable(busy) /\ busy \in Asked
  BY <1>1 DEF Voided, Inv, Answerable
<1>3. busy' \in Asked /\ busy'.page = busy.page /\ busy'.void
  BY <1>2 DEF Asked
<1>. QED
  BY <1>2, <1>3 DEF Answerable

LEMMA ChangedInv ==
  ASSUME Inv, NEW now, Changed(now)
  PROVE  pending' \in Actions \cup {None} /\ (busy' # None => Answerable(busy'))
<1>1. CASE following /\ ~now
  BY <1>1, AskInv DEF Changed, Actions, Inv
<1>2. CASE ~(following /\ ~now)
  BY <1>2 DEF Changed, Inv
<1>. QED
  BY <1>1, <1>2

\* Every step keeps the invariant.
LEMMA StepInv == ASSUME Inv, Continues, [Next]_vars PROVE Inv'
<1>. USE DEF hostVars, pageVars
<1>1. CASE \E ends \in BOOLEAN : Publish(ends)
  <2>1. PICK ends \in BOOLEAN : Publish(ends)
    BY <1>1
  <2>2. held' \in Text
    BY <2>1 DEF Publish, Inv, Text
  <2>. QED
    BY <2>1, <2>2 DEF Publish, Inv
<1>2. CASE Flush
  <2>1. log' \in Text /\ held' \in Text
    BY <1>2 DEF Flush, Inv, Text, Empty
  <2>. QED
    BY <1>2, <2>1 DEF Flush, Inv
<1>3. CASE Truncate
  <2>1. log' \in Text /\ generation' \in Nat
    BY <1>3 DEF Truncate, Inv, Text, Empty
  <2>. QED
    BY <1>3, <2>1 DEF Truncate, Inv
<1>4. CASE Serve
  BY <1>4, ServeInv
<1>5. CASE Receive
  BY <1>5, ReceiveInv
<1>6. CASE Refused
  BY <1>6, RefusedInv
<1>7. CASE Chunk
  <2>1. pending' \in Actions \cup {None} /\ (busy' # None => Answerable(busy'))
    <3>1. CASE Changed(paused)
      BY <3>1, ChangedInv
    <3>2. CASE UNCHANGED <<pending, busy>>
      BY <3>2 DEF Inv
    <3>. QED
      BY <1>7, <3>1, <3>2 DEF Chunk
  <2>. QED
    BY <1>7, <2>1 DEF Chunk, Inv
<1>8. CASE Open \/ Close
  <2>1. busy' # None => Answerable(busy')
    BY <1>8, VoidedInv DEF Open, Close
  <2>. QED
    BY <1>8, <2>1 DEF Open, Close, Act, Inv
<1>9. CASE Opened
  <2>1. pending' \in Actions \cup {None} /\ (busy' # None => Answerable(busy'))
    BY <1>9, AskInv DEF Opened, Actions, Inv
  <2>. QED
    BY <1>9, <2>1 DEF Opened, Inv
<1>10. CASE OpenFails
  BY <1>10 DEF OpenFails, Inv
<1>11. CASE ResetAnnounced
  <2>1. pending' \in Actions \cup {None} /\ (busy' # None => Answerable(busy'))
    <3>1. CASE busy = None
      BY <1>11, <3>1, RequestAnswerable DEF ResetAnnounced, Actions, Inv
    <3>2. CASE busy # None
      BY <1>11, <3>2, VoidedInv DEF ResetAnnounced, Actions
    <3>. QED
      BY <3>1, <3>2
  <2>. QED
    BY <1>11, <2>1 DEF ResetAnnounced, Act, Inv
<1>12. CASE Pause
  <2>1. pending' \in Actions \cup {None} /\ (busy' # None => Answerable(busy'))
    BY <1>12, ChangedInv DEF Pause
  <2>. QED
    BY <1>12, <2>1 DEF Pause, Act, Inv
<1>13. CASE \E action \in {"tail", "older", "newer"} : Navigate(action)
  <2>1. PICK action \in Actions : Navigate(action)
    BY <1>13 DEF Actions
  <2>2. pending' \in Actions \cup {None} /\ (busy' # None => Answerable(busy'))
    BY <2>1, AskInv DEF Navigate, Inv
  <2>. QED
    BY <2>1, <2>2 DEF Navigate, Act, Inv
<1>14. CASE ScrollAway
  BY <1>14 DEF ScrollAway, Act, Inv
<1>15. CASE UNCHANGED vars
  BY <1>15 DEF vars, Inv
<1>. QED
  BY <1>1, <1>2, <1>3, <1>4, <1>5, <1>6, <1>7, <1>8, <1>9, <1>10, <1>11, <1>12,
     <1>13, <1>14, <1>15 DEF Next

LEMMA InvConsecutive == Inv => ViewConsecutive
BY DEF Inv, ViewConsecutive, IsStretch, Consecutive, Stretch

-----------------------------------------------------------------------------
\* A log that grows has no fewer records.
LEMMA TotalGrows ==
  ASSUME Inv, Flush
  PROVE  Total(log) <= Total(log')
<1>1. /\ log' = [complete |-> log.complete + held.complete, partial |-> held.partial]
      /\ held # Empty /\ log \in Text /\ held \in Text
  BY DEF Flush, Inv
<1>2. held.complete # 0 \/ held.partial
  BY <1>1 DEF Text, Empty
<1>. QED
  BY <1>1, <1>2 DEF Text, Total

-----------------------------------------------------------------------------
(* Windows that follow a view.                                             *)

\* A window of older records ends where the view begins, and begins before, or
\* at the log's first record.
LEMMA WindowOlder ==
  ASSUME NEW total \in Nat, NEW current \in Nat, current <= total,
         NEW fit \in Nat, 2 <= fit,
         NEW w, w = Window("older", current, Records, Shift, total, fit)
  PROVE  /\ w.end = current /\ w.start \in Nat /\ w.end - w.start <= Shift
         /\ w.start < current \/ w.start = 0
<1>1. Shift \in Nat /\ Records \in Nat /\ 1 <= Shift /\ Shift < Records
  BY WindowAssumption
<1>. QED
  BY <1>1 DEF Window, Boundary, Length, Backward, Least

\* A window from a record of the view on, or from its end, has one record more
\* than the dashboard shifts, if there are so many and there is room.
LEMMA WindowNewer ==
  ASSUME NEW total \in Nat, NEW current \in Nat, current <= total,
         NEW fit \in Nat, 2 <= fit,
         NEW w, w = Window("current", current, Shift + 1, Shift, total, fit)
  PROVE  /\ w.start = current /\ w.end \in Nat /\ w.end <= current + Shift + 1
         /\ w.end >= current + 2 \/ w.end = total
<1>1. Shift \in Nat /\ 1 <= Shift
  BY WindowAssumption
<1>. QED
  BY <1>1 DEF Window, Boundary, Length, Backward, Least

-----------------------------------------------------------------------------
(* Partial records.                                                        *)

\* Only the last record may be partial.
Settled(s) == \A i \in 1..(Len(s) - 1) : s[i].whole

LEMMA JoinedLength ==
  ASSUME NEW s \in Seq(Entry), NEW t \in Seq(Entry)
  PROVE  s \o t \in Seq(Entry) /\ Len(s \o t) = Len(s) + Len(t)
OBVIOUS

LEMMA SettledJoined ==
  ASSUME NEW s \in Seq(Entry), NEW t \in Seq(Entry), Settled(s), Settled(t),
         t # <<>> => \A i \in 1..Len(s) : s[i].whole
  PROVE  Settled(s \o t)
<1>1. SUFFICES ASSUME NEW i \in 1..(Len(s \o t) - 1)
               PROVE  (s \o t)[i].whole
  BY DEF Settled
<1>2. /\ Len(s \o t) = Len(s) + Len(t) /\ Len(s) \in Nat /\ Len(t) \in Nat
      /\ i \in Nat /\ 1 <= i /\ i < Len(s) + Len(t)
  BY <1>1
<1>3. CASE i > Len(s)
  <2>1. (s \o t)[i] = t[i - Len(s)] /\ i - Len(s) \in 1..(Len(t) - 1)
    BY <1>2, <1>3
  <2>. QED
    BY <2>1 DEF Settled
<1>4. CASE i <= Len(s)
  <2>1. (s \o t)[i] = s[i] /\ i \in 1..Len(s)
    BY <1>2, <1>4
  <2>2. CASE t # <<>>
    BY <2>1, <2>2
  <2>3. CASE t = <<>>
    <3>1. i \in 1..(Len(s) - 1)
      BY <1>2, <2>3
    <3>. QED
      BY <2>1, <3>1 DEF Settled
  <2>. QED
    BY <2>2, <2>3
<1>. QED
  BY <1>2, <1>3, <1>4

LEMMA SettledCut ==
  ASSUME NEW s \in Seq(Entry), Settled(s),
         NEW a \in 1..(Len(s) + 1), NEW b \in 0..Len(s), a <= b + 1
  PROVE  Settled(SubSeq(s, a, b))
<1>1. /\ Len(SubSeq(s, a, b)) = b - a + 1
      /\ \A i \in 1..(b - a + 1) : SubSeq(s, a, b)[i] = s[a + i - 1]
  <2>1. \A i \in a..b : s[i] \in Entry
    OBVIOUS
  <2>. QED
    BY <2>1
<1>2. ASSUME NEW i \in 1..(b - a)
      PROVE  SubSeq(s, a, b)[i].whole
  <2>1. SubSeq(s, a, b)[i] = s[a + i - 1] /\ a + i - 1 \in 1..(Len(s) - 1)
    BY <1>1, <1>2
  <2>. QED
    BY <2>1 DEF Settled
<1>. QED
  BY <1>1, <1>2 DEF Settled

LEMMA SettledEnds ==
  ASSUME NEW s \in Seq(Entry), Settled(s), NEW n \in Nat
  PROVE  Settled(FirstOf(s, n)) /\ Settled(LastOf(s, n))
<1>1. Settled(FirstOf(s, n))
  <2>. DEFINE b == Least(n, Len(s))
  <2>1. b \in 0..Len(s) /\ 1 \in 1..(Len(s) + 1) /\ 1 <= b + 1
    BY DEF Least
  <2>2. FirstOf(s, n) = SubSeq(s, 1, b)
    BY DEF FirstOf
  <2>. HIDE DEF b
  <2>. QED
    BY <2>1, <2>2, SettledCut
<1>2. Settled(LastOf(s, n))
  <2>. DEFINE a == IF Len(s) < n THEN 1 ELSE Len(s) - n + 1
  <2>1. a \in 1..(Len(s) + 1) /\ Len(s) \in 0..Len(s) /\ a <= Len(s) + 1
    OBVIOUS
  <2>2. LastOf(s, n) = SubSeq(s, a, Len(s))
    BY DEF LastOf
  <2>. HIDE DEF a
  <2>. QED
    BY <2>1, <2>2, SettledCut
<1>. QED
  BY <1>1, <1>2

-----------------------------------------------------------------------------
(* What joining a page to the view gives.                                  *)

LEMMA SlideOlder ==
  ASSUME NEW v, NEW p, NEW q, IsStretch(v), IsStretch(p), q = Slide(v, p, "older"),
         v.generation = p.generation, p.end = v.start
  PROVE  /\ q.generation = p.generation /\ q.total = p.total
         /\ q.records = FirstOf(p.records \o v.records, Records)
         /\ q.start = p.start /\ q.end = p.start + Len(q.records)
<1>. DEFINE kept == FirstOf(p.records \o v.records, Records)
<1>1. q = [p EXCEPT !.records = kept, !.start = p.start, !.end = p.start + Len(kept)]
  BY Zenon DEF Slide
<1>2. p \in Page
  BY DEF IsStretch
<1>. HIDE DEF kept
<1>3. /\ q.generation = p.generation /\ q.total = p.total /\ q.records = kept
      /\ q.start = p.start /\ q.end = p.start + Len(kept)
  BY <1>1, <1>2 DEF Page
<1>. QED
  BY <1>3 DEF kept

LEMMA SlideNewer ==
  ASSUME NEW v, NEW p, NEW q, IsStretch(v), IsStretch(p), q = Slide(v, p, "newer"),
         v.generation = p.generation, v.start <= p.start, p.start <= v.end
  PROVE  /\ q.generation = p.generation /\ q.total = p.total
         /\ q.records = LastOf(FirstOf(v.records, p.start - v.start) \o p.records, Records)
         /\ q.start = p.end - Len(q.records)
         /\ q.end = p.end - Len(q.records) + Len(q.records)
<1>. DEFINE kept == LastOf(FirstOf(v.records, p.start - v.start) \o p.records, Records)
<1>1. q = [p EXCEPT !.records = kept, !.start = p.end - Len(kept),
                    !.end = p.end - Len(kept) + Len(kept)]
  BY Zenon DEF Slide
<1>2. p \in Page
  BY DEF IsStretch
<1>. HIDE DEF kept
<1>3. /\ q.generation = p.generation /\ q.total = p.total /\ q.records = kept
      /\ q.start = p.end - Len(kept) /\ q.end = p.end - Len(kept) + Len(kept)
  BY <1>1, <1>2 DEF Page
<1>. QED
  BY <1>3 DEF kept

\* A page that does not continue the view takes its place.
LEMMA SlideApart ==
  ASSUME NEW v, NEW p, NEW action,
         ~(/\ v.generation = p.generation
           /\ \/ action = "older" /\ p.end = v.start
              \/ action = "newer" /\ v.start <= p.start /\ p.start <= v.end)
  PROVE  Slide(v, p, action) = p
BY Zenon DEF Slide

LEMMA EndsLength ==
  ASSUME NEW s \in Seq(Entry), NEW n \in Nat
  PROVE  /\ Len(FirstOf(s, n)) = Least(n, Len(s)) /\ Len(LastOf(s, n)) = Least(n, Len(s))
         /\ FirstOf(s, n) \in Seq(Entry) /\ LastOf(s, n) \in Seq(Entry)
         /\ \A i \in 1..Len(FirstOf(s, n)) : FirstOf(s, n)[i] = s[i]
<1>1. ASSUME NEW a \in 1..(Len(s) + 1), NEW b \in 0..Len(s), a <= b + 1
      PROVE  /\ SubSeq(s, a, b) \in Seq(Entry) /\ Len(SubSeq(s, a, b)) = b - a + 1
             /\ \A i \in 1..(b - a + 1) : SubSeq(s, a, b)[i] = s[a + i - 1]
  <2>1. \A i \in a..b : s[i] \in Entry
    BY <1>1
  <2>. QED
    BY <1>1, <2>1
<1>2. /\ FirstOf(s, n) \in Seq(Entry) /\ Len(FirstOf(s, n)) = Least(n, Len(s))
      /\ \A i \in 1..Len(FirstOf(s, n)) : FirstOf(s, n)[i] = s[i]
  <2>. DEFINE b == Least(n, Len(s))
  <2>1. b \in 0..Len(s) /\ 1 \in 1..(Len(s) + 1) /\ 1 <= b + 1
    BY DEF Least
  <2>2. FirstOf(s, n) = SubSeq(s, 1, b)
    BY DEF FirstOf
  <2>. HIDE DEF b
  <2>3. /\ SubSeq(s, 1, b) \in Seq(Entry) /\ Len(SubSeq(s, 1, b)) = b - 1 + 1
        /\ \A i \in 1..(b - 1 + 1) : SubSeq(s, 1, b)[i] = s[1 + i - 1]
    BY <1>1, <2>1
  <2>4. b - 1 + 1 = b /\ \A i \in 1..b : 1 + i - 1 = i
    BY <2>1
  <2>. QED
    BY <2>2, <2>3, <2>4 DEF b
<1>3. LastOf(s, n) \in Seq(Entry) /\ Len(LastOf(s, n)) = Least(n, Len(s))
  <2>. DEFINE a == IF Len(s) < n THEN 1 ELSE Len(s) - n + 1
  <2>1. /\ a \in 1..(Len(s) + 1) /\ Len(s) \in 0..Len(s) /\ a <= Len(s) + 1
        /\ Len(s) - a + 1 = Least(n, Len(s))
    <3>1. Len(s) \in Nat
      OBVIOUS
    <3>2. CASE Len(s) < n
      BY <3>1, <3>2 DEF Least
    <3>3. CASE ~(Len(s) < n)
      <4>1. a = Len(s) - n + 1 /\ Least(n, Len(s)) = n
        BY <3>1, <3>3 DEF Least
      <4>. HIDE DEF a
      <4>2. a \in Nat /\ 1 <= a /\ a <= Len(s) + 1 /\ Len(s) - a + 1 = n
        BY <3>1, <3>3, <4>1
      <4>. QED
        BY <3>1, <4>1, <4>2
    <3>. QED
      BY <3>2, <3>3
  <2>2. LastOf(s, n) = SubSeq(s, a, Len(s))
    BY DEF LastOf
  <2>. HIDE DEF a
  <2>. QED
    BY <1>1, <2>1, <2>2
<1>. QED
  BY <1>2, <1>3

\* Older records are joined to the view: nothing of the page is lost, and what
\* was partial is at the end, if it is there.
LEMMA OlderJoined ==
  ASSUME NEW v, NEW p, NEW q, IsStretch(v), IsStretch(p), q = Slide(v, p, "older"),
         v.generation = p.generation, p.end = v.start,
         Settled(v.records), Settled(p.records),
         v.start < v.end => \A i \in 1..Len(p.records) : p.records[i].whole,
         p.end - p.start <= Shift
  PROVE  /\ Settled(q.records) /\ q.generation = p.generation /\ q.total = p.total
         /\ q.start = p.start /\ v.start <= q.end /\ q.end <= v.end
<1>1. /\ q.generation = p.generation /\ q.total = p.total
      /\ q.records = FirstOf(p.records \o v.records, Records)
      /\ q.start = p.start /\ q.end = p.start + Len(q.records)
  BY SlideOlder
<1>2. /\ v.start \in Nat /\ v.end \in Nat /\ v.records \in Seq(Entry)
      /\ Len(v.records) \in Nat /\ Len(v.records) = v.end - v.start
  BY DEF IsStretch, Consecutive, Page
<1>3. /\ p.start \in Nat /\ p.end \in Nat /\ p.records \in Seq(Entry)
      /\ Len(p.records) \in Nat /\ Len(p.records) = p.end - p.start
  BY DEF IsStretch, Consecutive, Page
<1>. DEFINE joined == p.records \o v.records
<1>4. joined \in Seq(Entry) /\ Len(joined) = v.end - p.start
  <2>1. joined \in Seq(Entry) /\ Len(joined) = Len(p.records) + Len(v.records)
    BY <1>2, <1>3, JoinedLength, Zenon
  <2>. HIDE DEF joined
  <2>. QED
    BY <1>2, <1>3, <2>1
<1>5. Settled(joined)
  <2>1. v.records # <<>> => v.start < v.end
    BY <1>2
  <2>. QED
    BY <1>2, <1>3, <2>1, SettledJoined, Zenon
<1>6. q.records = FirstOf(joined, Records)
  BY <1>1
<1>. HIDE DEF joined
<1>7. Records \in Nat /\ Shift <= Records /\ Shift \in Nat
  BY WindowAssumption
<1>8. Settled(q.records) /\ Len(q.records) = Least(Records, v.end - p.start)
  BY <1>4, <1>5, <1>6, <1>7, SettledEnds, EndsLength
<1>9. v.start <= q.end /\ q.end <= v.end
  <2>1. /\ v.start \in Nat /\ v.end \in Nat /\ p.start \in Nat
        /\ p.start <= v.start /\ v.start <= v.end /\ v.start - p.start <= Shift
    BY <1>2, <1>3
  <2>2. q.end = p.start + Least(Records, v.end - p.start)
    BY <1>1, <1>8
  <2>3. CASE Records < v.end - p.start
    <3>1. q.end = p.start + Records
      BY <2>2, <2>3 DEF Least
    <3>. QED
      BY <1>7, <2>1, <2>3, <3>1
  <2>4. CASE ~(Records < v.end - p.start)
    <3>1. q.end = p.start + (v.end - p.start)
      BY <2>2, <2>4 DEF Least
    <3>. QED
      BY <2>1, <3>1
  <2>. QED
    BY <2>3, <2>4
<1>. QED
  BY <1>1, <1>8, <1>9

\* Where a request for newer records begins: with the view's last record.
Again(v) == IF v.start + 1 >= v.end THEN v.start ELSE v.end - 1

\* Newer records are joined to the view: they begin with the one that may have
\* been partial, which is replaced.
LEMMA NewerJoined ==
  ASSUME NEW v, NEW p, NEW q, IsStretch(v), IsStretch(p), q = Slide(v, p, "newer"),
         v.generation = p.generation, p.start = Again(v), p.end <= p.start + Shift + 1,
         Settled(v.records), Settled(p.records)
  PROVE  /\ Settled(q.records) /\ q.generation = p.generation /\ q.total = p.total
         /\ q.end = p.end /\ q.start <= v.end
<1>2. /\ v.start \in Nat /\ v.end \in Nat /\ v.records \in Seq(Entry)
      /\ Len(v.records) \in Nat /\ Len(v.records) = v.end - v.start
  BY DEF IsStretch, Consecutive, Page
<1>3. /\ p.start \in Nat /\ p.end \in Nat /\ p.records \in Seq(Entry)
      /\ Len(p.records) \in Nat /\ Len(p.records) = p.end - p.start
  BY DEF IsStretch, Consecutive, Page
<1>. DEFINE n == p.start - v.start
            head == FirstOf(v.records, n)
            joined == head \o p.records
<1>4. /\ v.start <= p.start /\ p.start <= v.end /\ n \in Nat /\ n <= Len(v.records)
      /\ n = 0 \/ n <= Len(v.records) - 1
  BY <1>2, <1>3 DEF Again
<1>1. /\ q.generation = p.generation /\ q.total = p.total
      /\ q.records = LastOf(joined, Records)
      /\ q.start = p.end - Len(q.records)
      /\ q.end = p.end - Len(q.records) + Len(q.records)
  BY <1>4, SlideNewer
<1>. HIDE DEF n
<1>5. /\ head \in Seq(Entry) /\ Len(head) = n
      /\ \A i \in 1..n : head[i] = v.records[i]
  <2>1. /\ head \in Seq(Entry) /\ Len(head) = Least(n, Len(v.records))
        /\ \A i \in 1..Len(head) : head[i] = v.records[i]
    BY <1>2, <1>4, EndsLength, Zenon
  <2>. HIDE DEF head
  <2>2. Least(n, Len(v.records)) = n
    BY <1>2, <1>4 DEF Least
  <2>. QED
    BY <2>1, <2>2
<1>6. Settled(head) /\ \A i \in 1..Len(head) : head[i].whole
  <2>1. \A i \in 1..n : i \in 1..(Len(v.records) - 1)
    BY <1>2, <1>4
  <2>2. \A i \in 1..n : head[i].whole
    BY <1>5, <2>1 DEF Settled
  <2>. HIDE DEF head
  <2>. QED
    BY <1>2, <1>4, <1>5, <2>2 DEF Settled
<1>. HIDE DEF head
<1>7. joined \in Seq(Entry) /\ Len(joined) = n + Len(p.records) /\ Settled(joined)
  <2>1. joined \in Seq(Entry) /\ Len(joined) = n + Len(p.records)
    BY <1>3, <1>5, JoinedLength, Zenon
  <2>2. Settled(joined)
    BY <1>3, <1>5, <1>6, SettledJoined, Zenon
  <2>. QED
    BY <2>1, <2>2
<1>. HIDE DEF joined
<1>8. Records \in Nat /\ Shift < Records /\ Shift \in Nat
  BY WindowAssumption
<1>9. Settled(q.records) /\ Len(q.records) = Least(Records, n + Len(p.records))
  <2>1. Settled(LastOf(joined, Records))
    BY <1>7, <1>8, SettledEnds, Zenon
  <2>2. Len(LastOf(joined, Records)) = Least(Records, Len(joined))
    BY <1>7, <1>8, EndsLength, Zenon
  <2>. QED
    BY <1>1, <1>7, <2>1, <2>2
<1>10. q.end = p.end /\ q.start <= v.end
  <2>1. n = p.start - v.start
    BY DEF n
  <2>2. CASE Records < n + Len(p.records)
    <3>1. Len(q.records) = Records
      BY <1>9, <2>2 DEF Least
    <3>. QED
      BY <1>1, <1>2, <1>3, <1>4, <1>8, <3>1
  <2>3. CASE ~(Records < n + Len(p.records))
    <3>1. Len(q.records) = n + Len(p.records)
      BY <1>9, <2>3 DEF Least
    <3>2. Len(q.records) = p.end - v.start
      BY <1>2, <1>3, <2>1, <3>1
    <3>. QED
      BY <1>1, <1>2, <1>3, <3>2
  <2>. QED
    BY <2>2, <2>3
<1>. QED
  BY <1>1, <1>9, <1>10

-----------------------------------------------------------------------------
(* The second invariant: pages tell the truth about the log of their       *)
(* generation, a request for more is about the view there is, and its      *)
(* answer continues that view.                                             *)

\* A page p when the log has n records under generation g.
OfLog(p, g, n) ==
  /\ Settled(p.records)
  /\ p.end <= p.total /\ p.total <= MaxTotal
  /\ p.generation <= g
  /\ p.generation = g => p.total <= n

\* A request r while the view is v.
ForView(r, v, g) ==
  /\ r.generation = None /\ v # None =>
       /\ v.generation < g
       /\ r.page # None => v.generation < r.page.generation
  /\ r.generation # None =>
       /\ v # None /\ r.generation = v.generation
       /\ r.page # None => r.page.generation = r.generation
       /\ r.asked = "older" => r.action = "older" /\ r.current = v.start /\ r.count = Records
       /\ r.asked = "newer" =>
            r.action = "current" /\ r.current = Again(v) /\ r.count = Shift + 1

\* The window a page was made from.
Made(r, p, fit) ==
  LET w == Window(r.action, r.current, r.count, Shift, p.total, fit) IN
  p.start = w.start /\ p.end = w.end

Answered(r, v) ==
  r.page # None /\ r.generation # None /\ r.page.generation = v.generation =>
    /\ v.end <= r.page.total
    /\ \E fit \in Fit..(Fit + Records) : Made(r, r.page, fit)
    /\ \A i \in 1..Len(r.page.records) :
         r.page.records[i].n < v.end - 1 => r.page.records[i].whole

Bounded(r, g, n) == r.current <= MaxTotal /\ (r.page # None => OfLog(r.page, g, n))

\* What r, in flight while the view is v and the log has n records under
\* generation g, brings.
Fits(r, v, g, n) ==
  /\ Bounded(r, g, n)
  /\ ~r.void => ForView(r, v, g) /\ Answered(r, v)

PagesInv ==
  /\ log.complete + held.complete <= MaxRecords
  /\ view # None => OfLog(view, generation, Total(log))
  /\ busy # None => Fits(busy, view, generation, Total(log))

LEMMA MaxTotalIsNat == /\ MaxTotal \in Nat /\ MaxRecords \in Nat
                        /\ MaxTotal = MaxRecords + 1
BY BoundAssumption DEF MaxTotal

LEMMA TotalInBounds ==
  ASSUME Inv, PagesInv
  PROVE  Total(log) \in Nat /\ Total(log) <= MaxTotal
BY TotalIsNat, MaxTotalIsNat DEF Inv, PagesInv, Text

\* Time passes: the log grows, or starts over under a new generation.
LEMMA OfLogLater ==
  ASSUME NEW p \in Page, NEW g \in Nat, NEW n \in Nat, OfLog(p, g, n),
         NEW h \in Nat, NEW m \in Nat, g <= h, g = h => n <= m
  PROVE  OfLog(p, h, m)
BY MaxTotalIsNat DEF OfLog, Page

LEMMA PagesLater ==
  ASSUME Inv, PagesInv, Inv', UNCHANGED <<view, busy>>,
         generation <= generation', generation = generation' => Total(log) <= Total(log'),
         log'.complete + held'.complete <= MaxRecords
  PROVE  PagesInv'
<1>1. /\ generation \in Nat /\ generation' \in Nat
      /\ Total(log) \in Nat /\ Total(log') \in Nat
  BY TotalIsNat DEF Inv
<1>2. ASSUME NEW p \in Page, OfLog(p, generation, Total(log))
      PROVE  OfLog(p, generation', Total(log'))
  BY <1>1, <1>2, OfLogLater
<1>3. view # None => view \in Page /\ OfLog(view, generation', Total(log'))
  BY <1>2 DEF Inv, PagesInv, IsStretch
<1>4. busy # None => Bounded(busy, generation', Total(log'))
  <2>1. busy # None /\ busy.page # None => busy.page \in Page
    BY DEF Inv, Answerable, IsStretch
  <2>. QED
    BY <1>2, <2>1 DEF PagesInv, Fits, Bounded
<1>5. busy # None /\ ~busy.void => ForView(busy, view, generation') /\ Answered(busy, view)
  <2>1. ASSUME NEW k \in Nat, k < generation
        PROVE  k < generation'
    BY <1>1, <2>1
  <2>2. view # None => view.generation \in Nat
    BY <1>3 DEF Page
  <2>. QED
    BY <2>1, <2>2 DEF PagesInv, Fits, ForView
<1>. QED
  BY <1>3, <1>4, <1>5 DEF PagesInv, Fits

\* A request that has just been made is about the view.
LEMMA RequestForView ==
  ASSUME NEW action \in Actions, NEW v, NEW g \in Nat, NEW n \in Nat,
         v # None => IsStretch(v) /\ OfLog(v, g, n),
         NEW r, r = Request(action, action, v)
  PROVE  Fits(r, v, g, n)
<1>1. v # None => /\ v.start \in Nat /\ v.end \in Nat /\ v.generation \in Nat
                  /\ v.start <= v.end /\ v.end <= MaxTotal
  <2>1. v # None => /\ v.start \in Nat /\ v.end \in Nat /\ v.generation \in Nat
                    /\ v.total \in Nat /\ Len(v.records) \in Nat
                    /\ Len(v.records) = v.end - v.start
                    /\ v.end <= v.total /\ v.total <= MaxTotal
    BY DEF IsStretch, Consecutive, Page, OfLog
  <2>. QED
    BY <2>1, MaxTotalIsNat
<1>2. r.page = None /\ r.asked = action
  BY DEF Request
<1>3. r.current <= MaxTotal
  <2>1. CASE v = None
    BY <2>1, MaxTotalIsNat DEF Request
  <2>2. CASE v # None
    <3>1. r.current \in {v.start, v.end - 1, v.start}
          /\ (r.current = v.end - 1 => v.end - 1 <= v.end)
      BY <1>1, <2>2 DEF Request
    <3>. QED
      BY <1>1, <2>2, <3>1, MaxTotalIsNat
  <2>. QED
    BY <2>1, <2>2
<1>4. ForView(r, v, g)
  <2>1. CASE v = None
    BY <2>1 DEF ForView, Request
  <2>2. CASE v # None
    <3>1. r.generation = v.generation /\ r.generation # None
      BY <1>1, <2>2, NoneAssumption DEF Request
    <3>2. action = "older" => r.action = "older" /\ r.current = v.start /\ r.count = Records
      BY <2>2 DEF Request
    <3>3. action = "newer" =>
            r.action = "current" /\ r.current = Again(v) /\ r.count = Shift + 1
      BY <2>2 DEF Request, Again
    <3>. QED
      BY <1>2, <2>2, <3>1, <3>2, <3>3 DEF ForView
  <2>. QED
    BY <2>1, <2>2
<1>. QED
  BY <1>2, <1>3, <1>4 DEF Fits, Bounded, Answered

\* The page the host answers with is one of the log, and continues the view if
\* it is of the view's generation.
LEMMA ServedOfLog ==
  ASSUME Inv, NEW w, w.start \in Nat, w.end \in Nat, w.end <= Total(log),
         Total(log) <= MaxTotal,
         NEW page,
         page = [generation |-> generation, start |-> w.start, end |-> w.end,
                 total |-> Total(log),
                 records |-> [i \in 1..(w.end - w.start) |-> Record(w.start + i - 1)]],
         w.end - w.start \in Nat
  PROVE  /\ OfLog(page, generation, Total(log))
         /\ \A i \in 1..Len(page.records) :
              /\ page.records[i].n \in Nat
              /\ page.records[i].n < Total(log) - 1 => page.records[i].whole
<1>. DEFINE m == w.end - w.start
            records == [i \in 1..m |-> Record(w.start + i - 1)]
<1>1. /\ Total(log) \in Nat /\ log.complete \in Nat /\ generation \in Nat
      /\ Total(log) <= log.complete + 1 /\ Total(log) <= MaxTotal
  BY TotalIsNat DEF Inv
<1>2. /\ page.generation = generation /\ page.end = w.end /\ page.total = Total(log)
      /\ page.records = records
  OBVIOUS
<1>. HIDE DEF m
<1>3. Len(records) = m /\ \A i \in 1..m : records[i] = Record(w.start + i - 1)
  BY DEF m
<1>. HIDE DEF records
<1>4. ASSUME NEW i \in 1..m
      PROVE  /\ records[i].n = w.start + i - 1 /\ records[i].n \in Nat
             /\ records[i].n < Total(log) - 1 => records[i].whole
  <2>1. /\ records[i].n = w.start + i - 1
        /\ records[i].whole = (w.start + i - 1 < log.complete)
    BY <1>3, <1>4 DEF Record
  <2>2. m \in Nat
    BY DEF m
  <2>3. w.start + i - 1 \in Nat
    BY <1>4, <2>2
  <2>4. w.start + i - 1 < Total(log) - 1 => w.start + i - 1 < log.complete
    BY <1>1, <2>3
  <2>. QED
    BY <2>1, <2>3, <2>4
<1>5. ASSUME NEW i \in 1..(m - 1)
      PROVE  records[i].whole
  <2>1. m \in Nat /\ w.start + m = w.end
    BY DEF m
  <2>2. i \in 1..m
    BY <1>5, <2>1
  <2>3. w.start + i - 1 < Total(log) - 1
    BY <1>1, <1>5, <2>1
  <2>. QED
    BY <1>4, <2>2, <2>3
<1>6. Settled(records)
  BY <1>3, <1>5 DEF Settled
<1>7. OfLog(page, generation, Total(log))
  <2>1. /\ page.end <= page.total /\ page.total <= MaxTotal
        /\ page.generation <= generation /\ page.total <= Total(log)
    BY <1>1, <1>2
  <2>. QED
    BY <1>2, <1>6, <2>1 DEF OfLog
<1>. QED
  BY <1>2, <1>3, <1>4, <1>7

LEMMA ServePages == ASSUME Inv, Inv', PagesInv, Serve PROVE PagesInv'
<1>1. /\ busy # None /\ busy.page = None /\ Answerable(busy) /\ busy \in Asked
      /\ Bounded(busy, generation, Total(log))
      /\ ~busy.void => ForView(busy, view, generation)
  BY DEF Serve, Inv, PagesInv, Fits, Answerable
<1>2. UNCHANGED <<held, log, generation, view>>
  BY DEF Serve, hostVars
<1>3. Total(log) \in Nat /\ generation \in Nat /\ Total(log) <= MaxTotal
  BY TotalInBounds DEF Inv
<1>4. view # None => /\ view.generation \in Nat /\ view.end \in Nat /\ view.total \in Nat
                     /\ OfLog(view, generation, Total(log))
  BY DEF Inv, PagesInv, IsStretch, Page
<1>5. CASE busy.generation \notin {None, generation}
  <2>1. PICK r : r = Request("tail", busy.asked, None)
    OBVIOUS
  <2>2. /\ r.current = 0 /\ r.page = None /\ r.generation = None
        /\ r = [asked |-> r.asked, action |-> r.action, current |-> r.current,
                count |-> r.count, generation |-> r.generation, page |-> r.page,
                void |-> r.void]
    BY <2>1 DEF Request
  <2>3. busy' = [r EXCEPT !.void = busy.void]
    BY <1>5, <2>1 DEF Serve
  <2>4. /\ busy'.current = 0 /\ busy'.page = None /\ busy'.generation = None
        /\ busy'.void = busy.void
    BY <2>2, <2>3
  <2>5. ~busy.void /\ view # None => view.generation < generation
    BY <1>1, <1>3, <1>4, <1>5 DEF ForView, OfLog
  <2>6. Bounded(busy', generation, Total(log)) /\ Answered(busy', view)
    BY <2>4, MaxTotalIsNat DEF Bounded, Answered
  <2>7. ~busy.void => ForView(busy', view, generation)
    BY <2>4, <2>5 DEF ForView
  <2>. QED
    BY <1>2, <2>4, <2>6, <2>7 DEF PagesInv, Fits
<1>6. CASE ~(busy.generation \notin {None, generation})
  <2>1. PICK fit \in Fit..(Fit + Records) :
          LET w == Window(busy.action, busy.current, busy.count, Shift, Total(log), fit) IN
          busy' = [busy EXCEPT !.page =
            [generation |-> generation, start |-> w.start, end |-> w.end,
             total |-> Total(log),
             records |-> [i \in 1..(w.end - w.start) |-> Record(w.start + i - 1)]]]
    BY <1>6 DEF Serve
  <2>. DEFINE w == Window(busy.action, busy.current, busy.count, Shift, Total(log), fit)
              page == [generation |-> generation, start |-> w.start, end |-> w.end,
                total |-> Total(log),
                records |-> [i \in 1..(w.end - w.start) |-> Record(w.start + i - 1)]]
  <2>2. /\ w.start \in Nat /\ w.end \in Nat /\ w.end <= Total(log)
        /\ w.end - w.start \in Nat
    <3>1. /\ busy.action \in WindowAction /\ busy.current \in Nat
          /\ busy.count \in Nat /\ Shift \in Nat /\ fit \in Nat
      BY <1>1, <2>1, WindowAssumption DEF Asked
    <3>2. /\ w.start \in Nat /\ w.end \in Nat
          /\ w.start <= w.end /\ w.end <= Total(log)
      BY <1>3, <3>1, WindowInLog, Zenon
    <3>. HIDE DEF w
    <3>. QED
      BY <3>2
  <2>. HIDE DEF w
  <2>3. /\ OfLog(page, generation, Total(log))
        /\ \A i \in 1..Len(page.records) :
             /\ page.records[i].n \in Nat
             /\ page.records[i].n < Total(log) - 1 => page.records[i].whole
    BY <1>3, <2>2, ServedOfLog, Zenon
  <2>4. /\ page.generation = generation /\ page.start = w.start /\ page.end = w.end
        /\ page.total = Total(log)
    OBVIOUS
  <2>5. busy' = [busy EXCEPT !.page = page]
    BY <2>1 DEF w
  <2>. HIDE DEF page
  <2>6. /\ busy'.page = page /\ busy'.generation = busy.generation
        /\ busy'.action = busy.action /\ busy'.asked = busy.asked
        /\ busy'.current = busy.current /\ busy'.count = busy.count
        /\ busy'.void = busy.void
    BY <1>1, <2>5 DEF Asked
  <2>7. Bounded(busy', generation, Total(log))
    BY <1>1, <2>3, <2>6 DEF Bounded
  <2>8. ~busy.void => ForView(busy', view, generation)
    <3>1. busy.generation # None => page.generation = busy.generation
      BY <1>6, <2>4
    <3>. QED
      BY <1>1, <2>4, <2>6, <3>1 DEF ForView
  <2>9. ~busy.void => Answered(busy', view)
    <3>1. SUFFICES ASSUME ~busy.void, busy.generation # None, view.generation = generation
                   PROVE  /\ view.end <= Total(log)
                          /\ \E f \in Fit..(Fit + Records) : Made(busy', page, f)
                          /\ \A i \in 1..Len(page.records) :
                               page.records[i].n < view.end - 1 => page.records[i].whole
      BY <2>4, <2>6 DEF Answered
    <3>2. view # None
      BY <1>1, <3>1 DEF ForView
    <3>3. view.end <= Total(log)
      BY <1>3, <1>4, <3>1, <3>2 DEF OfLog
    <3>4. Made(busy', page, fit)
      BY <2>4, <2>6 DEF Made, w
    <3>5. ASSUME NEW i \in 1..Len(page.records), page.records[i].n < view.end - 1
          PROVE  page.records[i].whole
      BY <1>3, <1>4, <2>3, <3>2, <3>3, <3>5
    <3>. QED
      BY <2>1, <3>3, <3>4, <3>5
  <2>. QED
    BY <1>2, <2>6, <2>7, <2>8, <2>9 DEF PagesInv, Fits
<1>. QED
  BY <1>5, <1>6

\* What the reader sees after a page of older or newer records, when they
\* asked for `asked' while the view was v.
Moved(v, q, asked) ==
  /\ asked = "older" => q.end >= v.start /\ (q.start < v.start \/ q.start = 0)
  /\ asked = "newer" => q.start <= v.end /\ (q.end > v.end \/ q.end = q.total)

LEMMA SlideSound ==
  ASSUME NEW g \in Nat, NEW n \in Nat, NEW v, NEW r, IsStretch(v), IsStretch(r.page),
         OfLog(v, g, n), OfLog(r.page, g, n), r.asked \in Actions,
         r.page # None, r.generation # None, ForView(r, v, g), Answered(r, v),
         NEW q, q = Slide(v, r.page, r.asked)
  PROVE  OfLog(q, g, n) /\ (v.generation = r.page.generation => Moved(v, q, r.asked))
<1>. DEFINE p == r.page
<1>1. /\ v.start \in Nat /\ v.end \in Nat /\ v.total \in Nat /\ Len(v.records) \in Nat
      /\ Len(v.records) = v.end - v.start
  BY DEF IsStretch, Consecutive, Page
<1>2. /\ p.start \in Nat /\ p.end \in Nat /\ p.total \in Nat /\ Len(p.records) \in Nat
      /\ Len(p.records) = p.end - p.start /\ p.generation \in Nat
  BY DEF IsStretch, Consecutive, Page
<1>3. /\ Settled(v.records) /\ Settled(p.records) /\ p.end <= p.total
      /\ OfLog(p, g, n) /\ IsStretch(p) /\ q = Slide(v, p, r.asked)
  BY DEF OfLog
<1>6. v.start <= v.end
  BY <1>1
<1>. HIDE DEF p
<1>4. CASE v.generation # p.generation
  <2>1. q = p
    BY <1>3, <1>4, SlideApart
  <2>. QED
    BY <1>3, <1>4, <2>1 DEF p
<1>5. CASE v.generation = p.generation
  <2>1. PICK fit \in Fit..(Fit + Records) : Made(r, p, fit)
    BY <1>5 DEF Answered, p
  <2>2. /\ v.end <= p.total /\ fit \in Nat /\ 2 <= fit /\ Shift \in Nat
        /\ \A i \in 1..Len(p.records) :
             p.records[i].n < v.end - 1 => p.records[i].whole
    BY <1>5, <2>1, WindowAssumption DEF Answered, p
  <2>3. ASSUME q.generation = p.generation, q.total = p.total, Settled(q.records),
               q.end <= p.total
        PROVE  OfLog(q, g, n)
    BY <1>3, <2>3 DEF OfLog
  <2>4. CASE r.asked = "older"
    <3>. DEFINE w == Window("older", v.start, Records, Shift, p.total, fit)
    <3>1. p.start = w.start /\ p.end = w.end
      BY <2>1, <2>4 DEF ForView, Made
    <3>2. /\ v.start \in Nat /\ p.total \in Nat /\ v.start <= p.total
          /\ fit \in Nat /\ 2 <= fit
      BY <1>1, <1>2, <1>6, <2>2
    <3>3. /\ w.end = v.start /\ w.end - w.start <= Shift
          /\ w.start < v.start \/ w.start = 0
      <4>1. w = Window("older", v.start, Records, Shift, p.total, fit)
        OBVIOUS
      <4>. HIDE DEF w
      <4>. QED
        BY <3>2, <4>1, WindowOlder
    <3>. HIDE DEF w
    <3>4. ASSUME v.start < v.end, NEW i \in 1..Len(p.records)
          PROVE  p.records[i].whole
      <4>1. p.records[i].n = p.start + i - 1
        BY <1>3, <3>4 DEF IsStretch, Consecutive, Stretch
      <4>2. /\ p.start \in Nat /\ p.end \in Nat /\ i \in Nat /\ i <= p.end - p.start
            /\ p.end = v.start
        BY <1>2, <3>1, <3>3, <3>4
      <4>3. v.start \in Nat /\ v.end \in Nat /\ v.start < v.end
        BY <1>1, <3>4
      <4>4. p.start + i - 1 < v.end - 1
        BY <4>2, <4>3
      <4>. QED
        BY <2>2, <3>4, <4>1, <4>4
    <3>5. /\ Settled(q.records) /\ q.generation = p.generation /\ q.total = p.total
          /\ q.start = p.start /\ v.start <= q.end /\ q.end <= v.end
      <4>1. v.generation = p.generation /\ p.end = v.start /\ p.end - p.start <= Shift
            /\ q = Slide(v, p, "older")
        BY <1>3, <1>5, <2>4, <3>1, <3>3
      <4>. QED
        BY <1>3, <3>4, <4>1, OlderJoined, Zenon
    <3>6. q.end \in Nat
      <4>1. IsStretch(q)
        BY <1>3, SlideStretch
      <4>. QED
        BY <4>1 DEF IsStretch, Page
    <3>7. q.end <= p.total
      BY <1>1, <1>2, <2>2, <3>5, <3>6, SMT
    <3>. QED
      BY <1>1, <2>3, <2>4, <3>1, <3>3, <3>5, <3>6, <3>7 DEF Moved
  <2>5. CASE r.asked = "newer"
    <3>. DEFINE w == Window("current", Again(v), Shift + 1, Shift, p.total, fit)
    <3>1. p.start = w.start /\ p.end = w.end
      BY <2>1, <2>5 DEF ForView, Made
    <3>2. /\ Again(v) \in Nat /\ v.end < Again(v) + 2
          /\ Again(v) <= p.total /\ p.total \in Nat /\ fit \in Nat /\ 2 <= fit
      <4>1. /\ v.start \in Nat /\ v.end \in Nat /\ v.start <= v.end
            /\ p.total \in Nat /\ v.end <= p.total /\ fit \in Nat /\ 2 <= fit
        BY <1>1, <1>2, <1>6, <2>2
      <4>2. CASE v.start + 1 >= v.end
        BY <4>1, <4>2 DEF Again
      <4>3. CASE ~(v.start + 1 >= v.end)
        BY <4>1, <4>3 DEF Again
      <4>. QED
        BY <4>2, <4>3
    <3>3. /\ w.start = Again(v) /\ w.end <= Again(v) + Shift + 1
          /\ w.end >= Again(v) + 2 \/ w.end = p.total
      <4>1. w = Window("current", Again(v), Shift + 1, Shift, p.total, fit)
        OBVIOUS
      <4>. HIDE DEF w
      <4>. QED
        BY <3>2, <4>1, WindowNewer
    <3>. HIDE DEF w
    <3>5. /\ Settled(q.records) /\ q.generation = p.generation /\ q.total = p.total
          /\ q.end = p.end /\ q.start <= v.end
      <4>1. /\ v.generation = p.generation /\ p.start = Again(v)
            /\ p.end <= p.start + Shift + 1 /\ q = Slide(v, p, "newer")
        BY <1>3, <1>5, <2>5, <3>1, <3>3
      <4>. QED
        BY <1>3, <4>1, NewerJoined, Zenon
    <3>6. q.end > v.end \/ q.end = q.total
      BY <1>1, <1>2, <3>1, <3>2, <3>3, <3>5
    <3>. QED
      BY <1>3, <2>3, <2>5, <3>5, <3>6 DEF Moved
  <2>6. CASE r.asked = "tail"
    <3>1. q = p
      BY <1>3, <2>6, SlideApart
    <3>. QED
      BY <1>3, <2>6, <3>1 DEF Moved
  <2>. QED
    BY <2>4, <2>5, <2>6 DEF Actions
<1>. QED
  BY <1>4, <1>5

\* The view after an answer: a page of the log; and one that continues the
\* view before has moved.
LEMMA ReceiveView ==
  ASSUME Inv, PagesInv, Receive
  PROVE  /\ view' # None => OfLog(view', generation, Total(log))
         /\ Paged => Moved(view, view', busy.asked)
<1>1. /\ busy # None /\ busy.page # None /\ Answerable(busy) /\ busy \in Asked
      /\ IsStretch(busy.page) /\ OfLog(busy.page, generation, Total(log))
      /\ ~busy.void => ForView(busy, view, generation) /\ Answered(busy, view)
  BY DEF Receive, Inv, PagesInv, Answerable, Fits, Bounded
<1>2. generation \in Nat /\ Total(log) \in Nat /\ busy.asked \in Actions
  BY <1>1, TotalIsNat DEF Inv, Asked
<1>3. view # None => IsStretch(view) /\ OfLog(view, generation, Total(log))
  BY DEF Inv, PagesInv
<1>4. CASE Dropped
  BY <1>3, <1>4 DEF Receive, Paged
<1>5. CASE ~Dropped /\ busy.generation = None
  BY <1>1, <1>5 DEF Receive, Paged
<1>6. CASE ~Dropped /\ busy.generation # None
  <2>1. ForView(busy, view, generation) /\ Answered(busy, view)
    BY <1>1, <1>6 DEF Dropped
  <2>2. view # None /\ view.generation = busy.page.generation
    BY <1>1, <1>6, <2>1 DEF ForView
  <2>3. view' = Slide(view, busy.page, busy.asked)
    BY <1>6 DEF Receive
  <2>. QED
    BY <1>1, <1>2, <1>3, <1>6, <2>1, <2>2, <2>3, SlideSound
<1>. QED
  BY <1>4, <1>5, <1>6

\* What is asked for next is about the view there is then.
LEMMA GoOnPages ==
  ASSUME Inv, PagesInv, GoOn,
         view' # None => IsStretch(view') /\ OfLog(view', generation, Total(log))
  PROVE  busy' # None => Fits(busy', view', generation, Total(log))
<1>1. generation \in Nat /\ Total(log) \in Nat
  BY TotalIsNat DEF Inv
<1>2. SUFFICES ASSUME busy' # None
               PROVE  Fits(busy', view', generation, Total(log))
  OBVIOUS
<1>3. busy' = Request(pending, pending, view') /\ pending \in Actions
  BY <1>2 DEF GoOn, Inv
<1>. QED
  BY <1>1, <1>3, RequestForView

LEMMA ReceivePages == ASSUME Inv, Inv', PagesInv, Receive PROVE PagesInv'
<1>1. UNCHANGED <<held, log, generation>>
  BY DEF Receive, hostVars
<1>2. view' # None => IsStretch(view') /\ OfLog(view', generation, Total(log))
  BY ReceiveView DEF Inv
<1>3. busy' # None => Fits(busy', view', generation, Total(log))
  BY <1>2, GoOnPages DEF Receive
<1>. QED
  BY <1>1, <1>2, <1>3 DEF PagesInv

LEMMA RefusedPages == ASSUME Inv, PagesInv, Refused PROVE PagesInv'
<1>1. UNCHANGED <<held, log, generation, view>>
  BY DEF Refused, hostVars
<1>2. view' # None => IsStretch(view') /\ OfLog(view', generation, Total(log))
  BY <1>1 DEF Inv, PagesInv
<1>3. busy' # None => Fits(busy', view', generation, Total(log))
  BY <1>2, GoOnPages DEF Refused
<1>. QED
  BY <1>1, <1>2, <1>3 DEF PagesInv

LEMMA AskPages ==
  ASSUME Inv, PagesInv, NEW action \in Actions, Ask(action, view)
  PROVE  busy' # None => Fits(busy', view, generation, Total(log))
<1>1. CASE busy = None
  <2>1. busy' = Request(action, action, view)
    BY <1>1 DEF Ask
  <2>2. /\ view # None => IsStretch(view) /\ OfLog(view, generation, Total(log))
        /\ generation \in Nat /\ Total(log) \in Nat
    BY TotalIsNat DEF Inv, PagesInv
  <2>. QED
    BY <2>1, <2>2, RequestForView
<1>2. CASE busy # None
  BY <1>2 DEF Ask, PagesInv
<1>. QED
  BY <1>1, <1>2

LEMMA ChangedPages ==
  ASSUME Inv, PagesInv, NEW now, Changed(now)
  PROVE  busy' # None => Fits(busy', view, generation, Total(log))
<1>1. CASE following /\ ~now
  BY <1>1, AskPages DEF Changed, Actions
<1>2. CASE ~(following /\ ~now)
  BY <1>2 DEF Changed, PagesInv
<1>. QED
  BY <1>1, <1>2

\* What is in flight is void, and there is no view.
LEMMA VoidedPages ==
  ASSUME Inv, PagesInv, busy' = Voided
  PROVE  busy' # None => Fits(busy', None, generation, Total(log))
<1>1. SUFFICES ASSUME busy # None
               PROVE  Fits(busy', None, generation, Total(log))
  BY DEF Voided
<1>2. busy' = [busy EXCEPT !.void = TRUE] /\ busy \in Asked
  BY <1>1 DEF Voided, Inv, Answerable
<1>3. busy'.void /\ busy'.current = busy.current /\ busy'.page = busy.page
  BY <1>2 DEF Asked
<1>4. Bounded(busy, generation, Total(log))
  BY <1>1 DEF PagesInv, Fits
<1>. QED
  BY <1>3, <1>4 DEF Fits, Bounded

LEMMA InitPages == Init => PagesInv
BY MaxTotalIsNat DEF Init, PagesInv, Empty

LEMMA StepPages == ASSUME Inv, Inv', PagesInv, [Next]_vars PROVE PagesInv'
<1>. USE DEF hostVars, pageVars
<1>0. /\ log \in Text /\ held \in Text /\ Total(log) \in Nat /\ generation \in Nat
      /\ log.complete + held.complete <= MaxRecords
  BY TotalIsNat DEF Inv, PagesInv
<1>1. CASE \E ends \in BOOLEAN : Publish(ends)
  <2>1. PICK ends \in BOOLEAN : Publish(ends)
    BY <1>1
  <2>2. UNCHANGED <<log, generation, view, busy>>
    BY <2>1 DEF Publish
  <2>3. /\ log.complete + held.complete < MaxRecords
        /\ held'.complete = held.complete + (IF ends THEN 1 ELSE 0)
    BY <2>1 DEF Publish
  <2>4. log'.complete + held'.complete <= MaxRecords
    BY <1>0, <2>2, <2>3, MaxTotalIsNat DEF Text
  <2>. QED
    BY <1>0, <2>2, <2>4, PagesLater
<1>2. CASE Flush
  <2>1. /\ UNCHANGED <<generation, view, busy>>
        /\ log'.complete = log.complete + held.complete /\ held'.complete = 0
    BY <1>2 DEF Flush, Empty
  <2>2. Total(log) <= Total(log')
    BY <1>2, TotalGrows
  <2>3. log'.complete + held'.complete <= MaxRecords
    BY <1>0, <2>1, MaxTotalIsNat DEF Text
  <2>. QED
    BY <1>0, <2>1, <2>2, <2>3, PagesLater
<1>3. CASE Truncate
  <2>1. /\ UNCHANGED <<held, view, busy>> /\ log'.complete = 0
        /\ generation' = generation + 1
    BY <1>3 DEF Truncate, Empty
  <2>2. log'.complete + held'.complete <= MaxRecords
    BY <1>0, <2>1, MaxTotalIsNat DEF Text
  <2>3. generation <= generation' /\ generation # generation'
    BY <1>0, <2>1
  <2>. QED
    BY <2>1, <2>2, <2>3, PagesLater
<1>4. CASE Serve
  BY <1>4, ServePages
<1>5. CASE Receive
  BY <1>5, ReceivePages
<1>6. CASE Refused
  BY <1>6, RefusedPages
<1>7. CASE Chunk
  <2>1. UNCHANGED <<held, log, generation, view>>
    BY <1>7 DEF Chunk
  <2>2. busy' = busy \/ Changed(paused)
    BY <1>7 DEF Chunk
  <2>3. busy' # None => Fits(busy', view, generation, Total(log))
    BY <2>2, ChangedPages DEF PagesInv
  <2>. QED
    BY <2>1, <2>3 DEF PagesInv
<1>8. CASE Open \/ Close
  <2>1. UNCHANGED <<held, log, generation>> /\ view' = None /\ busy' = Voided
    BY <1>8 DEF Open, Close, Act
  <2>. QED
    BY <2>1, VoidedPages DEF PagesInv
<1>9. CASE Opened
  <2>1. UNCHANGED <<held, log, generation, view>> /\ Ask("tail", view)
    BY <1>9 DEF Opened
  <2>2. busy' # None => Fits(busy', view, generation, Total(log))
    BY <2>1, AskPages DEF Actions
  <2>. QED
    BY <2>1, <2>2 DEF PagesInv
<1>10. CASE OpenFails
  BY <1>10 DEF OpenFails, PagesInv
<1>11. CASE ResetAnnounced
  <2>1. UNCHANGED <<held, log, generation>> /\ view' = None
    BY <1>11 DEF ResetAnnounced, Act
  <2>2. busy' # None => Fits(busy', None, generation, Total(log))
    <3>1. CASE busy = None
      <4>1. busy' = Request("tail", "tail", None)
        BY <1>11, <3>1 DEF ResetAnnounced
      <4>. QED
        BY <1>0, <4>1, RequestForView DEF Actions
    <3>2. CASE busy # None
      BY <1>11, <3>2, VoidedPages DEF ResetAnnounced
    <3>. QED
      BY <3>1, <3>2
  <2>. QED
    BY <2>1, <2>2 DEF PagesInv
<1>12. CASE Pause
  <2>1. UNCHANGED <<held, log, generation, view>> /\ Changed(paused')
    BY <1>12 DEF Pause, Act
  <2>2. busy' # None => Fits(busy', view, generation, Total(log))
    BY <2>1, ChangedPages
  <2>. QED
    BY <2>1, <2>2 DEF PagesInv
<1>13. CASE \E action \in {"tail", "older", "newer"} : Navigate(action)
  <2>1. PICK action \in Actions : Navigate(action)
    BY <1>13 DEF Actions
  <2>2. UNCHANGED <<held, log, generation, view>> /\ Ask(action, view)
    BY <2>1 DEF Navigate, Act
  <2>3. busy' # None => Fits(busy', view, generation, Total(log))
    BY <2>2, AskPages
  <2>. QED
    BY <2>2, <2>3 DEF PagesInv
<1>14. CASE ScrollAway
  <2>1. UNCHANGED <<held, log, generation, view, busy>>
    BY <1>14 DEF ScrollAway, Act
  <2>. QED
    BY <2>1 DEF PagesInv
<1>15. CASE UNCHANGED vars
  <2>1. UNCHANGED <<held, log, generation, view, busy>>
    BY <1>15 DEF vars
  <2>. QED
    BY <2>1 DEF PagesInv
<1>. QED
  BY <1>1, <1>2, <1>3, <1>4, <1>5, <1>6, <1>7, <1>8, <1>9, <1>10, <1>11, <1>12,
     <1>13, <1>14, <1>15 DEF Next

LEMMA PagesContinue == PagesInv => Continues
BY DEF PagesInv, Fits, ForView, Continues

LEMMA PagesSettled == ASSUME Inv, PagesInv PROVE NoStalePartial
BY DEF PagesInv, OfLog, Settled, NoStalePartial

-----------------------------------------------------------------------------
(* The bounds of the instance.                                             *)

BoundsInv ==
  /\ generation \in 0..MaxResets /\ news \in 0..MaxNews
  /\ acts \in 0..MaxActs /\ fails \in 0..MaxFails
  /\ following \in BOOLEAN /\ paused \in BOOLEAN /\ error \in BOOLEAN
  /\ drawer \in {"closed", "opening", "open", "failed"}
  /\ due \in 0..MaxTotal
  /\ drawer = "closed" =>
       view = None /\ pending = None /\ (busy # None => busy.void)

LEMMA ChangedBounds ==
  ASSUME Inv, PagesInv, BoundsInv, NEW now, Changed(now)
  PROVE  due' \in 0..MaxTotal
BY TotalInBounds, MaxTotalIsNat DEF Changed

LEMMA ServeBounds ==
  ASSUME Inv, BoundsInv, Serve, drawer = "closed"
  PROVE  busy' # None => busy'.void
<1>1. busy.void /\ busy \in Asked
  BY DEF Serve, BoundsInv, Inv, Answerable
<1>2. ASSUME NEW page, busy' = [busy EXCEPT !.page = page]
      PROVE  busy'.void
  BY <1>1, <1>2 DEF Asked
<1>3. ASSUME NEW r, r = Request("tail", busy.asked, None),
             busy' = [r EXCEPT !.void = busy.void]
      PROVE  busy'.void
  BY <1>1, <1>3 DEF Request
<1>. QED
  BY <1>2, <1>3, Zenon DEF Serve

LEMMA StepBounds == ASSUME Inv, PagesInv, BoundsInv, [Next]_vars PROVE BoundsInv'
<1>. USE DEF hostVars, pageVars, BoundsInv
<1>0. {MaxNews, MaxResets, MaxActs, MaxFails, MaxTotal} \subseteq Nat
  BY BoundAssumption, MaxTotalIsNat
<1>1. CASE \E ends \in BOOLEAN : Publish(ends)
  BY <1>0, <1>1 DEF Publish
<1>2. CASE Flush
  BY <1>2 DEF Flush
<1>3. CASE Truncate
  BY <1>0, <1>3 DEF Truncate
<1>4. CASE Serve
  <2>1. UNCHANGED <<hostVars, drawer, paused, error, view, following, pending, acts, fails, due>>
    BY <1>4 DEF Serve
  <2>2. drawer = "closed" => (busy' # None => busy'.void)
    BY <1>4, ServeBounds
  <2>. QED
    BY <2>1, <2>2
<1>5. CASE Receive
  <2>1. /\ UNCHANGED <<hostVars, drawer, paused, acts, fails, due>>
        /\ busy # None /\ GoOn
    BY <1>5 DEF Receive
  <2>2. following' \in BOOLEAN /\ error' \in BOOLEAN
    BY <1>5 DEF Receive
  <2>3. ASSUME drawer = "closed"
        PROVE  view' = None /\ pending' = None /\ busy' = None
    <3>1. Dropped
      BY <2>1, <2>3 DEF Dropped
    <3>2. view' = view
      BY <1>5, <3>1 DEF Receive
    <3>. QED
      BY <2>1, <2>3, <3>2 DEF GoOn
  <2>. QED
    BY <2>1, <2>2, <2>3
<1>6. CASE Refused
  <2>1. /\ UNCHANGED <<hostVars, drawer, paused, view, following, acts, due>>
        /\ fails < MaxFails /\ fails' = fails + 1 /\ GoOn
        /\ error' = (error \/ (~busy.void /\ pending = None))
    BY <1>6 DEF Refused
  <2>2. fails' \in 0..MaxFails
    BY <1>0, <2>1
  <2>3. error' \in BOOLEAN
    BY <2>1
  <2>4. drawer = "closed" => pending' = None /\ busy' = None
    BY <2>1 DEF GoOn
  <2>. QED
    BY <2>1, <2>2, <2>3, <2>4
<1>7. CASE Chunk
  <2>1. /\ UNCHANGED <<held, log, generation, drawer, paused, error, view, following, acts, fails>>
        /\ news > 0 /\ news' = news - 1
    BY <1>7 DEF Chunk
  <2>2. due' \in 0..MaxTotal
    BY <1>7, ChangedBounds DEF Chunk
  <2>3. drawer = "closed" => UNCHANGED <<pending, busy>>
    BY <1>7 DEF Chunk
  <2>4. news' \in 0..MaxNews
    BY <1>0, <2>1
  <2>. QED
    BY <2>1, <2>2, <2>3, <2>4
<1>8. CASE Open
  <2>1. /\ UNCHANGED <<hostVars, paused, fails>> /\ drawer' = "opening"
        /\ following' = TRUE /\ error' = FALSE /\ due' = 0
        /\ acts < MaxActs /\ acts' = acts + 1
    BY <1>8 DEF Open, Act
  <2>2. acts' \in 0..MaxActs /\ due' \in 0..MaxTotal
    BY <1>0, <2>1
  <2>. QED
    BY <2>1, <2>2
<1>9. CASE Close
  <2>1. /\ UNCHANGED <<hostVars, paused, error, following, fails>>
        /\ drawer' = "closed" /\ view' = None /\ pending' = None /\ due' = 0
        /\ acts < MaxActs /\ acts' = acts + 1
    BY <1>9 DEF Close, Act
  <2>2. busy' # None => busy'.void
    BY <1>9, VoidedInv DEF Close
  <2>. QED
    BY <1>0, <2>1, <2>2
<1>10. CASE Opened
  BY <1>10 DEF Opened
<1>11. CASE OpenFails
  BY <1>0, <1>11 DEF OpenFails
<1>12. CASE ResetAnnounced
  <2>1. /\ UNCHANGED <<hostVars, drawer, paused, fails>> /\ drawer = "open"
        /\ following' = TRUE /\ error' = FALSE /\ due' = 0
        /\ acts < MaxActs /\ acts' = acts + 1
    BY <1>12 DEF ResetAnnounced, Act
  <2>2. acts' \in 0..MaxActs /\ due' \in 0..MaxTotal
    BY <1>0, <2>1
  <2>. QED
    BY <2>1, <2>2
<1>13. CASE Pause
  <2>1. /\ UNCHANGED <<hostVars, drawer, error, view, following, fails>>
        /\ drawer # "closed" /\ paused' = ~paused /\ Changed(paused')
        /\ acts < MaxActs /\ acts' = acts + 1
    BY <1>13 DEF Pause, Act
  <2>2. due' \in 0..MaxTotal
    BY <2>1, ChangedBounds
  <2>3. paused' \in BOOLEAN
    BY <2>1
  <2>4. acts' \in 0..MaxActs
    BY <1>0, <2>1
  <2>. QED
    BY <2>1, <2>2, <2>3, <2>4
<1>14. CASE \E action \in {"tail", "older", "newer"} : Navigate(action)
  <2>1. PICK action \in Actions : Navigate(action)
    BY <1>14 DEF Actions
  <2>2. following' \in BOOLEAN
    BY <2>1, Zenon DEF Navigate
  <2>3. acts' \in 0..MaxActs /\ due' \in 0..MaxTotal
    BY <1>0, <2>1 DEF Navigate, Act
  <2>4. UNCHANGED <<hostVars, drawer, paused, error, view, fails>> /\ view # None
    BY <2>1 DEF Navigate, Act
  <2>. QED
    BY <2>2, <2>3, <2>4
<1>15. CASE ScrollAway
  <2>1. following' \in BOOLEAN
    BY <1>15 DEF ScrollAway
  <2>2. acts' \in 0..MaxActs /\ due' \in 0..MaxTotal
    BY <1>0, <1>15 DEF ScrollAway, Act
  <2>3. UNCHANGED <<hostVars, drawer, paused, error, view, pending, busy, fails>>
    BY <1>15 DEF ScrollAway, Act
  <2>. QED
    BY <2>1, <2>2, <2>3
<1>16. CASE UNCHANGED vars
  BY <1>16 DEF vars
<1>. QED
  BY <1>1, <1>2, <1>3, <1>4, <1>5, <1>6, <1>7, <1>8, <1>9, <1>10, <1>11, <1>12,
     <1>13, <1>14, <1>15, <1>16 DEF Next

LEMMA PageInBounds ==
  ASSUME NEW p, IsStretch(p), NEW g \in 0..MaxResets, NEW n, OfLog(p, g, n)
  PROVE  IsPage(p)
<1>1. /\ p.start \in Nat /\ p.end \in Nat /\ p.total \in Nat /\ p.generation \in Nat
      /\ Len(p.records) \in Nat /\ Len(p.records) = p.end - p.start
      /\ p.end <= p.total /\ p.total <= MaxTotal /\ p.generation <= g
  BY DEF IsStretch, Consecutive, Page, OfLog
<1>2. p.start <= p.end
  BY <1>1
<1>. QED
  BY <1>1, <1>2, BoundAssumption DEF IsPage

LEMMA InvType == ASSUME Inv, PagesInv, BoundsInv PROVE TypeOK
<1>1. view # None => IsPage(view)
  BY PageInBounds DEF Inv, PagesInv, BoundsInv
<1>2. busy # None => /\ busy.asked \in Actions /\ busy.action \in WindowAction
                     /\ busy.current \in 0..MaxTotal /\ busy.void \in BOOLEAN
                     /\ busy.page # None => IsPage(busy.page)
  <2>1. busy # None => /\ busy.asked \in Actions /\ busy.action \in WindowAction
                       /\ busy.current \in 0..MaxTotal /\ busy.void \in BOOLEAN
    BY MaxTotalIsNat DEF Inv, PagesInv, Answerable, Asked, Fits, Bounded
  <2>2. busy # None => (busy.page # None => IsPage(busy.page))
    BY PageInBounds DEF Inv, PagesInv, BoundsInv, Answerable, Fits, Bounded
  <2>. QED
    BY <2>1, <2>2
<1>3. /\ log \in Logs /\ held \in Logs
      /\ log.complete + held.complete <= MaxRecords
  BY MaxTotalIsNat DEF Inv, PagesInv, Text, Logs
<1>. QED
  BY <1>1, <1>2, <1>3 DEF TypeOK, Inv, PagesInv, BoundsInv

-----------------------------------------------------------------------------
LEMMA Inductive ==
  /\ Init => Inv /\ PagesInv /\ BoundsInv
  /\ (Inv /\ PagesInv /\ BoundsInv) /\ [Next]_vars => (Inv /\ PagesInv /\ BoundsInv)'
<1>1. ASSUME Init
      PROVE  BoundsInv
  <2>1. {MaxNews, MaxResets, MaxActs, MaxFails, MaxTotal} \subseteq Nat
    BY BoundAssumption, MaxTotalIsNat
  <2>2. /\ generation = 0 /\ news = 0 /\ acts = 0 /\ fails = 0 /\ due = 0
        /\ following = TRUE /\ paused = FALSE /\ error = FALSE /\ drawer = "opening"
    BY <1>1 DEF Init
  <2>3. /\ 0 \in 0..MaxResets /\ 0 \in 0..MaxNews /\ 0 \in 0..MaxActs
        /\ 0 \in 0..MaxFails /\ 0 \in 0..MaxTotal
    BY <2>1
  <2>. QED
    BY <2>2, <2>3 DEF BoundsInv
<1>. QED
  BY <1>1, InitInv, InitPages, PagesContinue, StepInv, StepPages, StepBounds

\* The variables keep their types and bounds.
THEOREM TypeAlways == Spec => []TypeOK
BY Inductive, InvType, PTL DEF Spec

\* What the dashboard shows is an uninterrupted stretch of one content of the
\* log, numbered as the window says and no longer than a window may be, for any
\* sizes of windows, shifts and budgets.  (slideWindow, LineIndex::window)
THEOREM ViewConsecutiveAlways == Spec => []ViewConsecutive
BY Inductive, InvConsecutive, PTL DEF Spec

\* A record that was partial when it was shown does not stay so in the middle
\* of a window that has moved on, however records are joined, cut off, asked
\* for again and completed in between.  (loadWindow, slideWindow)
THEOREM NoStalePartialAlways == Spec => []NoStalePartial
BY Inductive, PagesSettled, PTL DEF Spec

\* Paging goes on: a page of older or newer records of the same log moves the
\* window that way, without a gap, or shows that there are no more: the record
\* asked for again takes no room from the page, at any shift and any budget of
\* two records.  (loadWindow, slideWindow, LineIndex::window)
THEOREM PagesMoveAlways == Spec => PagesMove
<1>1. Inv /\ PagesInv /\ [Next]_vars =>
        (Paged => /\ busy.asked = "older" =>
                       view'.end >= view.start
                       /\ (view'.start < view.start \/ view'.start = 0)
                  /\ busy.asked = "newer" =>
                       view'.start <= view.end
                       /\ (view'.end > view.end \/ view'.end = view'.total))
  BY ReceiveView DEF Paged, Moved
<1>. QED
  BY <1>1, Inductive, PTL DEF Spec, PagesMove
==============================================================================
