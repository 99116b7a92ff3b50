------------------------ MODULE StdoutReaders_proofs ------------------------
(***************************************************************************)
(* Proofs about StdoutReaders, for any callers, tasks, tokens and sizes of *)
(* a drain.                                                                *)
(***************************************************************************)
EXTENDS StdoutReaders, FiniteSetTheorems, SequenceTheorems, WellFoundedInduction,
        TLAPS

-----------------------------------------------------------------------------
(* Sequences of tokens.                                                    *)

LEMMA SeqGrows ==
  ASSUME NEW m \in Nat, NEW n \in Nat, m <= n, NEW s \in Seq(1..m)
  PROVE  s \in Seq(1..n)
<1>1. 1..m \subseteq 1..n
  OBVIOUS
<1>. QED
  BY <1>1

LEMMA IntervalSeq ==
  ASSUME NEW a \in Nat, NEW b \in Nat, a <= b
  PROVE  /\ Interval(a, b) \in Seq(1..b) /\ Interval(a, b) \in Seq(Nat)
         /\ Len(Interval(a, b)) = b - a
         /\ \A i \in 1..(b - a) : Interval(a, b)[i] = a + i
<1>1. b - a \in Nat /\ \A i \in 1..(b - a) : a + i \in 1..b
  OBVIOUS
<1>2. Interval(a, b) \in [1..(b - a) -> 1..b]
  BY <1>1 DEF Interval
<1>. QED
  BY <1>1, <1>2 DEF Interval

LEMMA Joined ==
  ASSUME NEW S, NEW s \in Seq(S), NEW t \in Seq(S)
  PROVE  /\ s \o t \in Seq(S) /\ Len(s \o t) = Len(s) + Len(t)
         /\ \A i \in 1..Len(s) : (s \o t)[i] = s[i]
         /\ \A i \in 1..Len(t) : (s \o t)[Len(s) + i] = t[i]
BY ConcatProperties

LEMMA IntervalJoin ==
  ASSUME NEW a \in Nat, NEW b \in Nat, NEW c \in Nat, a <= b, b <= c
  PROVE  Interval(a, b) \o Interval(b, c) = Interval(a, c)
<1>1. PICK m \in Nat, n \in Nat : m = b - a /\ n = c - b
  OBVIOUS
<1>2. b = a + m /\ c - a = m + n
  BY <1>1
<1>3. PICK s \in Seq(Nat) :
        s = Interval(a, b) /\ Len(s) = m /\ \A i \in 1..m : s[i] = a + i
  BY <1>1, IntervalSeq
<1>4. PICK t \in Seq(Nat) :
        t = Interval(b, c) /\ Len(t) = n /\ \A i \in 1..n : t[i] = b + i
  BY <1>1, IntervalSeq
<1>5. PICK u \in Seq(Nat) :
        u = Interval(a, c) /\ Len(u) = m + n /\ \A i \in 1..(m + n) : u[i] = a + i
  <2>1. a <= c
    OBVIOUS
  <2>2. /\ Interval(a, c) \in Seq(Nat) /\ Len(Interval(a, c)) = c - a
        /\ \A i \in 1..(c - a) : Interval(a, c)[i] = a + i
    BY <2>1, IntervalSeq
  <2>. QED
    BY <1>2, <2>2
<1>6. PICK r \in Seq(Nat) :
        /\ r = s \o t /\ Len(r) = m + n
        /\ \A i \in 1..m : r[i] = s[i]
        /\ \A i \in 1..n : r[m + i] = t[i]
  <2>1. /\ s \o t \in Seq(Nat) /\ Len(s \o t) = Len(s) + Len(t)
        /\ \A i \in 1..Len(s) : (s \o t)[i] = s[i]
        /\ \A i \in 1..Len(t) : (s \o t)[Len(s) + i] = t[i]
    BY Joined
  <2>. QED
    BY <1>3, <1>4, <2>1
<1>7. ASSUME NEW i \in 1..(m + n)
      PROVE  r[i] = u[i]
  <2>1. CASE i \in 1..m
    BY <1>3, <1>5, <1>6, <2>1
  <2>2. CASE i \notin 1..m
    <3>1. PICK k \in 1..n : i = m + k
      <4>1. i - m \in 1..n /\ i = m + (i - m)
        BY <2>2
      <4>. QED
        BY <4>1
    <3>2. r[i] = b + k /\ u[i] = a + (m + k)
      BY <1>4, <1>5, <1>6, <3>1
    <3>. QED
      BY <1>2, <3>2
  <2>. QED
    BY <2>1, <2>2
<1>8. r = u
  <2>1. Len(r) = Len(u) /\ \A i \in 1..Len(r) : r[i] = u[i]
    BY <1>5, <1>6, <1>7
  <2>. QED
    BY <2>1, SeqEqual
<1>. QED
  BY <1>3, <1>4, <1>5, <1>6, <1>8

LEMMA IntervalSet ==
  ASSUME NEW a \in Nat, NEW b \in Nat, a <= b
  PROVE  ToSet(Interval(a, b)) = (a + 1)..b /\ IsInjective(Interval(a, b))
<1>. DEFINE s == Interval(a, b)
<1>1. /\ DOMAIN s = 1..(b - a) /\ \A i \in 1..(b - a) : s[i] = a + i
  BY DEF Interval
<1>. HIDE DEF s
<1>2. ToSet(s) \subseteq (a + 1)..b
  BY <1>1 DEF ToSet
<1>3. ASSUME NEW x \in (a + 1)..b
      PROVE  x \in ToSet(s)
  <2>1. x - a \in 1..(b - a) /\ s[x - a] = x
    BY <1>1
  <2>. QED
    BY <1>1, <2>1 DEF ToSet
<1>4. IsInjective(s)
  BY <1>1 DEF IsInjective
<1>. QED
  BY <1>2, <1>3, <1>4 DEF s

LEMMA SetOfSeq ==
  ASSUME NEW S, NEW s \in Seq(S)
  PROVE  ToSet(s) \subseteq S
<1>1. \A i \in DOMAIN s : s[i] \in S
  OBVIOUS
<1>. QED
  BY <1>1 DEF ToSet

LEMMA EmptySet == ToSet(<<>>) = {} /\ IsInjective(<<>>)
BY DEF ToSet, IsInjective

LEMMA ConcatSet ==
  ASSUME NEW s \in Seq(Nat), NEW t \in Seq(Nat)
  PROVE  /\ ToSet(s \o t) = ToSet(s) \cup ToSet(t)
         /\ IsInjective(s) /\ IsInjective(t) /\ ToSet(s) \cap ToSet(t) = {}
              => IsInjective(s \o t)
<1>1. PICK m \in Nat, n \in Nat : m = Len(s) /\ n = Len(t)
  OBVIOUS
<1>2. PICK r \in Seq(Nat) :
        /\ r = s \o t /\ Len(r) = m + n
        /\ \A i \in 1..m : r[i] = s[i]
        /\ \A i \in 1..n : r[m + i] = t[i]
  <2>1. /\ s \o t \in Seq(Nat) /\ Len(s \o t) = Len(s) + Len(t)
        /\ \A i \in 1..Len(s) : (s \o t)[i] = s[i]
        /\ \A i \in 1..Len(t) : (s \o t)[Len(s) + i] = t[i]
    BY Joined
  <2>. QED
    BY <1>1, <2>1
<1>3. DOMAIN s = 1..m /\ DOMAIN t = 1..n /\ DOMAIN r = 1..(m + n)
  BY <1>1, <1>2
<1>4. \A i \in 1..(m + n) : i \in 1..m \/ \E k \in 1..n : i = m + k
  <2>1. \A i \in 1..(m + n) : i \notin 1..m => i - m \in 1..n /\ i = m + (i - m)
    OBVIOUS
  <2>. QED
    BY <2>1
<1>5. 1..m \subseteq 1..(m + n) /\ \A i \in 1..n : m + i \in 1..(m + n)
  OBVIOUS
<1>6. ToSet(r) \subseteq ToSet(s) \cup ToSet(t)
  BY <1>2, <1>3, <1>4 DEF ToSet
<1>7. ToSet(s) \subseteq ToSet(r) /\ ToSet(t) \subseteq ToSet(r)
  BY <1>2, <1>3, <1>5 DEF ToSet
<1>8. ASSUME IsInjective(s), IsInjective(t), ToSet(s) \cap ToSet(t) = {}
      PROVE  IsInjective(r)
  <2>1. SUFFICES ASSUME NEW i \in 1..(m + n), NEW j \in 1..(m + n), r[i] = r[j]
                 PROVE  i = j
    BY <1>3 DEF IsInjective
  <2>2. CASE i \in 1..m /\ j \in 1..m
    BY <1>2, <1>3, <1>8, <2>1, <2>2 DEF IsInjective
  <2>3. ASSUME NEW k \in 1..n, NEW l \in 1..n, i = m + k, j = m + l
        PROVE  i = j
    <3>1. t[k] = t[l]
      BY <1>2, <2>1, <2>3
    <3>2. k = l
      BY <1>3, <1>8, <3>1 DEF IsInjective
    <3>. QED
      BY <2>3, <3>2
  <2>4. \A k \in 1..m : r[k] \in ToSet(s)
    BY <1>2, <1>3 DEF ToSet
  <2>5. \A k \in 1..n : r[m + k] \in ToSet(t)
    BY <1>2, <1>3 DEF ToSet
  <2>. QED
    BY <1>4, <1>8, <2>1, <2>2, <2>3, <2>4, <2>5
<1>. QED
  BY <1>2, <1>6, <1>7, <1>8

\* A sequence cut in two.
LEMMA Cut ==
  ASSUME NEW s \in Seq(Nat), NEW n \in 1..Len(s)
  PROVE  /\ SubSeq(s, 1, n) \in Seq(Nat) /\ Len(SubSeq(s, 1, n)) = n
         /\ SubSeq(s, n + 1, Len(s)) \in Seq(Nat) /\ Len(SubSeq(s, n + 1, Len(s))) = Len(s) - n
         /\ \A i \in 1..n : SubSeq(s, 1, n)[i] = s[i]
         /\ \A i \in 1..(Len(s) - n) : SubSeq(s, n + 1, Len(s))[i] = s[n + i]
<1>1. PICK m \in Nat : Len(s) = n + m
  <2>1. Len(s) - n \in Nat /\ Len(s) = n + (Len(s) - n)
    OBVIOUS
  <2>. QED
    BY <2>1
<1>2. SubSeq(s, 1, n) = [i \in 1..n |-> s[i]]
  OBVIOUS
<1>3. SubSeq(s, n + 1, n + m) = [i \in 1..m |-> s[n + i]]
  OBVIOUS
<1>4. \A i \in 1..n : s[i] \in Nat
  BY <1>1
<1>5. \A i \in 1..m : s[n + i] \in Nat
  BY <1>1
<1>. QED
  BY <1>1, <1>2, <1>3, <1>4, <1>5

\* The same at any place, the ends included.
LEMMA CutAt ==
  ASSUME NEW S, NEW s \in Seq(S), NEW k \in 0..Len(s)
  PROVE  /\ SubSeq(s, 1, k) \in Seq(S) /\ Len(SubSeq(s, 1, k)) = k
         /\ SubSeq(s, k + 1, Len(s)) \in Seq(S) /\ Len(SubSeq(s, k + 1, Len(s))) = Len(s) - k
         /\ SubSeq(s, 1, k) \o SubSeq(s, k + 1, Len(s)) = s
<1>1. k \in Nat /\ Len(s) \in Nat /\ k <= Len(s) /\ k + 1 \in Int /\ 1 \in Int /\ k \in Int
      /\ Len(s) \in Int
  OBVIOUS
<1>2. /\ \A i \in 1..k : s[i] \in S
      /\ \A i \in (k + 1)..Len(s) : s[i] \in S
  <2>1. \A i \in 1..Len(s) : s[i] \in S
    BY ElementOfSeq
  <2>2. 1..k \subseteq 1..Len(s) /\ (k + 1)..Len(s) \subseteq 1..Len(s)
    BY <1>1
  <2>. QED
    BY <2>1, <2>2
<1>3. /\ SubSeq(s, 1, k) \in Seq(S)
      /\ Len(SubSeq(s, 1, k)) = IF 1 <= k THEN k - 1 + 1 ELSE 0
  BY <1>1, <1>2, SubSeqProperties
<1>4. /\ SubSeq(s, k + 1, Len(s)) \in Seq(S)
      /\ Len(SubSeq(s, k + 1, Len(s))) = IF k + 1 <= Len(s) THEN Len(s) - (k + 1) + 1 ELSE 0
  BY <1>1, <1>2, SubSeqProperties
<1>5. SubSeq(s, 1, k) \o SubSeq(s, k + 1, Len(s)) = SubSeq(s, 1, Len(s))
  <2>1. 1 \in 1..(Len(s) + 1) /\ k \in (1 - 1)..Len(s) /\ Len(s) \in k..Len(s)
    BY <1>1
  <2>. QED
    BY <2>1, ConcatAdjacentSubSeq
<1>6. SubSeq(s, 1, Len(s)) = s
  BY SubSeqFull
<1>7. Len(SubSeq(s, 1, k)) = k
  BY ONLY <1>1, <1>3
<1>8. Len(SubSeq(s, k + 1, Len(s))) = Len(s) - k
  BY ONLY <1>1, <1>4
<1>. QED
  BY <1>3, <1>4, <1>5, <1>6, <1>7, <1>8

\* What is kept and what is handed out when a sequence is cut.
LEMMA CutSet ==
  ASSUME NEW s \in Seq(Nat), NEW n \in 1..Len(s)
  PROVE  LET front == SubSeq(s, 1, n)
             back  == SubSeq(s, n + 1, Len(s)) IN
         /\ ToSet(s) = ToSet(front) \cup ToSet(back)
         /\ IsInjective(s) => ToSet(front) \cap ToSet(back) = {} /\ IsInjective(back)
<1>0. PICK front, back : front = SubSeq(s, 1, n) /\ back = SubSeq(s, n + 1, Len(s))
  OBVIOUS
<1>1. PICK m \in Nat : Len(s) = n + m
  <2>1. Len(s) - n \in Nat /\ Len(s) = n + (Len(s) - n)
    OBVIOUS
  <2>. QED
    BY <2>1
<1>2. /\ DOMAIN s = 1..(n + m) /\ DOMAIN front = 1..n /\ DOMAIN back = 1..m
      /\ \A i \in 1..n : front[i] = s[i]
      /\ \A i \in 1..m : back[i] = s[n + i]
  BY <1>0, <1>1, Cut
<1>3. \A i \in 1..(n + m) : i \in 1..n \/ \E k \in 1..m : i = n + k
  <2>1. \A i \in 1..(n + m) : i \notin 1..n => i - n \in 1..m /\ i = n + (i - n)
    OBVIOUS
  <2>. QED
    BY <2>1
<1>4. 1..n \subseteq 1..(n + m) /\ \A i \in 1..m : n + i \in 1..(n + m) /\ n + i \notin 1..n
  OBVIOUS
<1>5. ToSet(s) = ToSet(front) \cup ToSet(back)
  <2>1. /\ ToSet(s) = {s[i] : i \in 1..(n + m)}
        /\ ToSet(front) = {front[i] : i \in 1..n} /\ ToSet(back) = {back[i] : i \in 1..m}
    BY <1>2, Zenon DEF ToSet
  <2>2. \A i \in 1..(n + m) : s[i] \in ToSet(front) \cup ToSet(back)
    <3>1. ASSUME NEW i \in 1..(n + m), i \in 1..n
          PROVE  s[i] \in ToSet(front)
      BY <1>2, <2>1, <3>1
    <3>2. ASSUME NEW i \in 1..(n + m), NEW k \in 1..m, i = n + k
          PROVE  s[i] \in ToSet(back)
      BY <1>2, <2>1, <3>2
    <3>. QED
      BY <1>3, <3>1, <3>2
  <2>3. \A i \in 1..n : front[i] \in ToSet(s)
    BY <1>2, <1>4, <2>1
  <2>4. \A i \in 1..m : back[i] \in ToSet(s)
    BY <1>2, <1>4, <2>1
  <2>. QED
    BY <2>1, <2>2, <2>3, <2>4
<1>6. ASSUME IsInjective(s)
      PROVE  ToSet(front) \cap ToSet(back) = {} /\ IsInjective(back)
  <2>1. \A i, j \in 1..(n + m) : s[i] = s[j] => i = j
    BY <1>2, <1>6 DEF IsInjective
  <2>2. ASSUME NEW i \in 1..n, NEW j \in 1..m
        PROVE  front[i] # back[j]
    BY <1>2, <1>4, <2>1
  <2>3. ASSUME NEW i \in 1..m, NEW j \in 1..m, back[i] = back[j]
        PROVE  i = j
    <3>1. n + i = n + j
      BY <1>2, <1>4, <2>1, <2>3
    <3>. QED
      BY <3>1
  <2>4. ToSet(front) \cap ToSet(back) = {}
    <3>1. \A x \in ToSet(front) : \E i \in 1..n : x = front[i]
      BY <1>2, Zenon DEF ToSet
    <3>2. \A x \in ToSet(back) : \E j \in 1..m : x = back[j]
      BY <1>2, Zenon DEF ToSet
    <3>3. ASSUME NEW x, x \in ToSet(front), x \in ToSet(back)
          PROVE  FALSE
      <4>1. PICK i \in 1..n : x = front[i]
        BY <3>1, <3>3
      <4>2. PICK j \in 1..m : x = back[j]
        BY <3>2, <3>3
      <4>. QED
        BY <2>2, <4>1, <4>2
    <3>. QED
      BY <3>3
  <2>5. IsInjective(back)
    BY <1>2, <2>3 DEF IsInjective
  <2>. QED
    BY <2>4, <2>5
<1>. QED
  BY <1>0, <1>5, <1>6

\* Distinct tokens are no more than there are.
LEMMA DistinctTokens ==
  ASSUME NEW n \in Nat, NEW s \in Seq(1..n), IsInjective(s)
  PROVE  Len(s) <= n
<1>1. PICK m \in Nat : m = Len(s)
  OBVIOUS
<1>2. s \in Injection(1..m, 1..n)
  BY <1>1 DEF Injection, IsInjective
<1>3. \A k \in Nat : IsFiniteSet(1..k) /\ Cardinality(1..k) = k
  <2>1. ASSUME NEW k \in Nat
        PROVE  IsFiniteSet(1..k) /\ Cardinality(1..k) = IF 1 > k THEN 0 ELSE k - 1 + 1
    BY FS_Interval
  <2>. QED
    BY <2>1
<1>4. Cardinality(1..m) <= Cardinality(1..n)
  BY <1>2, <1>3, FS_Injection, Zenon
<1>. QED
  BY <1>1, <1>3, <1>4

-----------------------------------------------------------------------------
(* Writing at an offset.                                                   *)

LEMMA OverwriteSeq ==
  ASSUME NEW S, NEW file \in Seq(S), NEW s \in Seq(S), NEW at \in Nat, at <= Len(file)
  PROVE  /\ Overwrite(file, at, s) \in Seq(S)
         /\ Len(file) <= Len(Overwrite(file, at, s))
         /\ at + Len(s) <= Len(Overwrite(file, at, s))
<1>1. PICK m \in Nat, n \in Nat : m = Len(file) /\ n = Len(s)
  OBVIOUS
<1>2. PICK k \in Nat : k = IF m > at + n THEN m ELSE at + n
  OBVIOUS
<1>. DEFINE Cell(i) == IF i > at /\ i <= at + n THEN s[i - at] ELSE file[i]
<1>3. Overwrite(file, at, s) = [i \in 1..k |-> Cell(i)]
  BY <1>1, <1>2 DEF Overwrite
<1>4. ASSUME NEW i \in 1..k
      PROVE  Cell(i) \in S
  <2>1. CASE i > at /\ i <= at + n
    <3>1. i - at \in 1..n
      BY <2>1
    <3>. QED
      BY <1>1, <2>1, <3>1
  <2>2. CASE ~(i > at /\ i <= at + n)
    <3>1. i \in 1..m
      BY <1>1, <1>2, <2>2
    <3>. QED
      BY <1>1, <2>2, <3>1
  <2>. QED
    BY <2>1, <2>2
<1>. HIDE DEF Cell
<1>5. Overwrite(file, at, s) \in [1..k -> S]
  BY <1>3, <1>4
<1>6. Overwrite(file, at, s) \in Seq(S) /\ Len(Overwrite(file, at, s)) = k
  BY <1>5
<1>. QED
  BY <1>1, <1>2, <1>6

LEMMA OverwriteEnd ==
  ASSUME NEW file \in Seq(Nat), NEW s \in Seq(Nat), NEW m \in Nat, m = Len(file)
  PROVE  Overwrite(file, m, s) = file \o s
<1>1. PICK n \in Nat : n = Len(s)
  OBVIOUS
<1>2. PICK r \in Seq(Nat) :
        /\ r = file \o s /\ Len(r) = m + n
        /\ \A i \in 1..m : r[i] = file[i]
        /\ \A i \in 1..n : r[m + i] = s[i]
  <2>1. /\ file \o s \in Seq(Nat) /\ Len(file \o s) = Len(file) + Len(s)
        /\ \A i \in 1..Len(file) : (file \o s)[i] = file[i]
        /\ \A i \in 1..Len(s) : (file \o s)[Len(file) + i] = s[i]
    BY Joined
  <2>. QED
    BY <1>1, <2>1
<1>3. PICK k : k = (IF Len(file) > m + Len(s) THEN Len(file) ELSE m + Len(s)) /\ k = m + n
  BY <1>1
<1>. DEFINE Cell(i) == IF i > m /\ i <= m + Len(s) THEN s[i - m] ELSE file[i]
<1>4. Overwrite(file, m, s) = [i \in 1..k |-> Cell(i)]
  BY <1>3 DEF Overwrite
<1>5. r = [i \in 1..(m + n) |-> r[i]]
  <2>1. r = [i \in 1..Len(r) |-> r[i]]
    OBVIOUS
  <2>. QED
    BY <1>2, <2>1, Zenon
<1>6. ASSUME NEW i \in 1..(m + n)
      PROVE  r[i] = Cell(i)
  <2>1. CASE i > m
    <3>1. i - m \in 1..n /\ m + (i - m) = i
      BY <2>1
    <3>2. r[m + (i - m)] = s[i - m]
      BY <1>2, <3>1
    <3>. QED
      BY <1>1, <2>1, <3>1, <3>2
  <2>2. CASE ~(i > m)
    <3>1. i \in 1..m
      BY <2>2
    <3>. QED
      BY <1>2, <2>2, <3>1
  <2>. QED
    BY <2>1, <2>2
<1>. QED
  <2>. HIDE DEF Cell
  <2>. QED
    BY <1>2, <1>3, <1>4, <1>5, <1>6

LEMMA OverwriteNothing ==
  ASSUME NEW file \in Seq(Nat), NEW at \in Nat, at <= Len(file)
  PROVE  Overwrite(file, at, <<>>) = file
<1>1. PICK m \in Nat : m = Len(file)
  OBVIOUS
<1>2. (IF m > at + Len(<<>>) THEN m ELSE at + Len(<<>>)) = m
  BY <1>1
<1>3. \A i \in 1..m : ~(i > at /\ i <= at + Len(<<>>))
  OBVIOUS
<1>4. Overwrite(file, at, <<>>) = [i \in 1..m |-> file[i]]
  BY <1>1, <1>2, <1>3 DEF Overwrite
<1>. QED
  BY <1>1, <1>4

-----------------------------------------------------------------------------
(* The least of some numbers.                                              *)

LEMMA Least ==
  ASSUME NEW S \in SUBSET Nat, S # {}
  PROVE  Min(S) \in S /\ \A y \in S : Min(S) <= y
<1>1. PICK x \in S : \A y \in S : <<y, x>> \notin OpToRel(<, Nat)
  BY WFMin, NatLessThanWellFounded
<1>2. ASSUME NEW y \in S
      PROVE  x <= y
  <2>1. x \in Nat /\ y \in Nat /\ <<y, x>> \in Nat \X Nat
    OBVIOUS
  <2>2. ~(y < x)
    BY <1>1, <2>1 DEF OpToRel
  <2>. QED
    BY <2>1, <2>2
<1>. QED
  BY <1>2 DEF Min

\* Tokens that are drained are new.
LEMMA Fresh ==
  ASSUME taken \in Nat, NEW n \in Nat
  PROVE  /\ taken + n \in Nat /\ taken <= taken + n
         /\ Interval(taken, taken + n) \in Seq(1..(taken + n))
         /\ Interval(taken, taken + n) \in Seq(Nat)
         /\ ToSet(Interval(taken, taken + n)) = (taken + 1)..(taken + n)
         /\ IsInjective(Interval(taken, taken + n))
         /\ Len(Interval(taken, taken + n)) = n
         /\ \A i \in 1..n : Interval(taken, taken + n)[i] = taken + i
<1>1. taken + n \in Nat /\ taken <= taken + n /\ (taken + n) - taken = n
  OBVIOUS
<1>2. /\ Interval(taken, taken + n) \in Seq(1..(taken + n))
      /\ Interval(taken, taken + n) \in Seq(Nat)
      /\ Len(Interval(taken, taken + n)) = (taken + n) - taken
      /\ \A i \in 1..((taken + n) - taken) : Interval(taken, taken + n)[i] = taken + i
  BY <1>1, IntervalSeq
<1>3. ToSet(Interval(taken, taken + n)) = (taken + 1)..(taken + n)
      /\ IsInjective(Interval(taken, taken + n))
  BY <1>1, IntervalSet
<1>. QED
  BY <1>1, <1>2, <1>3

\* What a call drains.
LEMMA Drained ==
  ASSUME printed \in Nat, taken \in 0..printed, NEW n \in 1..MaxTake, Drain(n)
  PROVE  n \in Nat /\ n # 0 /\ taken \in Nat /\ taken' = taken + n /\ taken + n <= printed
<1>1. Waiting \in Nat /\ MaxTake \in Nat
  BY TakeAssumption DEF Waiting
<1>2. n = Min({Waiting, MaxTake}) /\ n > 0 /\ taken' = taken + n
  BY DEF Drain
<1>3. n <= Waiting
  <2>1. {Waiting, MaxTake} \in SUBSET Nat /\ {Waiting, MaxTake} # {}
    BY <1>1
  <2>. QED
    BY <1>2, <2>1, Least
<1>. QED
  BY <1>1, <1>2, <1>3 DEF Waiting

-----------------------------------------------------------------------------
(* The inductive invariant.                                                *)

Place == {"idle", "ensure", "lock", "read", "status",
          "look", "handover", "insert", "await", "log"}

CallTypes ==
  /\ alive \in BOOLEAN /\ exited \in BOOLEAN /\ asyncOn \in BOOLEAN
  /\ raced \in BOOLEAN /\ unlogged \in BOOLEAN
  /\ keeper \in Caller \cup {None}
  /\ pc \in [Actor -> Place]
  /\ kind \in [Caller -> BlockingKind \cup {"none"}]
  /\ calls \in 0..MaxCalls
  /\ users \subseteq BlockingKind \cup {"async"}

\* Wherever tokens are, they were drained; the blocking writer is no further
\* than the file is long, and has been given no more than was drained.
TokenTypes ==
  /\ printed \in 0..MaxTokens /\ taken \in 0..printed
  /\ lineBuf \in Seq(1..taken) /\ pending \in Seq(1..taken)
  /\ asyncPending \in Seq(1..taken) /\ log \in Seq(1..taken)
  /\ drained \in [Task -> Seq(1..taken)]
  /\ given \subseteq 1..taken /\ lost \subseteq 1..taken
  /\ lines \in Seq(Seq(Nat))
  /\ offset \in Nat /\ offset <= Len(log) /\ offset + Len(pending) <= taken

\* What the place of a call says: a blocking call has a kind, only a task that
\* is about to log has chunks and has drained something, and one that reads has
\* an async output.
PlaceInv ==
  /\ \A c \in Caller : pc[c] \in {"ensure", "lock", "read", "status"} => kind[c] \in BlockingKind
  /\ \A t \in Task : pc[t] # "log" => drained[t] = <<>>
  /\ \A t \in Task : pc[t] \in {"await", "log"} => asyncOn
  /\ \A t \in Task : pc[t] = "log" => "async" \in users

\* As long as nobody raced and everything drained came to a log writer: until
\* there is an async output, the blocking writer stands at the end of the log and
\* nobody else has anything for it; from the hand-over on that writer has
\* nothing, and one task at a time follows on what is in the log and with the
\* async writer.
LogInv ==
  ~raced /\ ~unlogged =>
    /\ ~asyncOn => asyncPending = <<>> /\ offset = Len(log)
    /\ HandedOver => pending = <<>>
    /\ \A t, u \in Task : pc[t] = "log" /\ pc[u] = "log" => t = u
    /\ \A t \in Task : pc[t] = "log" => log \o asyncPending \o drained[t] = Interval(0, taken)
    /\ (\A t \in Task : pc[t] # "log")
         => log \o pending \o asyncPending = Interval(0, taken)

\* Lines are lines, handed out in order and before what is in the buffer, and
\* while only read_line drains they are all that was handed out.
LinesInv ==
  /\ \A i \in 1..Len(lines) : IsLine(lines[i])
  /\ \A i, j \in 1..Len(lines) : i < j =>
       \A x \in ToSet(lines[i]), y \in ToSet(lines[j]) : x < y
  /\ \A i \in 1..Len(lines) : \A x \in ToSet(lines[i]) :
       x \in given /\ \A y \in ToSet(lineBuf) : x < y
  /\ \A i, j \in 1..Len(lineBuf) : i < j => lineBuf[i] < lineBuf[j]
  /\ users \subseteq LineKind =>
       \A x \in given : \E i \in 1..Len(lines) : x \in ToSet(lines[i])

Inv == CallTypes /\ TokenTypes /\ PlaceInv /\ ReadOnce /\ LogInv /\ LinesInv

-----------------------------------------------------------------------------
(* Where the calls stand.                                                  *)

LEMMA Moved ==
  ASSUME pc \in [Actor -> Place], NEW a \in Actor, NEW to \in Place, Goto(a, to)
  PROVE  /\ pc' \in [Actor -> Place] /\ pc'[a] = to
         /\ \A b \in Actor : b # a => pc'[b] = pc[b]
BY DEF Goto

LEMMA Actors == Caller \subseteq Actor /\ Task \subseteq Actor
BY DEF Actor

\* A caller that leaves the mutex is done, or goes on to flush.
LEMMA Unlocked ==
  ASSUME CallTypes, NEW c \in Caller, Unlock(c)
  PROVE  /\ keeper' = None /\ pc' \in [Actor -> Place]
         /\ kind' \in [Caller -> BlockingKind \cup {"none"}]
         /\ \/ pc'[c] = "lock" /\ kind'[c] = "flush"
            \/ pc'[c] = "idle" /\ kind'[c] = "none"
         /\ \A b \in Actor : b # c => pc'[b] = pc[b]
         /\ \A b \in Caller : b # c => kind'[b] = kind[b]
<1>1. /\ keeper' = None
      /\ Goto(c, IF kind[c] = "tail" THEN "lock" ELSE "idle")
      /\ kind' = [kind EXCEPT ![c] = IF kind[c] = "tail" THEN "flush" ELSE "none"]
  BY DEF Unlock
<1>2. CASE kind[c] = "tail"
  <2>1. Goto(c, "lock") /\ kind' = [kind EXCEPT ![c] = "flush"]
    BY <1>1, <1>2
  <2>2. "lock" \in Place /\ "flush" \in BlockingKind
    BY DEF Place, BlockingKind
  <2>. QED
    BY <1>1, <2>1, <2>2, Moved, Actors DEF CallTypes
<1>3. CASE kind[c] # "tail"
  <2>1. Goto(c, "idle") /\ kind' = [kind EXCEPT ![c] = "none"]
    BY <1>1, <1>3
  <2>2. "idle" \in Place
    BY DEF Place
  <2>. QED
    BY <1>1, <2>1, <2>2, Moved, Actors DEF CallTypes
<1>. QED
  BY <1>2, <1>3

\* A step of caller c as the other invariants see it.
CallerMoves(c) ==
  /\ pc' \in [Actor -> Place] /\ kind' \in [Caller -> BlockingKind \cup {"none"}]
  /\ keeper' \in Caller \cup {None}
  /\ pc[c] \in {"idle", "ensure", "lock", "read", "status"}
  /\ pc'[c] \in {"idle", "ensure", "lock", "read", "status"}
  /\ pc'[c] # "idle" => kind'[c] \in BlockingKind
  /\ \A b \in Actor : b # c => pc'[b] = pc[b]
  /\ \A b \in Caller : b # c => kind'[b] = kind[b]

\* A step of task t.
TaskMoves(t) ==
  /\ pc' \in [Actor -> Place] /\ UNCHANGED <<kind, keeper>>
  /\ pc[t] \in {"idle", "look", "handover", "insert", "await", "log"}
  /\ pc'[t] \in {"idle", "look", "handover", "insert", "await", "log"}
  /\ \A b \in Actor : b # t => pc'[b] = pc[b]

LEMMA CallerStep ==
  ASSUME CallTypes, PlaceInv, NEW c \in Caller,
         (\E k \in BlockingKind : Call(c, k)) \/ CallStep(c) \/ ReadFails(c)
  PROVE  CallerMoves(c)
<1>. USE DEF Place
<1>0. c \in Actor /\ pc \in [Actor -> Place] /\ keeper \in Caller \cup {None}
      /\ kind \in [Caller -> BlockingKind \cup {"none"}]
  BY Actors DEF CallTypes
<1>1. ASSUME NEW k \in BlockingKind, Call(c, k)
      PROVE  CallerMoves(c)
  <2>1. /\ pc[c] = "idle" /\ UNCHANGED keeper
        /\ Goto(c, IF k = "flush" THEN "lock" ELSE "ensure")
        /\ kind' = [kind EXCEPT ![c] = k]
    BY <1>1 DEF Call, directVars
  <2>2. (IF k = "flush" THEN "lock" ELSE "ensure") \in {"lock", "ensure"}
    OBVIOUS
  <2>. QED
    BY <1>0, <2>1, <2>2, Moved DEF CallerMoves
<1>2. CASE EnsureBlocking(c)
  <2>1. pc[c] = "ensure" /\ UNCHANGED keeper /\ kind[c] \in BlockingKind
    BY <1>2 DEF EnsureBlocking, directVars, PlaceInv
  <2>2. \/ Goto(c, "lock") /\ UNCHANGED kind
        \/ Goto(c, "lock") /\ kind' = [kind EXCEPT ![c] = "flush"]
        \/ Goto(c, "idle") /\ kind' = [kind EXCEPT ![c] = "none"]
    BY <1>2 DEF EnsureBlocking
  <2>3. "flush" \in BlockingKind
    BY DEF BlockingKind
  <2>. QED
    BY <1>0, <2>1, <2>2, <2>3, Moved DEF CallerMoves
<1>3. CASE Lock(c)
  <2>1. pc[c] = "lock" /\ keeper' = c /\ Goto(c, "read") /\ UNCHANGED kind
    BY <1>3 DEF Lock
  <2>2. kind[c] \in BlockingKind
    BY <2>1 DEF PlaceInv
  <2>. QED
    BY <1>0, <2>1, <2>2, Moved DEF CallerMoves
<1>4. CASE pc[c] = "read" /\ Unlock(c)
  <2>1. "flush" \in BlockingKind
    BY DEF BlockingKind
  <2>. QED
    BY <1>0, <1>4, <2>1, Unlocked DEF CallerMoves
<1>5. CASE pc[c] = "read" /\ UNCHANGED <<keeper, pc, kind>>
  <2>1. kind[c] \in BlockingKind
    BY <1>5 DEF PlaceInv
  <2>. QED
    BY <1>0, <1>5, <2>1 DEF CallerMoves
<1>6. CASE pc[c] = "read" /\ keeper' = None /\ Goto(c, "status") /\ UNCHANGED kind
  <2>1. kind[c] \in BlockingKind
    BY <1>6 DEF PlaceInv
  <2>. QED
    BY <1>0, <1>6, <2>1, Moved DEF CallerMoves
<1>7. CASE PipeStatus(c)
  <2>1. /\ pc[c] = "status" /\ UNCHANGED keeper /\ kind[c] \in BlockingKind
        /\ \/ Goto(c, "idle") /\ kind' = [kind EXCEPT ![c] = "none"]
           \/ Goto(c, "ensure") /\ kind' = [kind EXCEPT ![c] = kind[c]]
    BY <1>7 DEF PipeStatus, directVars, PlaceInv
  <2>. QED
    BY <1>0, <2>1, Moved DEF CallerMoves
<1>8. CASE ForceFlush(c) \/ TakeLine(c)
  <2>. QED
    BY <1>4, <1>8 DEF ForceFlush, TakeLine
<1>9. CASE ReadSome(c)
  <2>. QED
    BY <1>4, <1>5, <1>9 DEF ReadSome, Reads
<1>10. CASE ReadNothing(c)
  <2>. QED
    BY <1>4, <1>6, <1>10 DEF ReadNothing, Reads
<1>11. CASE ReadFails(c)
  <2>. QED
    BY <1>4, <1>11 DEF ReadFails, Reads
<1>. QED
  BY <1>1, <1>2, <1>3, <1>7, <1>8, <1>9, <1>10, <1>11 DEF CallStep

LEMMA TaskStepMoves ==
  ASSUME CallTypes, NEW t \in Task, Await(t) \/ TaskStep(t) \/ TaskFails(t)
  PROVE  TaskMoves(t)
<1>. USE DEF Place
<1>0. t \in Actor /\ pc \in [Actor -> Place]
  BY Actors DEF CallTypes
<1>1. ASSUME NEW to \in {"idle", "look", "handover", "insert", "await", "log"}, Goto(t, to),
             pc[t] \in {"idle", "look", "handover", "insert", "await", "log"},
             UNCHANGED <<kind, keeper>>
      PROVE  TaskMoves(t)
  BY <1>0, <1>1, Moved DEF TaskMoves
<1>2. CASE Await(t)
  BY <1>1, <1>2 DEF Await, directVars
<1>3. CASE AsyncLook(t)
  BY <1>1, <1>3 DEF AsyncLook, directVars
<1>4. CASE AsyncHandover(t)
  BY <1>1, <1>4 DEF AsyncHandover
<1>5. CASE AsyncInsert(t)
  BY <1>1, <1>5 DEF AsyncInsert, directVars
<1>6. CASE AsyncRead(t)
  BY <1>1, <1>6 DEF AsyncRead, directVars
<1>7. CASE AsyncEnd(t)
  BY <1>1, <1>7 DEF AsyncEnd, directVars
<1>8. CASE AsyncLog(t)
  BY <1>1, <1>8 DEF AsyncLog, directVars
<1>9. CASE HandoverFails(t)
  BY <1>1, <1>9 DEF HandoverFails
<1>10. CASE InsertFails(t)
  BY <1>1, <1>10 DEF InsertFails, directVars
<1>11. CASE AsyncReadFails(t)
  BY <1>1, <1>11 DEF AsyncReadFails, directVars
<1>12. CASE AsyncLogFails(t)
  BY <1>1, <1>12 DEF AsyncLogFails, directVars
<1>. QED
  BY <1>2, <1>3, <1>4, <1>5, <1>6, <1>7, <1>8, <1>9, <1>10, <1>11, <1>12
     DEF TaskStep, TaskFails

LEMMA CallTypesStep ==
  ASSUME CallTypes, PlaceInv, Next
  PROVE  CallTypes'
<1>. USE DEF childVars, asyncVars, histVars
<1>1. CASE ChildPrints \/ ChildExits \/ NoteExit
  BY <1>1 DEF ChildPrints, ChildExits, NoteExit, CallTypes, directVars, callVars
<1>2. ASSUME NEW c \in Caller, (\E k \in BlockingKind : Call(c, k)) \/ CallStep(c)
                               \/ ReadFails(c)
      PROVE  CallTypes'
  <2>1. CallerMoves(c)
    BY <1>2, CallerStep
  <2>2. UNCHANGED <<alive, exited, asyncOn>>
    BY <1>2 DEF Call, CallStep, EnsureBlocking, Lock, ForceFlush, TakeLine, ReadSome,
       ReadFails, ReadNothing, PipeStatus
  <2>3. raced' \in BOOLEAN /\ unlogged' \in BOOLEAN
    BY <1>2 DEF Call, CallStep, EnsureBlocking, Lock, ForceFlush, TakeLine, ReadSome,
       ReadFails, ReadNothing, PipeStatus, CallTypes
  <2>4. calls' \in 0..MaxCalls
    <3>1. CASE \E k \in BlockingKind : Call(c, k)
      BY <3>1, TakeAssumption DEF Call, CallTypes
    <3>2. CASE CallStep(c) \/ ReadFails(c)
      BY <3>2 DEF CallStep, EnsureBlocking, Lock, ForceFlush, TakeLine, ReadSome,
         ReadFails, ReadNothing, PipeStatus, CallTypes
    <3>. QED
      BY <1>2, <3>1, <3>2
  <2>5. users' \subseteq BlockingKind \cup {"async"}
    <3>1. CASE ReadSome(c) \/ ReadFails(c)
      <4>1. users' \subseteq users \cup {kind[c]} /\ kind[c] \in BlockingKind
        BY <3>1 DEF ReadSome, ReadFails, Reads, PlaceInv
      <4>. QED
        BY <4>1 DEF CallTypes
    <3>2. CASE UNCHANGED users
      BY <3>2 DEF CallTypes
    <3>. QED
      BY <1>2, <3>1, <3>2 DEF Call, CallStep, EnsureBlocking, Lock, ForceFlush, TakeLine,
         ReadNothing, PipeStatus
  <2>. QED
    BY <2>1, <2>2, <2>3, <2>4, <2>5 DEF CallTypes, CallerMoves
<1>3. ASSUME NEW t \in Task, Await(t) \/ TaskStep(t) \/ TaskFails(t)
      PROVE  CallTypes'
  <2>1. TaskMoves(t)
    BY <1>3, TaskStepMoves
  <2>2. UNCHANGED <<alive, exited>>
    BY <1>3 DEF Await, TaskStep, AsyncLook, AsyncHandover, AsyncInsert, AsyncRead, AsyncEnd,
       AsyncLog, TaskFails, HandoverFails, InsertFails, AsyncReadFails, AsyncLogFails
  <2>3. raced' \in BOOLEAN /\ unlogged' \in BOOLEAN /\ asyncOn' \in BOOLEAN
    BY <1>3 DEF Await, TaskStep, AsyncLook, AsyncHandover, AsyncInsert, AsyncRead, AsyncEnd,
       AsyncLog, TaskFails, HandoverFails, InsertFails, AsyncReadFails, AsyncLogFails, CallTypes
  <2>4. calls' \in 0..MaxCalls
    <3>1. CASE Await(t)
      BY <3>1, TakeAssumption DEF Await, CallTypes
    <3>2. CASE TaskStep(t)
      BY <3>2 DEF TaskStep, AsyncLook, AsyncHandover, AsyncInsert, AsyncRead, AsyncEnd,
         AsyncLog, CallTypes, callVars
    <3>3. CASE TaskFails(t)
      BY <3>3 DEF TaskFails, HandoverFails, InsertFails, AsyncReadFails, AsyncLogFails,
         CallTypes, callVars
    <3>. QED
      BY <1>3, <3>1, <3>2, <3>3
  <2>5. users' \subseteq BlockingKind \cup {"async"}
    BY <1>3 DEF Await, TaskStep, AsyncLook, AsyncHandover, AsyncInsert, AsyncRead, AsyncEnd,
       AsyncLog, TaskFails, HandoverFails, InsertFails, AsyncReadFails, AsyncLogFails, CallTypes
  <2>. QED
    BY <2>1, <2>2, <2>3, <2>4, <2>5 DEF CallTypes, TaskMoves
<1>. QED
  BY <1>1, <1>2, <1>3 DEF Next

LEMMA PlaceStep ==
  ASSUME CallTypes, TokenTypes, PlaceInv, Next
  PROVE  PlaceInv'
<1>0. /\ Caller \subseteq Actor /\ Task \subseteq Actor
  BY Actors
<1>1. CASE ChildPrints \/ ChildExits \/ NoteExit
  BY <1>1 DEF ChildPrints, ChildExits, NoteExit, PlaceInv, directVars, asyncVars, callVars,
     histVars
<1>2. ASSUME NEW c \in Caller, (\E k \in BlockingKind : Call(c, k)) \/ CallStep(c)
                               \/ ReadFails(c)
      PROVE  PlaceInv'
  <2>1. CallerMoves(c)
    BY <1>2, CallerStep
  <2>2. UNCHANGED <<asyncOn, drained>> /\ users \subseteq users'
    BY <1>2 DEF Call, CallStep, EnsureBlocking, Lock, ForceFlush, TakeLine, ReadSome,
       ReadFails, ReadNothing, PipeStatus, asyncVars, histVars
  <2>. QED
    BY <1>0, <2>1, <2>2 DEF PlaceInv, CallerMoves
<1>3. ASSUME NEW t \in Task, Await(t) \/ TaskStep(t) \/ TaskFails(t)
      PROVE  PlaceInv'
  <2>1. TaskMoves(t)
    BY <1>3, TaskStepMoves
  <2>2. asyncOn => asyncOn'
    BY <1>3 DEF Await, TaskStep, AsyncLook, AsyncHandover, AsyncInsert, AsyncRead, AsyncEnd,
       AsyncLog, TaskFails, HandoverFails, InsertFails, AsyncReadFails, AsyncLogFails, asyncVars
  <2>6. users \subseteq users' /\ (AsyncRead(t) => "async" \in users')
    BY <1>3 DEF Await, TaskStep, AsyncLook, AsyncHandover, AsyncInsert, AsyncRead, AsyncEnd,
       AsyncLog, TaskFails, HandoverFails, InsertFails, AsyncReadFails, AsyncLogFails, histVars
  <2>3. \A u \in Task : u # t => drained'[u] = drained[u]
    BY <1>3 DEF Await, TaskStep, AsyncLook, AsyncHandover, AsyncInsert, AsyncRead, AsyncEnd,
       AsyncLog, TaskFails, HandoverFails, InsertFails, AsyncReadFails, AsyncLogFails, callVars, TokenTypes
  <2>4. pc'[t] # "log" => drained'[t] = <<>>
    <3>1. CASE AsyncRead(t)
      <4>1. Goto(t, "log") /\ "log" \in Place
        BY <3>1 DEF AsyncRead, Place
      <4>. QED
        BY <1>0, <4>1, Moved DEF CallTypes
    <3>2. CASE AsyncLog(t) \/ AsyncLogFails(t)
      BY <3>2 DEF AsyncLog, AsyncLogFails, TokenTypes
    <3>3. CASE pc[t] # "log" /\ UNCHANGED drained
      BY <3>3 DEF PlaceInv
    <3>. QED
      BY <1>3, <3>1, <3>2, <3>3 DEF Await, TaskStep, AsyncLook, AsyncHandover, AsyncInsert,
         AsyncEnd, TaskFails, HandoverFails, InsertFails, AsyncReadFails
  <2>7. pc'[t] = "log" => AsyncRead(t)
    <3>1. ASSUME Goto(t, "look") \/ Goto(t, "idle") \/ Goto(t, "handover") \/ Goto(t, "insert")
                   \/ Goto(t, "await")
          PROVE  pc'[t] # "log"
      BY <1>0, <3>1, Moved DEF Place, CallTypes
    <3>. QED
      BY <1>3, <3>1 DEF Await, TaskStep, AsyncLook, AsyncHandover, AsyncInsert, AsyncEnd,
         AsyncLog, TaskFails, HandoverFails, InsertFails, AsyncReadFails, AsyncLogFails
  <2>5. pc'[t] \in {"await", "log"} => asyncOn'
    <3>1. CASE AsyncInsert(t)
      BY <3>1 DEF AsyncInsert
    <3>2. CASE AsyncRead(t)
      BY <3>2 DEF AsyncRead, asyncVars, PlaceInv
    <3>3. ASSUME asyncOn' = asyncOn,
                 Goto(t, "look") \/ Goto(t, "idle") \/ Goto(t, "handover") \/ Goto(t, "insert")
                   \/ (Goto(t, "await") /\ asyncOn)
          PROVE  pc'[t] \in {"await", "log"} => asyncOn'
      BY <1>0, <3>3, Moved DEF Place, CallTypes
    <3>. QED
      BY <1>3, <3>1, <3>2, <3>3 DEF Await, TaskStep, AsyncLook, AsyncHandover, AsyncEnd,
         AsyncLog, TaskFails, HandoverFails, InsertFails, AsyncReadFails, AsyncLogFails, asyncVars
  <2>. QED
    BY <1>0, <2>1, <2>2, <2>3, <2>4, <2>5, <2>6, <2>7 DEF PlaceInv, TaskMoves
<1>. QED
  BY <1>1, <1>2, <1>3 DEF Next

-----------------------------------------------------------------------------
(* Where the tokens are.                                                   *)

\* A step that moves no token but to the log.
Still ==
  /\ UNCHANGED <<taken, lineBuf, asyncPending, drained, given, lines, users, lost, unlogged, raced>>
  /\ LogWrites(pending) \/ Flush \/ UNCHANGED <<pending, offset, log>>
  /\ printed' = printed \/ (printed < MaxTokens /\ printed' = printed + 1)

LEMMA Effects ==
  ASSUME Next
  PROVE  \/ Still
         \/ \E c \in Caller : TakeLine(c) \/ ReadSome(c) \/ ReadFails(c)
         \/ \E t \in Task : AsyncRead(t) \/ AsyncLog(t) \/ AsyncReadFails(t) \/ AsyncLogFails(t)
<1>. USE DEF childVars, directVars, asyncVars, callVars, histVars
<1>1. CASE ChildPrints \/ ChildExits \/ NoteExit
  BY <1>1 DEF ChildPrints, ChildExits, NoteExit, Still
<1>2. ASSUME NEW c \in Caller, (\E k \in BlockingKind : Call(c, k)) \/ EnsureBlocking(c) \/ Lock(c)
                                 \/ PipeStatus(c)
      PROVE  Still
  BY <1>2 DEF Call, EnsureBlocking, Lock, PipeStatus, Still
<1>3. ASSUME NEW c \in Caller, ForceFlush(c) \/ ReadNothing(c)
      PROVE  Still
  BY <1>3 DEF ForceFlush, ReadNothing, Still
<1>4. ASSUME NEW t \in Task,
             Await(t) \/ AsyncLook(t) \/ AsyncHandover(t) \/ AsyncInsert(t) \/ AsyncEnd(t)
               \/ HandoverFails(t) \/ InsertFails(t)
      PROVE  Still
  BY <1>4 DEF Await, AsyncLook, AsyncHandover, AsyncInsert, AsyncEnd, HandoverFails,
     InsertFails, Still
<1>. QED
  BY <1>1, <1>2, <1>3, <1>4 DEF Next, CallStep, TaskStep, TaskFails

\* A flush writes all.
LEMMA FlushWrites ==
  ASSUME NEW S, pending \in Seq(S), Flush
  PROVE  LogWrites(pending)
<1>1. PICK n \in Nat : n = Len(pending)
  OBVIOUS
<1>2. SubSeq(pending, 1, n) = pending /\ SubSeq(pending, n + 1, n) = <<>>
  <2>1. n + 1 \in Int /\ n \in Int /\ n < n + 1
    OBVIOUS
  <2>. QED
    BY <1>1, <2>1, SubSeqFull, SubSeqEmpty
<1>3. n \in 0..n
  OBVIOUS
<1>4. /\ log' = Overwrite(log, offset, SubSeq(pending, 1, n)) /\ offset' = offset + n
      /\ pending' = SubSeq(pending, n + 1, n)
  BY <1>1, <1>2 DEF Flush
<1>. QED
  BY <1>1, <1>3, <1>4 DEF LogWrites

LEMMA WriteTypes ==
  ASSUME NEW m \in Nat, log \in Seq(1..m), offset \in Nat, offset <= Len(log),
         NEW all \in Seq(1..m), offset + Len(all) <= m, LogWrites(all)
  PROVE  /\ pending' \in Seq(1..m) /\ log' \in Seq(1..m)
         /\ offset' \in Nat /\ offset' <= Len(log') /\ offset' + Len(pending') <= m
<1>1. PICK k \in 0..Len(all) :
        /\ log' = Overwrite(log, offset, SubSeq(all, 1, k))
        /\ offset' = offset + k /\ pending' = SubSeq(all, k + 1, Len(all))
  BY DEF LogWrites
<1>2. PICK front \in Seq(1..m), back \in Seq(1..m) :
        /\ front = SubSeq(all, 1, k) /\ Len(front) = k
        /\ back = SubSeq(all, k + 1, Len(all)) /\ Len(back) = Len(all) - k
  <2>1. /\ SubSeq(all, 1, k) \in Seq(1..m) /\ Len(SubSeq(all, 1, k)) = k
        /\ SubSeq(all, k + 1, Len(all)) \in Seq(1..m)
        /\ Len(SubSeq(all, k + 1, Len(all))) = Len(all) - k
    BY CutAt
  <2>. QED
    BY ONLY <2>1
<1>3. /\ Overwrite(log, offset, front) \in Seq(1..m)
      /\ offset + Len(front) <= Len(Overwrite(log, offset, front))
  BY OverwriteSeq
<1>4. log' = Overwrite(log, offset, front) /\ pending' = back
  BY <1>1, <1>2
<1>5. k \in Nat /\ Len(all) \in Nat
  OBVIOUS
<1>6. offset + k \in Nat /\ offset + k + (Len(all) - k) = offset + Len(all)
  BY <1>5
<1>. QED
  BY <1>1, <1>2, <1>3, <1>4, <1>6

LEMMA AppendTypes ==
  ASSUME NEW S, log \in Seq(S), NEW all \in Seq(S), AppendWrites(all)
  PROVE  log' \in Seq(S) /\ asyncPending' \in Seq(S) /\ Len(log) <= Len(log')
<1>1. PICK k \in 0..Len(all) :
        log' = log \o SubSeq(all, 1, k) /\ asyncPending' = SubSeq(all, k + 1, Len(all))
  BY DEF AppendWrites
<1>2. PICK front \in Seq(S), back \in Seq(S) :
        /\ front = SubSeq(all, 1, k) /\ Len(front) = k
        /\ back = SubSeq(all, k + 1, Len(all))
  BY CutAt
<1>3. log \o front \in Seq(S) /\ Len(log \o front) = Len(log) + Len(front)
  BY Joined
<1>4. Len(log) \in Nat /\ k \in Nat
  OBVIOUS
<1>. QED
  BY <1>1, <1>2, <1>3, <1>4

\* What a line takes from the buffer.
LEMMA LineTaken ==
  ASSUME TokenTypes, NEW c \in Caller, TakeLine(c)
  PROVE  \E n \in 1..Len(lineBuf) :
           /\ n = Min(LineLengths) /\ n \in LineLengths /\ \A m \in LineLengths : n <= m
           /\ lines' = Append(lines, SubSeq(lineBuf, 1, n))
           /\ lineBuf' = SubSeq(lineBuf, n + 1, Len(lineBuf))
           /\ given' = given \cup ToSet(SubSeq(lineBuf, 1, n))
           /\ UNCHANGED <<printed, taken, pending, offset, asyncOn, asyncPending, log, drained,
                          users, lost, unlogged, raced>>
<1>1. LineLengths \in SUBSET Nat /\ LineLengths # {} /\ LineLengths \subseteq 1..Len(lineBuf)
  BY DEF TakeLine, HasLine, LineLengths
<1>2. Min(LineLengths) \in LineLengths /\ \A m \in LineLengths : Min(LineLengths) <= m
  BY <1>1, Least
<1>. QED
  BY <1>1, <1>2 DEF TakeLine, childVars, asyncVars

LEMMA Widened ==
  ASSUME NEW s \in Seq(1..taken), taken \in Nat, NEW m \in Nat, taken <= m
  PROVE  s \in Seq(1..m) /\ s \in Seq(Nat)
<1>1. 1..taken \subseteq 1..m /\ 1..taken \subseteq Nat
  OBVIOUS
<1>. QED
  BY <1>1

\* What was drained stays so when more is.
LEMMA Grown ==
  ASSUME TokenTypes, NEW m \in Nat, taken <= m
  PROVE  /\ lineBuf \in Seq(1..m) /\ pending \in Seq(1..m) /\ asyncPending \in Seq(1..m)
         /\ log \in Seq(1..m) /\ \A t \in Task : drained[t] \in Seq(1..m)
         /\ given \subseteq 1..m /\ lost \subseteq 1..m
<1>0. taken \in Nat
  BY TakeAssumption DEF TokenTypes
<1>1. /\ lineBuf \in Seq(1..m) /\ pending \in Seq(1..m) /\ asyncPending \in Seq(1..m)
      /\ log \in Seq(1..m)
  BY <1>0, Widened DEF TokenTypes
<1>2. \A t \in Task : drained[t] \in Seq(1..m)
  BY <1>0, Widened DEF TokenTypes
<1>3. 1..taken \subseteq 1..m
  BY <1>0
<1>. QED
  BY <1>1, <1>2, <1>3 DEF TokenTypes

\* What the blocking writer is given of what is drained.
LEMMA ReadTypes ==
  ASSUME TokenTypes, NEW n \in Nat, NEW j \in Nat, j <= n, taken + n <= printed,
         LogWrites(pending \o Interval(taken, taken + j))
  PROVE  /\ pending' \in Seq(1..(taken + n)) /\ log' \in Seq(1..(taken + n))
         /\ offset' \in Nat /\ offset' <= Len(log') /\ offset' + Len(pending') <= taken + n
<1>0. taken \in Nat /\ offset \in Nat /\ offset <= Len(log) /\ offset + Len(pending) <= taken
  BY TakeAssumption DEF TokenTypes
<1>1. PICK m \in Nat : m = taken + n /\ taken <= m /\ taken + j \in Nat /\ taken + j <= m
  BY <1>0
<1>2. pending \in Seq(1..m) /\ log \in Seq(1..m)
  BY <1>1, Grown
<1>3. PICK new \in Seq(1..m) : new = Interval(taken, taken + j) /\ Len(new) = j
  <2>1. Interval(taken, taken + j) \in Seq(1..(taken + j)) /\ Len(Interval(taken, taken + j)) = j
    BY <1>0, Fresh
  <2>2. Interval(taken, taken + j) \in Seq(1..m)
    BY <1>1, <2>1, SeqGrows
  <2>. QED
    BY <2>1, <2>2
<1>4. PICK all \in Seq(1..m) : all = pending \o new /\ Len(all) = Len(pending) + j
  <2>1. pending \o new \in Seq(1..m) /\ Len(pending \o new) = Len(pending) + Len(new)
    BY <1>2, Joined
  <2>. QED
    BY <1>3, <2>1
<1>5. offset + Len(all) <= m
  <2>1. Len(pending) \in Nat
    BY <1>2
  <2>. QED
    BY <1>0, <1>1, <1>4, <2>1
<1>6. LogWrites(all)
  BY <1>3, <1>4
<1>7. /\ pending' \in Seq(1..m) /\ log' \in Seq(1..m)
      /\ offset' \in Nat /\ offset' <= Len(log') /\ offset' + Len(pending') <= m
  BY <1>0, <1>2, <1>5, <1>6, WriteTypes
<1>. QED
  BY <1>1, <1>7

LEMMA TokenTypesStep ==
  ASSUME TokenTypes, CallTypes, Next
  PROVE  TokenTypes'
<1>0. /\ taken \in Nat /\ printed \in Nat /\ MaxTokens \in Nat /\ taken \in 0..printed
      /\ offset \in Nat /\ offset <= Len(log) /\ offset + Len(pending) <= taken
      /\ log \in Seq(1..taken) /\ pending \in Seq(1..taken)
  BY TakeAssumption DEF TokenTypes
<1>1. CASE Still
  <2>1. /\ pending' \in Seq(1..taken) /\ log' \in Seq(1..taken)
        /\ offset' \in Nat /\ offset' <= Len(log') /\ offset' + Len(pending') <= taken
    <3>1. CASE LogWrites(pending) \/ Flush
      <4>1. LogWrites(pending)
        BY <1>0, <3>1, FlushWrites
      <4>. QED
        BY <1>0, <4>1, WriteTypes
    <3>2. CASE UNCHANGED <<pending, offset, log>>
      BY <1>0, <3>2
    <3>. QED
      BY <1>1, <3>1, <3>2 DEF Still
  <2>2. printed' \in 0..MaxTokens /\ taken \in 0..printed'
    BY <1>0, <1>1 DEF Still, TokenTypes
  <2>. QED
    BY <1>1, <2>1, <2>2 DEF Still, TokenTypes
<1>2. ASSUME NEW c \in Caller, TakeLine(c)
      PROVE  TokenTypes'
  <2>1. PICK n \in 1..Len(lineBuf) :
           /\ lines' = Append(lines, SubSeq(lineBuf, 1, n))
           /\ lineBuf' = SubSeq(lineBuf, n + 1, Len(lineBuf))
           /\ given' = given \cup ToSet(SubSeq(lineBuf, 1, n))
           /\ UNCHANGED <<printed, taken, pending, offset, asyncPending, log, drained, lost>>
    BY <1>2, LineTaken
  <2>2. lineBuf \in Seq(Nat) /\ lineBuf \in Seq(1..taken) /\ n \in 0..Len(lineBuf)
    BY <1>0, Widened DEF TokenTypes
  <2>3. SubSeq(lineBuf, 1, n) \in Seq(Nat)
    BY <2>2, Cut
  <2>4. lines' \in Seq(Seq(Nat))
    BY <2>1, <2>3 DEF TokenTypes
  <2>5. lineBuf' \in Seq(1..taken) /\ SubSeq(lineBuf, 1, n) \in Seq(1..taken)
    BY <2>1, <2>2, CutAt
  <2>6. given' \subseteq 1..taken
    <3>1. ToSet(SubSeq(lineBuf, 1, n)) \subseteq 1..taken
      BY <2>5, SetOfSeq
    <3>. QED
      BY <2>1, <3>1 DEF TokenTypes
  <2>. QED
    BY <2>1, <2>4, <2>5, <2>6 DEF TokenTypes
<1>d. ASSUME NEW n \in Nat, taken' = taken + n, taken + n <= printed, UNCHANGED printed,
             pending' \in Seq(1..(taken + n)), log' \in Seq(1..(taken + n)), offset' \in Nat,
             offset' <= Len(log'), offset' + Len(pending') <= taken + n,
             lineBuf' \in Seq(1..(taken + n)), drained' \in [Task -> Seq(1..(taken + n))],
             given' \subseteq 1..(taken + n), lost' \subseteq 1..(taken + n),
             UNCHANGED <<asyncPending, lines>>
      PROVE  TokenTypes'
  <2>1. taken + n \in Nat /\ taken <= taken + n
    BY <1>0
  <2>2. asyncPending' \in Seq(1..(taken + n))
    BY <1>d, <2>1, Grown
  <2>3. printed' \in 0..MaxTokens /\ taken + n \in 0..printed'
    BY <1>0, <1>d, <2>1 DEF TokenTypes
  <2>. QED
    BY <1>d, <2>2, <2>3 DEF TokenTypes
<1>e. ASSUME NEW n \in Nat
      PROVE  /\ taken + n \in Nat /\ taken <= taken + n
             /\ Interval(taken, taken + n) \in Seq(1..(taken + n))
             /\ ToSet(Interval(taken, taken + n)) \subseteq 1..(taken + n)
             /\ lineBuf \in Seq(1..(taken + n)) /\ drained \in [Task -> Seq(1..(taken + n))]
             /\ given \subseteq 1..(taken + n) /\ lost \subseteq 1..(taken + n)
             /\ pending \in Seq(1..(taken + n)) /\ log \in Seq(1..(taken + n))
             /\ offset + Len(pending) <= taken + n
  <2>1. taken + n \in Nat /\ taken <= taken + n
    BY <1>0
  <2>2. Interval(taken, taken + n) \in Seq(1..(taken + n))
    BY <1>0, Fresh
  <2>3. ToSet(Interval(taken, taken + n)) \subseteq 1..(taken + n)
    BY <2>2, SetOfSeq
  <2>4. /\ lineBuf \in Seq(1..(taken + n)) /\ \A t \in Task : drained[t] \in Seq(1..(taken + n))
        /\ given \subseteq 1..(taken + n) /\ lost \subseteq 1..(taken + n)
        /\ pending \in Seq(1..(taken + n)) /\ log \in Seq(1..(taken + n))
    BY <2>1, Grown
  <2>5. drained \in [Task -> Seq(1..(taken + n))]
    BY <2>4 DEF TokenTypes
  <2>6. Len(pending) \in Nat
    BY <1>0
  <2>. QED
    BY <1>0, <2>1, <2>2, <2>3, <2>4, <2>5, <2>6
<1>3. ASSUME NEW c \in Caller, ReadSome(c)
      PROVE  TokenTypes'
  <2>1. PICK n \in 1..MaxTake :
          LET new == Interval(taken, taken + n) IN
          /\ Drain(n) /\ LogWrites(pending \o new)
          /\ \/ lineBuf' = lineBuf \o new /\ UNCHANGED given
             \/ given' = given \cup ToSet(new) /\ UNCHANGED lineBuf
    BY <1>3 DEF ReadSome
  <2>2. UNCHANGED <<printed, asyncPending, drained, lines, lost>>
    BY <1>3 DEF ReadSome, childVars, asyncVars
  <2>3. n \in Nat /\ taken' = taken + n /\ taken + n <= printed /\ n <= n
    BY <1>0, <2>1, Drained
  <2>4. /\ pending' \in Seq(1..(taken + n)) /\ log' \in Seq(1..(taken + n))
        /\ offset' \in Nat /\ offset' <= Len(log') /\ offset' + Len(pending') <= taken + n
    BY <2>1, <2>3, ReadTypes
  <2>5. lineBuf' \in Seq(1..(taken + n))
    <3>1. lineBuf \o Interval(taken, taken + n) \in Seq(1..(taken + n))
      BY <1>e, <2>3, Joined
    <3>. QED
      BY <1>e, <2>1, <2>3, <3>1
  <2>6. given' \subseteq 1..(taken + n)
    BY <1>e, <2>1, <2>3
  <2>. QED
    BY <1>d, <1>e, <2>2, <2>3, <2>4, <2>5, <2>6
<1>4. ASSUME NEW c \in Caller, ReadFails(c)
      PROVE  TokenTypes'
  <2>1. PICK n \in 0..MaxTake, j \in 0..MaxTake :
          /\ j <= n /\ n <= Waiting /\ taken' = taken + n
          /\ LogWrites(pending \o Interval(taken, taken + j))
          /\ lost' = lost \cup ToSet(Interval(taken, taken + n))
    BY <1>4 DEF ReadFails, Loses
  <2>2. UNCHANGED <<printed, lineBuf, asyncPending, drained, lines, given>>
    BY <1>4 DEF ReadFails, childVars, asyncVars
  <2>3. n \in Nat /\ j \in Nat /\ taken + n <= printed
    BY <1>0, <2>1, TakeAssumption DEF Waiting
  <2>4. /\ pending' \in Seq(1..(taken + n)) /\ log' \in Seq(1..(taken + n))
        /\ offset' \in Nat /\ offset' <= Len(log') /\ offset' + Len(pending') <= taken + n
    BY <2>1, <2>3, ReadTypes
  <2>5. lost' \subseteq 1..(taken + n)
    BY <1>e, <2>1, <2>3
  <2>. QED
    BY <1>d, <1>e, <2>1, <2>2, <2>3, <2>4, <2>5
<1>5. ASSUME NEW t \in Task, AsyncRead(t)
      PROVE  TokenTypes'
  <2>1. PICK n \in 1..MaxTake :
          /\ Drain(n)
          /\ drained' = [drained EXCEPT ![t] = Interval(taken, taken + n)]
    BY <1>5 DEF AsyncRead
  <2>2. UNCHANGED <<printed, lineBuf, pending, offset, asyncPending, log, given, lines, lost>>
    BY <1>5 DEF AsyncRead, childVars, directVars, asyncVars
  <2>3. n \in Nat /\ taken' = taken + n /\ taken + n <= printed
    BY <1>0, <2>1, Drained
  <2>4. drained' \in [Task -> Seq(1..(taken + n))]
    BY <1>e, <2>1, <2>3
  <2>. QED
    BY <1>0, <1>d, <1>e, <2>2, <2>3, <2>4
<1>6. ASSUME NEW t \in Task, AsyncReadFails(t)
      PROVE  TokenTypes'
  <2>1. PICK n \in 0..MaxTake :
          /\ n <= Waiting /\ taken' = taken + n
          /\ lost' = lost \cup ToSet(Interval(taken, taken + n))
    BY <1>6 DEF AsyncReadFails, Loses
  <2>2. UNCHANGED <<printed, lineBuf, pending, offset, asyncPending, log, given, lines, drained>>
    BY <1>6 DEF AsyncReadFails, childVars, directVars, asyncVars
  <2>3. n \in Nat /\ taken + n <= printed
    BY <1>0, <2>1, TakeAssumption DEF Waiting
  <2>4. lost' \subseteq 1..(taken + n)
    BY <1>e, <2>1, <2>3
  <2>. QED
    BY <1>0, <1>d, <1>e, <2>1, <2>2, <2>3, <2>4
<1>f. ASSUME NEW t \in Task, NEW some \in Seq(1..taken), AppendWrites(asyncPending \o some),
             drained' = [drained EXCEPT ![t] = <<>>],
             given' \subseteq 1..taken, lost' \subseteq 1..taken,
             UNCHANGED <<printed, taken, lineBuf, pending, offset, lines>>
      PROVE  TokenTypes'
  <2>1. asyncPending \o some \in Seq(1..taken)
    BY Joined DEF TokenTypes
  <2>2. log' \in Seq(1..taken) /\ asyncPending' \in Seq(1..taken) /\ Len(log) <= Len(log')
    BY <1>0, <1>f, <2>1, AppendTypes
  <2>3. drained' \in [Task -> Seq(1..taken)]
    BY <1>f DEF TokenTypes
  <2>4. offset <= Len(log')
    <3>1. Len(log) \in Nat /\ Len(log') \in Nat
      BY <1>0, <2>2
    <3>. QED
      BY <1>0, <2>2, <3>1
  <2>. QED
    BY <1>f, <2>2, <2>3, <2>4 DEF TokenTypes
<1>7. ASSUME NEW t \in Task, AsyncLog(t) \/ AsyncLogFails(t)
      PROVE  TokenTypes'
  <2>1. drained[t] \in Seq(1..taken) /\ ToSet(drained[t]) \subseteq 1..taken
    <3>1. drained[t] \in Seq(1..taken)
      BY DEF TokenTypes
    <3>. QED
      BY <3>1, SetOfSeq
  <2>2. /\ UNCHANGED <<printed, taken, lineBuf, pending, offset, lines>>
        /\ drained' = [drained EXCEPT ![t] = <<>>]
        /\ given' \subseteq given \cup ToSet(drained[t])
        /\ lost' \subseteq lost \cup ToSet(drained[t])
    BY <1>7 DEF AsyncLog, AsyncLogFails, Loses, childVars, directVars
  <2>3. given' \subseteq 1..taken /\ lost' \subseteq 1..taken
    BY <2>1, <2>2 DEF TokenTypes
  <2>4. CASE AsyncLog(t)
    <3>1. AppendWrites(asyncPending \o drained[t])
      BY <2>4 DEF AsyncLog
    <3>. QED
      BY <1>f, <2>1, <2>2, <2>3, <3>1
  <2>5. CASE AsyncLogFails(t)
    <3>1. PICK j \in 0..Len(drained[t]) : AppendWrites(asyncPending \o SubSeq(drained[t], 1, j))
      BY <2>5 DEF AsyncLogFails
    <3>2. SubSeq(drained[t], 1, j) \in Seq(1..taken)
      BY <2>1, CutAt
    <3>. QED
      BY <1>f, <2>2, <2>3, <3>1, <3>2
  <2>. QED
    BY <1>7, <2>4, <2>5
<1>. QED
  BY <1>1, <1>2, <1>3, <1>4, <1>5, <1>6, <1>7, Effects

-----------------------------------------------------------------------------
(* Every token is in one place.                                            *)

InBuffer  == ToSet(lineBuf)
With(t)   == ToSet(drained[t])

\* ReadOnce, token by token.
Places ==
  /\ \A x \in 1..taken :
       x \in given \/ x \in InBuffer \/ x \in lost \/ \E t \in Task : x \in With(t)
  /\ given \subseteq 1..taken /\ InBuffer \subseteq 1..taken /\ lost \subseteq 1..taken
  /\ \A t \in Task : With(t) \subseteq 1..taken
  /\ \A x \in InBuffer : x \notin given
  /\ \A x \in lost : x \notin given /\ x \notin InBuffer
  /\ \A t \in Task : \A x \in With(t) : x \notin given /\ x \notin InBuffer /\ x \notin lost
  /\ \A t, u \in Task : t # u => \A x \in With(t) : x \notin With(u)
  /\ IsInjective(lineBuf) /\ \A t \in Task : IsInjective(drained[t])

LEMMA PlacesOnce == ReadOnce <=> Places
<1>1. ASSUME ReadOnce PROVE Places
  <2>1. given \cup ToSet(lineBuf) \cup lost \cup UNION {ToSet(drained[t]) : t \in Task} = 1..taken
    BY <1>1 DEF ReadOnce
  <2>2. /\ \A x \in 1..taken :
             x \in given \/ x \in InBuffer \/ x \in lost \/ \E t \in Task : x \in With(t)
        /\ given \subseteq 1..taken /\ InBuffer \subseteq 1..taken /\ lost \subseteq 1..taken
        /\ \A t \in Task : With(t) \subseteq 1..taken
    BY <2>1 DEF InBuffer, With
  <2>3. /\ \A x \in InBuffer : x \notin given
        /\ \A x \in lost : x \notin given /\ x \notin InBuffer
        /\ \A t \in Task : \A x \in With(t) : x \notin given /\ x \notin InBuffer /\ x \notin lost
        /\ \A t, u \in Task : t # u => \A x \in With(t) : x \notin With(u)
    BY <1>1 DEF ReadOnce, InBuffer, With
  <2>. QED
    BY <1>1, <2>2, <2>3 DEF ReadOnce, Places
<1>2. ASSUME Places PROVE ReadOnce
  <2>1. given \cup ToSet(lineBuf) \cup lost \cup UNION {ToSet(drained[t]) : t \in Task} = 1..taken
    <3>1. \A x \in UNION {ToSet(drained[t]) : t \in Task} : x \in 1..taken
      BY <1>2 DEF Places, With
    <3>2. \A x \in 1..taken : x \in given \/ x \in ToSet(lineBuf) \/ x \in lost
                                \/ x \in UNION {ToSet(drained[t]) : t \in Task}
      BY <1>2 DEF Places, With, InBuffer
    <3>3. given \subseteq 1..taken /\ ToSet(lineBuf) \subseteq 1..taken /\ lost \subseteq 1..taken
      BY <1>2 DEF Places, InBuffer
    <3>. QED
      BY <3>1, <3>2, <3>3
  <2>. QED
    BY <1>2, <2>1 DEF ReadOnce, Places, InBuffer, With
<1>. QED
  BY <1>1, <1>2

LEMMA OnceStep ==
  ASSUME TokenTypes, PlaceInv, ReadOnce, Next
  PROVE  ReadOnce'
<1>0. taken \in Nat /\ printed \in Nat /\ taken \in 0..printed
  BY TakeAssumption DEF TokenTypes
<1>. SUFFICES Places'
  BY PlacesOnce, PTL
<1>p. Places
  BY PlacesOnce
<1>n. ASSUME NEW n \in Nat, taken' = taken + n
      PROVE  /\ ToSet(Interval(taken, taken + n)) = (taken + 1)..(taken + n)
             /\ IsInjective(Interval(taken, taken + n)) /\ Interval(taken, taken + n) \in Seq(Nat)
             /\ 1..taken' = (1..taken) \cup ((taken + 1)..(taken + n))
             /\ \A x \in (taken + 1)..(taken + n) : x \notin 1..taken
  <2>1. /\ 1..(taken + n) = (1..taken) \cup ((taken + 1)..(taken + n))
        /\ \A x \in (taken + 1)..(taken + n) : x \notin 1..taken
    BY <1>0
  <2>. QED
    BY <1>0, <1>n, <2>1, Fresh
<1>1. CASE Still
  <2>1. UNCHANGED <<taken, given, lineBuf, drained, lost>>
    BY <1>1 DEF Still
  <2>. QED
    BY <1>p, <2>1 DEF Places, InBuffer, With
<1>2. ASSUME NEW c \in Caller, TakeLine(c)
      PROVE  Places'
  <2>1. PICK n \in 1..Len(lineBuf) :
           /\ lineBuf' = SubSeq(lineBuf, n + 1, Len(lineBuf))
           /\ given' = given \cup ToSet(SubSeq(lineBuf, 1, n))
           /\ UNCHANGED <<taken, drained, lost>>
    BY <1>2, LineTaken
  <2>2. lineBuf \in Seq(Nat)
    BY <1>0, Widened DEF TokenTypes
  <2>3. PICK front, back :
          /\ front = SubSeq(lineBuf, 1, n) /\ back = SubSeq(lineBuf, n + 1, Len(lineBuf))
          /\ InBuffer = ToSet(front) \cup ToSet(back)
          /\ \A x \in ToSet(front) : x \notin ToSet(back)
          /\ IsInjective(back)
    <3>1. /\ ToSet(lineBuf)
               = ToSet(SubSeq(lineBuf, 1, n)) \cup ToSet(SubSeq(lineBuf, n + 1, Len(lineBuf)))
          /\ IsInjective(lineBuf)
               => /\ ToSet(SubSeq(lineBuf, 1, n)) \cap ToSet(SubSeq(lineBuf, n + 1, Len(lineBuf)))
                       = {}
                  /\ IsInjective(SubSeq(lineBuf, n + 1, Len(lineBuf)))
      BY <2>2, CutSet
    <3>. QED
      BY <1>p, <3>1 DEF Places, InBuffer
  <2>4. InBuffer' = ToSet(back) /\ given' = given \cup ToSet(front) /\ IsInjective(lineBuf')
    BY <2>1, <2>3 DEF InBuffer
  <2>5. \A t \in Task : With(t)' = With(t)
    BY <2>1 DEF With
  <2>. QED
    <3>1. UNCHANGED taken /\ \A x \in InBuffer : x \in ToSet(front) \/ x \in InBuffer'
      BY <2>1, <2>3, <2>4
    <3>2. /\ \A x \in InBuffer' : x \in InBuffer /\ x \notin given'
          /\ \A x \in given' : x \in given \/ x \in InBuffer
          /\ \A x \in given : x \in given'
      BY <1>p, <2>3, <2>4 DEF Places
    <3>3. \A x \in 1..taken : x \in given' \/ x \in InBuffer' \/ x \in lost
                                \/ \E t \in Task : x \in With(t)'
      BY <1>p, <2>4, <2>5, <3>1, <3>2 DEF Places
    <3>4. given' \subseteq 1..taken /\ InBuffer' \subseteq 1..taken
      BY <1>p, <3>2 DEF Places
    <3>5. \A t \in Task : \A x \in With(t)' : x \notin given' /\ x \notin InBuffer'
      BY <1>p, <2>5, <3>2 DEF Places
    <3>6. \A x \in lost' : x \notin given' /\ x \notin InBuffer'
      BY <1>p, <2>1, <3>2 DEF Places
    <3>. QED
      BY <1>p, <2>1, <2>4, <2>5, <3>1, <3>2, <3>3, <3>4, <3>5, <3>6 DEF Places
<1>3. ASSUME NEW c \in Caller, ReadSome(c)
      PROVE  Places'
  <2>1. PICK n \in 1..MaxTake :
          LET new == Interval(taken, taken + n) IN
          /\ Drain(n)
          /\ \/ lineBuf' = lineBuf \o new /\ UNCHANGED given
             \/ given' = given \cup ToSet(new) /\ UNCHANGED lineBuf
    BY <1>3 DEF ReadSome
  <2>2. UNCHANGED <<drained, lost>> /\ n \in Nat /\ taken' = taken + n
    BY <1>0, <1>3, <2>1, Drained DEF ReadSome
  <2>3. PICK new, N :
          /\ new \in Seq(Nat)
          /\ new = Interval(taken, taken + n) /\ ToSet(new) = N /\ IsInjective(new)
          /\ 1..taken' = (1..taken) \cup N /\ \A x \in N : x \notin 1..taken
    BY <1>n, <2>2
  <2>4. \A t \in Task : With(t)' = With(t)
    BY <2>2 DEF With
  <2>5. CASE lineBuf' = lineBuf \o new /\ UNCHANGED given
    <3>1. lineBuf \in Seq(Nat)
      BY <1>0, Widened DEF TokenTypes
    <3>2. ToSet(lineBuf) \cap ToSet(new) = {} /\ IsInjective(lineBuf)
      BY <1>p, <2>3 DEF Places, InBuffer
    <3>3. InBuffer' = InBuffer \cup N /\ IsInjective(lineBuf')
      BY <2>3, <2>5, <3>1, <3>2, ConcatSet DEF InBuffer
    <3>4. /\ \A x \in 1..taken' : x \in 1..taken \/ x \in InBuffer'
          /\ 1..taken \subseteq 1..taken' /\ InBuffer' \subseteq 1..taken'
          /\ InBuffer \subseteq InBuffer'
      BY <1>p, <2>3, <3>3 DEF Places
    <3>5. \A x \in InBuffer' : x \in InBuffer \/ x \notin 1..taken
      BY <2>3, <3>3
    <3>6. \A t \in Task : \A x \in With(t)' : x \notin given' /\ x \notin InBuffer'
      BY <1>p, <2>4, <2>5, <3>5 DEF Places
    <3>7. /\ \A x \in InBuffer' : x \notin given'
          /\ \A x \in lost' : x \notin given' /\ x \notin InBuffer'
      BY <1>p, <2>2, <2>5, <3>5 DEF Places
    <3>8. \A x \in 1..taken' : x \in given' \/ x \in InBuffer' \/ x \in lost'
                                 \/ \E t \in Task : x \in With(t)'
      BY <1>p, <2>2, <2>4, <2>5, <3>4 DEF Places
    <3>. QED
      BY <1>p, <2>2, <2>4, <2>5, <3>3, <3>4, <3>6, <3>7, <3>8 DEF Places
  <2>6. CASE given' = given \cup N /\ UNCHANGED lineBuf
    <3>1. InBuffer' = InBuffer
      BY <2>6 DEF InBuffer
    <3>2. /\ \A x \in 1..taken' : x \in 1..taken \/ x \in given'
          /\ 1..taken \subseteq 1..taken' /\ given' \subseteq 1..taken' /\ given \subseteq given'
      BY <1>p, <2>3, <2>6 DEF Places
    <3>3. \A x \in given' : x \in given \/ x \notin 1..taken
      BY <2>3, <2>6
    <3>4. \A t \in Task : \A x \in With(t)' : x \notin given' /\ x \notin InBuffer'
      BY <1>p, <2>4, <3>1, <3>3 DEF Places
    <3>5. /\ \A x \in InBuffer' : x \notin given'
          /\ \A x \in lost' : x \notin given' /\ x \notin InBuffer'
      BY <1>p, <2>2, <3>1, <3>3 DEF Places
    <3>6. \A x \in 1..taken' : x \in given' \/ x \in InBuffer' \/ x \in lost'
                                 \/ \E t \in Task : x \in With(t)'
      BY <1>p, <2>2, <2>4, <3>1, <3>2 DEF Places
    <3>. QED
      BY <1>p, <2>2, <2>4, <2>6, <3>1, <3>2, <3>4, <3>5, <3>6 DEF Places
  <2>. QED
    BY <2>1, <2>3, <2>5, <2>6
<1>4. ASSUME NEW n \in 0..MaxTake, taken' = taken + n,
             lost' = lost \cup ToSet(Interval(taken, taken + n)),
             UNCHANGED <<given, lineBuf, drained>>
      PROVE  Places'
  <2>0. n \in Nat
    BY TakeAssumption
  <2>1. PICK N :
          /\ lost' = lost \cup N
          /\ 1..taken' = (1..taken) \cup N /\ \A x \in N : x \notin 1..taken
    BY <1>4, <1>n, <2>0
  <2>2. InBuffer' = InBuffer /\ \A t \in Task : With(t)' = With(t)
    BY <1>4 DEF InBuffer, With
  <2>3. /\ \A x \in 1..taken' : x \in 1..taken \/ x \in lost'
        /\ 1..taken \subseteq 1..taken' /\ lost' \subseteq 1..taken' /\ lost \subseteq lost'
        /\ \A x \in lost' : x \in lost \/ x \notin 1..taken
    BY <1>p, <2>1 DEF Places
  <2>4. /\ \A x \in lost' : x \notin given' /\ x \notin InBuffer'
        /\ \A t \in Task : \A x \in With(t)' : x \notin lost'
    BY <1>4, <1>p, <2>2, <2>3 DEF Places
  <2>5. \A x \in 1..taken' : x \in given' \/ x \in InBuffer' \/ x \in lost'
                               \/ \E t \in Task : x \in With(t)'
    BY <1>4, <1>p, <2>2, <2>3 DEF Places
  <2>. QED
    BY <1>4, <1>p, <2>2, <2>3, <2>4, <2>5 DEF Places
<1>5. ASSUME NEW c \in Caller, ReadFails(c)
      PROVE  Places'
  <2>1. PICK n \in 0..MaxTake :
          taken' = taken + n /\ lost' = lost \cup ToSet(Interval(taken, taken + n))
    BY <1>5 DEF ReadFails, Loses
  <2>2. UNCHANGED <<given, lineBuf, drained>>
    BY <1>5 DEF ReadFails
  <2>. QED
    BY <1>4, <2>1, <2>2
<1>6. ASSUME NEW t \in Task, AsyncReadFails(t)
      PROVE  Places'
  <2>1. PICK n \in 0..MaxTake :
          taken' = taken + n /\ lost' = lost \cup ToSet(Interval(taken, taken + n))
    BY <1>6 DEF AsyncReadFails, Loses
  <2>2. UNCHANGED <<given, lineBuf, drained>>
    BY <1>6 DEF AsyncReadFails, directVars
  <2>. QED
    BY <1>4, <2>1, <2>2
<1>7. ASSUME NEW t \in Task, AsyncRead(t)
      PROVE  Places'
  <2>1. PICK n \in 1..MaxTake :
          /\ Drain(n)
          /\ drained' = [drained EXCEPT ![t] = Interval(taken, taken + n)]
    BY <1>7 DEF AsyncRead
  <2>2. UNCHANGED <<lineBuf, given, lost>> /\ pc[t] = "await" /\ n \in Nat /\ taken' = taken + n
    BY <1>0, <1>7, <2>1, Drained DEF AsyncRead, directVars
  <2>3. PICK new, N :
          /\ new = Interval(taken, taken + n) /\ ToSet(new) = N /\ IsInjective(new)
          /\ 1..taken' = (1..taken) \cup N /\ \A x \in N : x \notin 1..taken
    BY <1>n, <2>2
  <2>4. With(t) = {}
    <3>1. drained[t] = <<>>
      BY <2>2 DEF PlaceInv
    <3>. QED
      BY <3>1, EmptySet DEF With
  <2>5. drained'[t] = new /\ \A u \in Task : u # t => drained'[u] = drained[u]
    BY <2>1, <2>3 DEF TokenTypes
  <2>6. With(t)' = N /\ \A u \in Task : u # t => With(u)' = With(u)
    BY <2>3, <2>5 DEF With
  <2>7. InBuffer' = InBuffer
    BY <2>2 DEF InBuffer
  <2>. QED
    BY <1>p, <2>2, <2>3, <2>4, <2>5, <2>6, <2>7 DEF Places
<1>8. ASSUME NEW t \in Task, AsyncLog(t) \/ AsyncLogFails(t)
      PROVE  Places'
  <2>1. /\ UNCHANGED <<taken, lineBuf>>
        /\ \/ given' = given \cup With(t) /\ UNCHANGED lost
           \/ lost' = lost \cup With(t) /\ UNCHANGED given
        /\ drained' = [drained EXCEPT ![t] = <<>>]
    BY <1>8 DEF AsyncLog, AsyncLogFails, Loses, directVars, With
  <2>2. drained'[t] = <<>> /\ \A u \in Task : u # t => drained'[u] = drained[u]
    BY <2>1 DEF TokenTypes
  <2>3. With(t)' = {} /\ IsInjective(drained'[t]) /\ \A u \in Task : u # t => With(u)' = With(u)
    BY <2>2, EmptySet DEF With
  <2>4. InBuffer' = InBuffer
    BY <2>1 DEF InBuffer
  <2>5. /\ \A x \in given' : x \in given \/ (x \in With(t) /\ x \notin lost')
        /\ \A x \in lost' : x \in lost \/ (x \in With(t) /\ x \notin given')
        /\ given \subseteq given' /\ lost \subseteq lost'
        /\ \A x \in With(t) : x \in given' \/ x \in lost'
    BY <1>p, <2>1 DEF Places
  <2>6. \A x \in 1..taken : x \in given' \/ x \in InBuffer' \/ x \in lost'
                              \/ \E u \in Task : x \in With(u)'
    BY <1>p, <2>3, <2>4, <2>5 DEF Places
  <2>7. /\ given' \subseteq 1..taken /\ lost' \subseteq 1..taken
        /\ \A x \in InBuffer' : x \notin given'
    BY <1>p, <2>4, <2>5 DEF Places
  <2>8. \A x \in lost' : x \notin given' /\ x \notin InBuffer'
    BY <1>p, <2>4, <2>5 DEF Places
  <2>9. \A u \in Task : \A x \in With(u)' : x \notin given' /\ x \notin InBuffer' /\ x \notin lost'
    BY <1>p, <2>3, <2>4, <2>5 DEF Places
  <2>10. \A u, v \in Task : u # v => \A x \in With(u)' : x \notin With(v)'
    BY <1>p, <2>3 DEF Places
  <2>11. \A u \in Task : With(u)' \subseteq 1..taken /\ IsInjective(drained'[u])
    BY <1>p, <2>2, <2>3 DEF Places
  <2>. QED
    BY <1>p, <2>1, <2>4, <2>6, <2>7, <2>8, <2>9, <2>10, <2>11 DEF Places
<1>. QED
  BY <1>1, <1>2, <1>3, <1>5, <1>6, <1>7, <1>8, Effects

\* The buffer never holds more than was printed.
LEMMA TypesOK == CallTypes /\ TokenTypes /\ ReadOnce => TypeOK
<1>. SUFFICES ASSUME CallTypes, TokenTypes, ReadOnce PROVE TypeOK
  OBVIOUS
<1>0. taken \in Nat /\ MaxTokens \in Nat /\ taken <= MaxTokens /\ 1..taken \subseteq Tokens
  BY TakeAssumption DEF TokenTypes, Tokens
<1>1. lineBuf \in BoundedSeq(Tokens, MaxTokens)
  <2>1. Len(lineBuf) <= taken
    BY <1>0, DistinctTokens DEF TokenTypes, ReadOnce
  <2>2. PICK m \in 0..MaxTokens : m = Len(lineBuf)
    BY <1>0, <2>1 DEF TokenTypes
  <2>3. lineBuf \in [1..m -> Tokens]
    <3>1. lineBuf \in Seq(Tokens)
      BY <1>0 DEF TokenTypes
    <3>. QED
      BY <2>2, <3>1
  <2>. QED
    BY <2>3, Zenon DEF BoundedSeq, SeqOf
<1>2. offset \in 0..MaxTokens
  <2>1. Len(pending) \in Nat
    BY DEF TokenTypes
  <2>. QED
    BY <1>0, <2>1 DEF TokenTypes
<1>3. \A s \in {pending, asyncPending, log} : ToSet(s) \subseteq Tokens
  <2>1. \A s \in {pending, asyncPending, log} : s \in Seq(1..taken)
    BY DEF TokenTypes
  <2>. QED
    BY <1>0, <2>1, SetOfSeq
<1>. QED
  BY <1>0, <1>1, <1>2, <1>3 DEF TypeOK, CallTypes, TokenTypes, Place, Tokens

-----------------------------------------------------------------------------
(* Lines.                                                                  *)

Rising(s) == \A i, j \in 1..Len(s) : i < j => s[i] < s[j]

\* What is cut off behind the first newline of a rising buffer is a line, and
\* what is left comes after it.
LEMMA LineCut ==
  ASSUME NEW s \in Seq(Nat), Rising(s), NEW n \in 1..Len(s), s[n] % 2 = 1,
         \A i \in 1..Len(s) : s[i] % 2 = 1 => n <= i
  PROVE  LET front == SubSeq(s, 1, n)
             back  == SubSeq(s, n + 1, Len(s)) IN
         /\ IsLine(front) /\ Rising(back)
         /\ \A x \in ToSet(front), y \in ToSet(back) : x < y
<1>1. PICK front \in Seq(Nat), back \in Seq(Nat) :
        /\ front = SubSeq(s, 1, n) /\ back = SubSeq(s, n + 1, Len(s))
        /\ Len(front) = n /\ Len(back) = Len(s) - n
        /\ \A i \in 1..n : front[i] = s[i]
        /\ \A i \in 1..(Len(s) - n) : back[i] = s[n + i]
  <2>1. /\ SubSeq(s, 1, n) \in Seq(Nat) /\ Len(SubSeq(s, 1, n)) = n
        /\ SubSeq(s, n + 1, Len(s)) \in Seq(Nat) /\ Len(SubSeq(s, n + 1, Len(s))) = Len(s) - n
        /\ \A i \in 1..n : SubSeq(s, 1, n)[i] = s[i]
        /\ \A i \in 1..(Len(s) - n) : SubSeq(s, n + 1, Len(s))[i] = s[n + i]
    BY Cut
  <2>. QED
    BY ONLY <2>1
<1>2. PICK m \in Nat : Len(s) = n + m /\ Len(s) - n = m
  <2>1. Len(s) - n \in Nat /\ Len(s) = n + (Len(s) - n)
    OBVIOUS
  <2>. QED
    BY <2>1
<1>3. /\ n \in Nat /\ n # 0 /\ 1..n \subseteq 1..Len(s)
      /\ \A i \in 1..m : n + i \in 1..Len(s)
      /\ \A i \in 1..n, j \in 1..m : i < n + j
      /\ \A i, j \in 1..m : i < j => n + i < n + j
      /\ \A i \in 1..n : i # n => ~(n <= i)
  BY <1>2
<1>4. IsLine(front)
  <2>1. front # <<>>
    <3>1. Len(<<>>) = 0
      OBVIOUS
    <3>. QED
      BY <1>1, <1>3, <3>1
  <2>2. \A i \in 1..n : front[i] % 2 = 1 <=> i = n
    BY <1>1, <1>3
  <2>3. \A i, j \in 1..n : i < j => front[i] < front[j]
    BY <1>1, <1>3 DEF Rising
  <2>. QED
    BY <1>1, <2>1, <2>2, <2>3 DEF IsLine
<1>5. Rising(back)
  BY <1>1, <1>2, <1>3 DEF Rising
<1>6. ASSUME NEW x \in ToSet(front), NEW y \in ToSet(back)
      PROVE  x < y
  <2>1. DOMAIN front = 1..n /\ DOMAIN back = 1..m
    BY <1>1, <1>2
  <2>2. PICK i \in 1..n : x = front[i]
    BY <2>1 DEF ToSet
  <2>3. PICK j \in 1..m : y = back[j]
    BY <2>1 DEF ToSet
  <2>4. x = s[i] /\ y = s[n + j] /\ i \in 1..Len(s) /\ n + j \in 1..Len(s) /\ i < n + j
    BY <1>1, <1>2, <1>3, <2>2, <2>3
  <2>. QED
    BY <2>4 DEF Rising
<1>. QED
  BY <1>1, <1>4, <1>5, <1>6

\* What is drained comes after what is in the buffer.
LEMMA RisingOn ==
  ASSUME NEW s \in Seq(Nat), NEW new \in Seq(Nat), Rising(s), Rising(new),
         \A x \in ToSet(s), y \in ToSet(new) : x < y
  PROVE  Rising(s \o new)
<1>1. PICK m \in Nat, n \in Nat : m = Len(s) /\ n = Len(new)
  OBVIOUS
<1>2. PICK r \in Seq(Nat) :
        /\ r = s \o new /\ Len(r) = m + n
        /\ \A i \in 1..m : r[i] = s[i]
        /\ \A i \in 1..n : r[m + i] = new[i]
  <2>1. /\ s \o new \in Seq(Nat) /\ Len(s \o new) = Len(s) + Len(new)
        /\ \A i \in 1..Len(s) : (s \o new)[i] = s[i]
        /\ \A i \in 1..Len(new) : (s \o new)[Len(s) + i] = new[i]
    BY Joined
  <2>. QED
    BY <1>1, <2>1
<1>3. \A i \in 1..(m + n) : i \in 1..m \/ \E k \in 1..n : i = m + k
  <2>1. \A i \in 1..(m + n) : i \notin 1..m => i - m \in 1..n /\ i = m + (i - m)
    OBVIOUS
  <2>. QED
    BY <2>1
<1>4. (\A i \in 1..m : s[i] \in ToSet(s)) /\ \A k \in 1..n : new[k] \in ToSet(new)
  <2>1. DOMAIN s = 1..m /\ DOMAIN new = 1..n
    BY <1>1
  <2>. QED
    BY <2>1 DEF ToSet
<1>5. ASSUME NEW i \in 1..(m + n), NEW j \in 1..(m + n), i < j
      PROVE  r[i] < r[j]
  <2>1. CASE i \in 1..m /\ j \in 1..m
    BY <1>1, <1>2, <1>5, <2>1 DEF Rising
  <2>2. ASSUME i \in 1..m, NEW k \in 1..n, j = m + k
        PROVE  r[i] < r[j]
    BY <1>2, <1>4, <2>2
  <2>3. ASSUME NEW k \in 1..n, NEW l \in 1..n, i = m + k, j = m + l
        PROVE  r[i] < r[j]
    <3>1. k < l
      BY <1>5, <2>3
    <3>. QED
      BY <1>1, <1>2, <2>3, <3>1 DEF Rising
  <2>4. ASSUME NEW k \in 1..n, i = m + k
        PROVE  j \notin 1..m
    BY <1>5, <2>4
  <2>. QED
    BY <1>3, <2>1, <2>2, <2>3, <2>4
<1>. QED
  BY <1>2, <1>5 DEF Rising

LEMMA LinesStep ==
  ASSUME TokenTypes, PlaceInv, LinesInv, Next
  PROVE  LinesInv'
<1>0. /\ taken \in Nat /\ printed \in Nat /\ taken \in 0..printed /\ lines \in Seq(Seq(Nat))
      /\ Len(lines) \in Nat /\ lineBuf \in Seq(Nat) /\ Rising(lineBuf)
      /\ given \subseteq 1..taken /\ ToSet(lineBuf) \subseteq 1..taken
  <2>1. taken \in Nat
    BY TakeAssumption DEF TokenTypes
  <2>2. lineBuf \in Seq(Nat) /\ ToSet(lineBuf) \subseteq 1..taken
    BY <2>1, Widened, SetOfSeq DEF TokenTypes
  <2>. QED
    BY <2>1, <2>2, TakeAssumption DEF TokenTypes, LinesInv, Rising
<1>1. ASSUME UNCHANGED <<lines, lineBuf>>, given \subseteq given', users \subseteq users',
             users' \subseteq LineKind => given' = given
      PROVE  LinesInv'
  BY <1>1 DEF LinesInv
<1>2. ASSUME NEW c \in Caller, TakeLine(c)
      PROVE  LinesInv'
  <2>1. PICK n \in 1..Len(lineBuf) :
          /\ n \in LineLengths /\ \A m \in LineLengths : n <= m
          /\ lines' = Append(lines, SubSeq(lineBuf, 1, n))
          /\ lineBuf' = SubSeq(lineBuf, n + 1, Len(lineBuf))
          /\ given' = given \cup ToSet(SubSeq(lineBuf, 1, n))
          /\ UNCHANGED users
    BY <1>2, LineTaken
  <2>2. lineBuf[n] % 2 = 1 /\ \A i \in 1..Len(lineBuf) : lineBuf[i] % 2 = 1 => n <= i
    BY <2>1 DEF LineLengths
  <2>3. PICK front, back :
          /\ front = SubSeq(lineBuf, 1, n) /\ back = SubSeq(lineBuf, n + 1, Len(lineBuf))
          /\ IsLine(front) /\ Rising(back)
          /\ \A x \in ToSet(front), y \in ToSet(back) : x < y
          /\ front \in Seq(Nat) /\ ToSet(lineBuf) = ToSet(front) \cup ToSet(back)
    <3>1. /\ IsLine(SubSeq(lineBuf, 1, n)) /\ Rising(SubSeq(lineBuf, n + 1, Len(lineBuf)))
          /\ \A x \in ToSet(SubSeq(lineBuf, 1, n)),
                y \in ToSet(SubSeq(lineBuf, n + 1, Len(lineBuf))) : x < y
      BY <1>0, <2>2, LineCut
    <3>2. ToSet(lineBuf)
            = ToSet(SubSeq(lineBuf, 1, n)) \cup ToSet(SubSeq(lineBuf, n + 1, Len(lineBuf)))
      BY <1>0, CutSet
    <3>3. SubSeq(lineBuf, 1, n) \in Seq(Nat)
      BY <1>0, Cut
    <3>. QED
      BY ONLY <3>1, <3>2, <3>3
  <2>4. lines' = Append(lines, front) /\ lineBuf' = back /\ given' = given \cup ToSet(front)
    BY <2>1, <2>3
  <2>5. PICK k \in Nat :
          /\ k = Len(lines) /\ Len(lines') = k + 1 /\ lines'[k + 1] = front
          /\ \A i \in 1..k : lines'[i] = lines[i]
    <3>1. PICK k \in Nat : k = Len(lines)
      BY <1>0
    <3>2. Len(Append(lines, front)) = k + 1
      BY ONLY <1>0, <2>3, <3>1
    <3>3. Append(lines, front)[k + 1] = front
      BY ONLY <1>0, <2>3, <3>1
    <3>4. ASSUME NEW i \in 1..k
          PROVE  Append(lines, front)[i] = lines[i]
      BY ONLY <1>0, <2>3, <3>1, <3>4
    <3>. QED
      BY ONLY <2>4, <3>1, <3>2, <3>3, <3>4
  <2>6. /\ \A i \in 1..(k + 1) : i \in 1..k \/ i = k + 1
        /\ \A i \in 1..k : i \in 1..(k + 1) /\ ~(k + 1 < i)
        /\ k + 1 \in 1..(k + 1) /\ ~(k + 1 < k + 1)
    OBVIOUS
  <2>7. \A i \in 1..(k + 1) : IsLine(lines'[i])
    BY <2>3, <2>5, <2>6 DEF LinesInv
  <2>8. ASSUME NEW i \in 1..k, NEW x \in ToSet(lines[i])
        PROVE  x \in given /\ \A y \in ToSet(front) \cup ToSet(back) : x < y
    BY <2>3, <2>5, <2>8 DEF LinesInv
  <2>9. ASSUME NEW i \in 1..(k + 1), NEW j \in 1..(k + 1), i < j,
               NEW x \in ToSet(lines'[i]), NEW y \in ToSet(lines'[j])
        PROVE  x < y
    <3>1. i \in 1..k /\ x \in ToSet(lines[i])
      BY <2>5, <2>6, <2>9
    <3>2. CASE j \in 1..k
      BY <2>5, <2>9, <3>1, <3>2 DEF LinesInv
    <3>3. CASE j = k + 1
      BY <2>5, <2>8, <2>9, <3>1, <3>3
    <3>. QED
      BY <2>6, <3>2, <3>3
  <2>10. ASSUME NEW i \in 1..(k + 1), NEW x \in ToSet(lines'[i])
         PROVE  x \in given' /\ \A y \in ToSet(lineBuf') : x < y
    <3>1. CASE i \in 1..k
      BY <2>4, <2>5, <2>8, <2>10, <3>1
    <3>2. CASE i = k + 1
      BY <2>3, <2>4, <2>5, <2>10, <3>2
    <3>. QED
      BY <2>6, <3>1, <3>2
  <2>11. ASSUME users \subseteq LineKind, NEW x \in given'
         PROVE  \E i \in 1..(k + 1) : x \in ToSet(lines'[i])
    <3>1. CASE x \in given
      <4>1. PICK i \in 1..k : x \in ToSet(lines[i])
        BY <2>5, <2>11, <3>1 DEF LinesInv
      <4>. QED
        BY <2>5, <2>6, <4>1
    <3>2. CASE x \in ToSet(front)
      BY <2>5, <2>6, <3>2
    <3>. QED
      BY <2>4, <2>11, <3>1, <3>2
  <2>12. \A i, j \in 1..Len(lineBuf') : i < j => lineBuf'[i] < lineBuf'[j]
    BY <2>3, <2>4 DEF Rising
  <2>. QED
    BY <2>1, <2>5, <2>7, <2>9, <2>10, <2>11, <2>12 DEF LinesInv
<1>3. ASSUME NEW n \in Nat, lineBuf' = lineBuf \o Interval(taken, taken + n),
             UNCHANGED <<lines, given>>, users \subseteq users'
      PROVE  LinesInv'
  <2>1. PICK new \in Seq(Nat) :
          /\ new = Interval(taken, taken + n) /\ Len(new) = n
          /\ \A i \in 1..n : new[i] = taken + i
          /\ \A x \in ToSet(new) : \A y \in 1..taken : y < x
    <3>1. /\ Interval(taken, taken + n) \in Seq(Nat) /\ Len(Interval(taken, taken + n)) = n
          /\ \A i \in 1..n : Interval(taken, taken + n)[i] = taken + i
          /\ ToSet(Interval(taken, taken + n)) = (taken + 1)..(taken + n)
      BY <1>0, Fresh
    <3>2. \A x \in (taken + 1)..(taken + n) : \A y \in 1..taken : y < x
      BY <1>0
    <3>. QED
      BY <3>1, <3>2
  <2>2. Rising(new)
    <3>1. \A i, j \in 1..n : i < j => taken + i < taken + j
      BY <1>0
    <3>. QED
      BY <2>1, <3>1 DEF Rising
  <2>3. \A x \in ToSet(lineBuf), y \in ToSet(new) : x < y
    BY <1>0, <2>1
  <2>4. Rising(lineBuf')
    BY <1>0, <1>3, <2>1, <2>2, <2>3, RisingOn
  <2>5. ToSet(lineBuf') = ToSet(lineBuf) \cup ToSet(new)
    BY <1>0, <1>3, <2>1, ConcatSet
  <2>6. ASSUME NEW i \in 1..Len(lines), NEW x \in ToSet(lines[i])
        PROVE  x \in given /\ \A y \in ToSet(lineBuf') : x < y
    <3>1. x \in given /\ x \in 1..taken /\ \A y \in ToSet(lineBuf) : x < y
      BY <1>0, <2>6 DEF LinesInv
    <3>. QED
      BY <2>1, <2>5, <3>1
  <2>. QED
    BY <1>3, <2>4, <2>6 DEF LinesInv, Rising
<1>4. ASSUME NEW c \in Caller, ReadSome(c)
      PROVE  LinesInv'
  <2>1. UNCHANGED lines /\ users' = users \cup {kind[c]}
    BY <1>4 DEF ReadSome
  <2>2. CASE kind[c] \in LineKind
    <3>1. PICK n \in 1..MaxTake :
            lineBuf' = lineBuf \o Interval(taken, taken + n) /\ UNCHANGED given
      BY <1>4, <2>2 DEF ReadSome
    <3>2. n \in Nat
      BY TakeAssumption
    <3>. QED
      BY <1>3, <2>1, <3>1, <3>2
  <2>3. CASE kind[c] \notin LineKind
    <3>1. UNCHANGED lineBuf /\ given \subseteq given'
      BY <1>4, <2>3 DEF ReadSome
    <3>. QED
      BY <1>1, <2>1, <2>3, <3>1
  <2>. QED
    BY <2>2, <2>3
<1>5. ASSUME NEW t \in Task, AsyncRead(t) \/ AsyncReadFails(t) \/ AsyncLogFails(t)
      PROVE  LinesInv'
  <2>1. UNCHANGED <<lines, lineBuf, given>> /\ users \subseteq users'
    BY <1>5 DEF AsyncRead, AsyncReadFails, AsyncLogFails, directVars
  <2>. QED
    BY <1>1, <2>1
<1>6. ASSUME NEW t \in Task, AsyncLog(t)
      PROVE  LinesInv'
  <2>1. /\ UNCHANGED <<lines, lineBuf, users>> /\ given \subseteq given' /\ pc[t] = "log"
    BY <1>6 DEF AsyncLog, directVars
  <2>2. "async" \in users'
    BY <2>1 DEF PlaceInv
  <2>3. ~(users' \subseteq LineKind)
    BY <2>2 DEF LineKind
  <2>. QED
    BY <1>1, <2>1, <2>3
<1>7. ASSUME NEW c \in Caller, ReadFails(c)
      PROVE  LinesInv'
  <2>1. UNCHANGED <<lines, lineBuf, given>> /\ users \subseteq users'
    BY <1>7 DEF ReadFails
  <2>. QED
    BY <1>1, <2>1
<1>8. CASE Still
  BY <1>1, <1>8 DEF Still
<1>. QED
  BY <1>2, <1>4, <1>5, <1>6, <1>7, <1>8, Effects

-----------------------------------------------------------------------------
(* The log.                                                                *)

LEMMA NothingJoined ==
  ASSUME NEW s \in Seq(Nat)
  PROVE  s \o <<>> = s /\ <<>> \o s = s
BY ConcatEmptySeq

LEMMA Associated ==
  ASSUME NEW s \in Seq(Nat), NEW t \in Seq(Nat), NEW u \in Seq(Nat)
  PROVE  (s \o t) \o u = s \o (t \o u)
BY ConcatAssociative

\* What the tokens are drawn from.
LEMMA TokensAreNumbers ==
  ASSUME TokenTypes
  PROVE  /\ taken \in Nat /\ printed \in Nat /\ taken \in 0..printed
         /\ lineBuf \in Seq(Nat) /\ pending \in Seq(Nat) /\ asyncPending \in Seq(Nat)
         /\ log \in Seq(Nat) /\ \A t \in Task : drained[t] \in Seq(Nat)
         /\ offset \in Nat /\ offset <= Len(log)
<1>1. taken \in Nat /\ printed \in Nat /\ taken \in 0..printed
  BY TakeAssumption DEF TokenTypes
<1>2. \A t \in Task : drained[t] \in Seq(Nat)
  BY <1>1, Widened DEF TokenTypes
<1>. QED
  BY <1>1, <1>2, Widened DEF TokenTypes

\* The blocking writer at the end of the log: however much is written, the log
\* and what is not written yet are in order, and it stands at the end again.
LEMMA WriteKeeps ==
  ASSUME log \in Seq(Nat), NEW all \in Seq(Nat), offset = Len(log), LogWrites(all)
  PROVE  /\ log' \in Seq(Nat) /\ pending' \in Seq(Nat)
         /\ log' \o pending' = log \o all /\ offset' = Len(log')
<1>1. PICK k \in 0..Len(all) :
        /\ log' = Overwrite(log, offset, SubSeq(all, 1, k))
        /\ offset' = offset + k /\ pending' = SubSeq(all, k + 1, Len(all))
  BY DEF LogWrites
<1>2. PICK front \in Seq(Nat), back \in Seq(Nat) :
        /\ front = SubSeq(all, 1, k) /\ Len(front) = k
        /\ back = SubSeq(all, k + 1, Len(all)) /\ front \o back = all
  <2>1. /\ SubSeq(all, 1, k) \in Seq(Nat) /\ Len(SubSeq(all, 1, k)) = k
        /\ SubSeq(all, k + 1, Len(all)) \in Seq(Nat)
        /\ SubSeq(all, 1, k) \o SubSeq(all, k + 1, Len(all)) = all
    BY CutAt
  <2>. QED
    BY ONLY <2>1
<1>3. PICK m \in Nat : m = Len(log) /\ m = offset
  OBVIOUS
<1>4. Overwrite(log, m, front) = log \o front
  BY <1>2, <1>3, OverwriteEnd
<1>5. log' = log \o front /\ pending' = back /\ offset' = m + k
  BY ONLY <1>1, <1>2, <1>3, <1>4
<1>6. log \o front \in Seq(Nat) /\ Len(log \o front) = m + k
  <2>1. log \o front \in Seq(Nat) /\ Len(log \o front) = Len(log) + Len(front)
    BY <1>2, Joined
  <2>. QED
    BY ONLY <1>2, <1>3, <2>1
<1>7. (log \o front) \o back = log \o all
  <2>1. (log \o front) \o back = log \o (front \o back)
    BY Associated
  <2>. QED
    BY ONLY <1>2, <2>1
<1>. QED
  BY ONLY <1>2, <1>5, <1>6, <1>7

\* Nothing to write changes nothing.
LEMMA WriteNothing ==
  ASSUME log \in Seq(Nat), offset \in Nat, offset <= Len(log), LogWrites(<<>>)
  PROVE  UNCHANGED <<log, offset>> /\ pending' = <<>>
<1>1. PICK k \in 0..Len(<<>>) :
        /\ log' = Overwrite(log, offset, SubSeq(<<>>, 1, k))
        /\ offset' = offset + k /\ pending' = SubSeq(<<>>, k + 1, Len(<<>>))
  BY DEF LogWrites
<1>2. k = 0 /\ Len(<<>>) = 0
  BY <1>1
<1>3. SubSeq(<<>>, 1, 0) = <<>> /\ SubSeq(<<>>, 0 + 1, 0) = <<>>
  BY SubSeqEmpty
<1>4. log' = Overwrite(log, offset, <<>>) /\ pending' = <<>>
  BY ONLY <1>1, <1>2, <1>3
<1>5. Overwrite(log, offset, <<>>) = log
  BY OverwriteNothing
<1>6. offset' = offset
  BY ONLY offset \in Nat, <1>1, <1>2
<1>. QED
  BY ONLY <1>4, <1>5, <1>6

\* The writer that appends.
LEMMA AppendKeeps ==
  ASSUME log \in Seq(Nat), NEW all \in Seq(Nat), AppendWrites(all)
  PROVE  log' \o asyncPending' = log \o all
<1>1. PICK k \in 0..Len(all) :
        log' = log \o SubSeq(all, 1, k) /\ asyncPending' = SubSeq(all, k + 1, Len(all))
  BY DEF AppendWrites
<1>2. PICK front \in Seq(Nat), back \in Seq(Nat) :
        /\ front = SubSeq(all, 1, k) /\ back = SubSeq(all, k + 1, Len(all))
        /\ front \o back = all
  <2>1. /\ SubSeq(all, 1, k) \in Seq(Nat) /\ SubSeq(all, k + 1, Len(all)) \in Seq(Nat)
        /\ SubSeq(all, 1, k) \o SubSeq(all, k + 1, Len(all)) = all
    BY CutAt
  <2>. QED
    BY ONLY <2>1
<1>3. (log \o front) \o back = log \o (front \o back)
  BY Associated
<1>. QED
  BY ONLY <1>1, <1>2, <1>3

\* A flush of what the blocking writer has, when it has nothing or stands at
\* the end, moves it from the writer to the log.
LEMMA FlushKeeps ==
  ASSUME TokenTypes, LogWrites(pending) \/ Flush \/ UNCHANGED <<pending, offset, log>>,
         pending = <<>> \/ offset = Len(log)
  PROVE  /\ log' \o pending' = log \o pending
         /\ pending = <<>> => log' = log /\ pending' = <<>>
         /\ offset = Len(log) => offset' = Len(log')
<1>0. log \in Seq(Nat) /\ pending \in Seq(Nat) /\ offset \in Nat /\ offset <= Len(log)
  BY TokensAreNumbers
<1>1. CASE LogWrites(pending) \/ Flush
  <2>1. LogWrites(pending)
    BY <1>0, <1>1, FlushWrites
  <2>2. CASE pending = <<>>
    <3>1. LogWrites(<<>>)
      BY ONLY <2>1, <2>2
    <3>2. UNCHANGED <<log, offset>> /\ pending' = <<>>
      BY <1>0, <3>1, WriteNothing
    <3>. QED
      BY ONLY <2>2, <3>2
  <2>3. CASE offset = Len(log) /\ pending # <<>>
    BY <1>0, <2>1, <2>3, WriteKeeps
  <2>. QED
    BY <2>2, <2>3
<1>2. CASE UNCHANGED <<pending, offset, log>>
  BY <1>2
<1>. QED
  BY <1>1, <1>2

\* Whoever is about to log has been handed the file.
LEMMA LoggersHaveIt ==
  ASSUME PlaceInv, NEW t \in Task, pc[t] \in {"await", "log", "insert"}
  PROVE  HandedOver
BY DEF PlaceInv, HandedOver

\* A step of a blocking call is none of the async readers'.
LEMMA CallerKeeps ==
  ASSUME NEW c \in Caller, CallerMoves(c)
  PROVE  \A t \in Task : (pc'[t] = "insert" <=> pc[t] = "insert") /\ (pc'[t] = "log" <=> pc[t] = "log")
BY Actors DEF CallerMoves

\* Flushing or not, nobody moves who matters.
LEMMA LogFlushed ==
  ASSUME TokenTypes, PlaceInv, LogInv,
         LogWrites(pending) \/ Flush \/ UNCHANGED <<pending, offset, log>>,
         UNCHANGED <<taken, asyncPending, drained, raced, unlogged>>,
         asyncOn => asyncOn',
         ~HandedOver /\ HandedOver' => pending' = <<>>,
         \A t \in Task : pc'[t] = "log" <=> pc[t] = "log"
  PROVE  LogInv'
<1>. SUFFICES ASSUME ~raced, ~unlogged
              PROVE  LogInv'
  BY DEF LogInv
<1>0. /\ ~asyncOn => asyncPending = <<>> /\ offset = Len(log)
      /\ HandedOver => pending = <<>>
      /\ \A t, u \in Task : pc[t] = "log" /\ pc[u] = "log" => t = u
      /\ \A t \in Task : pc[t] = "log" => log \o asyncPending \o drained[t] = Interval(0, taken)
      /\ (\A t \in Task : pc[t] # "log")
           => log \o pending \o asyncPending = Interval(0, taken)
  BY DEF LogInv
<1>1. /\ log' \o pending' = log \o pending
      /\ pending = <<>> => log' = log /\ pending' = <<>>
      /\ offset = Len(log) => offset' = Len(log')
  <2>1. pending = <<>> \/ offset = Len(log)
    BY <1>0 DEF HandedOver
  <2>. QED
    BY <2>1, FlushKeeps
<1>2. ~asyncOn' => asyncPending' = <<>> /\ offset' = Len(log')
  BY <1>0, <1>1
<1>3. HandedOver' => pending' = <<>>
  BY <1>0, <1>1
<1>4. \A t, u \in Task : pc'[t] = "log" /\ pc'[u] = "log" => t = u
  BY <1>0
<1>5. ASSUME NEW t \in Task, pc'[t] = "log"
      PROVE  log' \o asyncPending' \o drained'[t] = Interval(0, taken')
  <2>1. HandedOver /\ pc[t] = "log"
    BY <1>5, LoggersHaveIt
  <2>. QED
    BY <1>0, <1>1, <2>1
<1>6. ASSUME \A t \in Task : pc'[t] # "log"
      PROVE  log' \o pending' \o asyncPending' = Interval(0, taken')
  BY <1>0, <1>1, <1>6
<1>. QED
  BY <1>2, <1>3, <1>4, <1>5, <1>6 DEF LogInv

\* What is drained next.
LEMMA DrainedNext ==
  ASSUME taken \in Nat, NEW n \in Nat, taken' = taken + n
  PROVE  Interval(0, taken) \o Interval(taken, taken + n) = Interval(0, taken')
<1>1. taken + n \in Nat /\ 0 <= taken /\ taken <= taken + n /\ 0 \in Nat
  OBVIOUS
<1>. QED
  BY <1>1, IntervalJoin

\* A blocking call drains n tokens and gives its log writer the first j: all of
\* them if nothing is left out, and then it is alone with the file and stands at
\* its end.
LEMMA LogReads ==
  ASSUME TokenTypes, PlaceInv, LogInv, NEW c \in Caller, CallerMoves(c),
         NEW n \in Nat, NEW j \in Nat, j <= n, taken' = taken + n,
         LogWrites(pending \o Interval(taken, taken + j)),
         UNCHANGED <<asyncOn, asyncPending, drained>>,
         ~raced' => ~raced /\ (n = 0 \/ ~HandedOver),
         ~unlogged' => ~unlogged /\ j = n
  PROVE  LogInv'
<1>. SUFFICES ASSUME ~raced', ~unlogged'
              PROVE  LogInv'
  BY DEF LogInv
<1>0. ~raced /\ ~unlogged /\ j = n /\ (n = 0 \/ ~HandedOver)
  OBVIOUS
<1>5. log \in Seq(Nat) /\ pending \in Seq(Nat) /\ taken \in Nat
  BY TokensAreNumbers
<1>a. CASE n = 0
  <2>1. taken' = taken /\ Interval(taken, taken + j) = <<>>
    <3>1. taken + j = taken /\ taken - taken = 0 /\ taken + n = taken
      BY <1>0, <1>5, <1>a
    <3>2. Interval(taken, taken) \in Seq(Nat) /\ Len(Interval(taken, taken)) = 0
      BY <1>5, <3>1, IntervalSeq
    <3>. QED
      BY <3>1, <3>2
  <2>2. LogWrites(pending)
    <3>1. pending \o <<>> = pending
      BY <1>5, NothingJoined
    <3>. QED
      BY <2>1, <3>1
  <2>3. HandedOver' <=> HandedOver
    BY CallerKeeps DEF HandedOver
  <2>4. \A t \in Task : pc'[t] = "log" <=> pc[t] = "log"
    BY CallerKeeps
  <2>8. log' \o pending' = log \o pending
        /\ (pending = <<>> => log' = log /\ pending' = <<>>)
        /\ (offset = Len(log) => offset' = Len(log'))
    <3>1. pending = <<>> \/ offset = Len(log)
      BY <1>0 DEF LogInv, HandedOver
    <3>. QED
      BY <2>2, <3>1, FlushKeeps
  <2>9. \A t \in Task : pc[t] = "log" => HandedOver
    BY LoggersHaveIt
  <2>. QED
    BY <1>0, <2>1, <2>3, <2>4, <2>8, <2>9 DEF LogInv
<1>b. CASE n # 0
  <2>1. ~HandedOver /\ ~asyncOn
    BY <1>0, <1>b DEF HandedOver
  <2>2. ~HandedOver'
    BY <2>1, CallerKeeps DEF HandedOver
  <2>3. \A t \in Task : pc[t] # "log" /\ pc'[t] # "log"
    BY <2>1, LoggersHaveIt, CallerKeeps
  <2>4. asyncPending = <<>> /\ offset = Len(log) /\ log \o pending \o asyncPending = Interval(0, taken)
    BY <1>0, <2>1, <2>3 DEF LogInv
  <2>6. log \o pending = Interval(0, taken)
    <3>1. log \o pending \in Seq(Nat)
      BY <1>5, Joined
    <3>. QED
      BY <2>4, <3>1, NothingJoined
  <2>7. PICK new \in Seq(Nat) :
          new = Interval(taken, taken + j) /\ Interval(0, taken) \o new = Interval(0, taken')
    <3>1. Interval(taken, taken + j) \in Seq(Nat)
      BY <1>5, Fresh
    <3>2. Interval(0, taken) \o Interval(taken, taken + n) = Interval(0, taken')
      BY <1>5, DrainedNext
    <3>. QED
      BY <1>0, <3>1, <3>2
  <2>8. PICK all \in Seq(Nat) : all = pending \o new
    BY <1>5, Joined
  <2>9. log \o all = Interval(0, taken')
    <3>1. (log \o pending) \o new = log \o (pending \o new)
      BY <1>5, Associated
    <3>. QED
      BY <2>6, <2>7, <2>8, <3>1
  <2>10. LogWrites(all)
    BY ONLY <2>7, <2>8, LogWrites(pending \o Interval(taken, taken + j))
  <2>11. /\ log' \in Seq(Nat) /\ pending' \in Seq(Nat)
         /\ log' \o pending' = log \o all /\ offset' = Len(log')
    BY <1>5, <2>4, <2>10, WriteKeeps
  <2>12. log' \o pending' \o asyncPending' = Interval(0, taken')
    <3>1. log' \o pending' \in Seq(Nat)
      BY <2>11, Joined
    <3>2. (log' \o pending') \o <<>> = log' \o pending'
      BY <3>1, NothingJoined
    <3>. QED
      BY <2>4, <2>9, <2>11, <3>2
  <2>. QED
    BY <2>1, <2>2, <2>3, <2>4, <2>11, <2>12 DEF LogInv
<1>. QED
  BY <1>a, <1>b

\* An async reader drains: it has been handed the file, so the blocking writer
\* has nothing, and nobody else is between draining and logging.
LEMMA LogAsyncRead ==
  ASSUME TokenTypes, CallTypes, PlaceInv, LogInv, NEW t \in Task, AsyncRead(t), TaskMoves(t)
  PROVE  LogInv'
<1>. SUFFICES ASSUME ~raced', ~unlogged'
              PROVE  LogInv'
  BY DEF LogInv
<1>1. /\ ~raced /\ ~unlogged /\ \A u \in Task : pc[u] # "log"
      /\ pc[t] = "await" /\ UNCHANGED <<pending, offset, asyncOn, asyncPending, log>>
  BY DEF AsyncRead, directVars, asyncVars
<1>2. HandedOver /\ asyncOn
  BY <1>1, LoggersHaveIt DEF PlaceInv
<1>3. HandedOver' /\ asyncOn'
  BY <1>1, <1>2 DEF HandedOver
<1>4. pending = <<>> /\ log \o pending \o asyncPending = Interval(0, taken)
  BY <1>1, <1>2 DEF LogInv
<1>5. log \in Seq(Nat) /\ asyncPending \in Seq(Nat) /\ taken \in Nat /\ taken \in 0..printed
      /\ printed \in Nat
  BY TokensAreNumbers
<1>6. log \o asyncPending = Interval(0, taken)
  BY <1>4, <1>5, NothingJoined
<1>7. PICK n \in 1..MaxTake :
        Drain(n) /\ drained' = [drained EXCEPT ![t] = Interval(taken, taken + n)]
  BY DEF AsyncRead
<1>8. drained'[t] = Interval(taken, taken + n)
  BY <1>7 DEF TokenTypes
<1>9. Interval(0, taken) \o drained'[t] = Interval(0, taken')
  <2>1. n \in Nat /\ taken' = taken + n
    BY <1>5, <1>7, Drained
  <2>. QED
    BY <1>5, <1>8, <2>1, DrainedNext
<1>10. \A u \in Task : pc'[u] = "log" <=> u = t
  <2>1. pc'[t] = "log"
    <3>1. Goto(t, "log") /\ t \in Actor /\ "log" \in Place
      BY Actors DEF AsyncRead, Place
    <3>. QED
      BY <3>1, Moved DEF CallTypes
  <2>. QED
    BY <1>1, <2>1, Actors DEF TaskMoves
<1>. QED
  BY <1>1, <1>3, <1>4, <1>6, <1>9, <1>10 DEF LogInv

\* An async reader gives its log writer all it drained, after everything before.
LEMMA LogAppends ==
  ASSUME TokenTypes, CallTypes, PlaceInv, LogInv, NEW t \in Task, TaskMoves(t),
         pc[t] = "log", Goto(t, "idle"), AppendWrites(asyncPending \o drained[t]),
         UNCHANGED <<taken, pending, offset, asyncOn>>, ~raced, ~unlogged
  PROVE  LogInv'
<1>2. HandedOver /\ asyncOn
  BY LoggersHaveIt DEF PlaceInv
<1>3. HandedOver' /\ asyncOn'
  BY <1>2 DEF HandedOver
<1>4. /\ pending = <<>> /\ log \o asyncPending \o drained[t] = Interval(0, taken)
      /\ \A u \in Task : pc[u] = "log" => u = t
  BY <1>2 DEF LogInv
<1>5. log \in Seq(Nat) /\ asyncPending \in Seq(Nat) /\ drained[t] \in Seq(Nat)
      /\ log' \in Seq(Nat)
  <2>1. log \in Seq(Nat) /\ asyncPending \in Seq(Nat) /\ drained[t] \in Seq(Nat)
    BY TokensAreNumbers
  <2>2. asyncPending \o drained[t] \in Seq(Nat)
    BY <2>1, Joined
  <2>3. log' \in Seq(Nat)
    BY <2>1, <2>2, AppendTypes
  <2>. QED
    BY <2>1, <2>3
<1>6. PICK all \in Seq(Nat) : all = asyncPending \o drained[t]
  BY <1>5, Joined
<1>7. log \o all = Interval(0, taken)
  <2>1. (log \o asyncPending) \o drained[t] = log \o (asyncPending \o drained[t])
    BY <1>5, Associated
  <2>. QED
    BY <1>4, <1>6, <2>1
<1>8. log' \o asyncPending' = Interval(0, taken)
  <2>1. AppendWrites(all)
    BY ONLY <1>6, AppendWrites(asyncPending \o drained[t])
  <2>2. log' \o asyncPending' = log \o all
    BY <1>5, <2>1, AppendKeeps
  <2>. QED
    BY <1>7, <2>2
<1>9. log' \o pending' \o asyncPending' = Interval(0, taken')
  <2>1. log' \o <<>> = log'
    BY <1>5, NothingJoined
  <2>. QED
    BY <1>4, <1>8, <2>1
<1>10. \A u \in Task : pc'[u] # "log"
  <2>1. pc'[t] # "log"
    <3>1. t \in Actor /\ "idle" \in Place
      BY Actors DEF Place
    <3>. QED
      BY <3>1, Moved DEF CallTypes
  <2>. QED
    BY <1>4, <2>1, Actors DEF TaskMoves
<1>. QED
  BY <1>3, <1>4, <1>9, <1>10 DEF LogInv

LEMMA LogStep ==
  ASSUME TokenTypes, CallTypes, PlaceInv, LogInv, Next
  PROVE  LogInv'
<1>0. printed \in Nat /\ taken \in 0..printed /\ taken \in Nat /\ MaxTake \in Nat
  BY TokensAreNumbers, TakeAssumption
<1>1. CASE ChildPrints \/ ChildExits \/ NoteExit
  BY <1>1 DEF ChildPrints, ChildExits, NoteExit, LogInv, HandedOver, directVars, asyncVars,
     callVars, histVars
<1>2. ASSUME NEW c \in Caller, (\E k \in BlockingKind : Call(c, k)) \/ CallStep(c)
                               \/ ReadFails(c)
      PROVE  LogInv'
  <2>1. CallerMoves(c)
    BY <1>2, CallerStep
  <2>2. CASE ReadSome(c)
    <3>1. PICK n \in 1..MaxTake : Drain(n) /\ LogWrites(pending \o Interval(taken, taken + n))
      BY <2>2 DEF ReadSome
    <3>2. n \in Nat /\ taken' = taken + n /\ n <= n
      BY <1>0, <3>1, Drained
    <3>3. /\ UNCHANGED <<asyncOn, asyncPending, drained, unlogged>>
          /\ raced' = (raced \/ HandedOver)
      BY <2>2 DEF ReadSome, asyncVars
    <3>. QED
      BY <2>1, <3>1, <3>2, <3>3, LogReads
  <2>3. CASE ReadFails(c)
    <3>1. PICK n \in 0..MaxTake, j \in 0..MaxTake :
            /\ j <= n /\ taken' = taken + n
            /\ LogWrites(pending \o Interval(taken, taken + j))
            /\ unlogged' = (unlogged \/ j < n)
            /\ raced' = (raced \/ (n > 0 /\ HandedOver))
      BY <2>3 DEF ReadFails
    <3>2. n \in Nat /\ j \in Nat /\ (~(j < n) => j = n) /\ (~(n > 0) => n = 0)
      BY <1>0, <3>1
    <3>3. UNCHANGED <<asyncOn, asyncPending, drained>>
      BY <2>3 DEF ReadFails, asyncVars
    <3>. QED
      BY <2>1, <3>1, <3>2, <3>3, LogReads
  <2>4. CASE ~ReadSome(c) /\ ~ReadFails(c)
    <3>1. /\ LogWrites(pending) \/ UNCHANGED <<pending, offset, log>>
          /\ UNCHANGED <<taken, asyncOn, asyncPending, drained, raced, unlogged>>
      BY <1>2, <2>4 DEF Call, CallStep, EnsureBlocking, Lock, ForceFlush, TakeLine, ReadNothing,
         PipeStatus, directVars, asyncVars, histVars
    <3>2. HandedOver' <=> HandedOver
      BY <2>1, <3>1, CallerKeeps DEF HandedOver
    <3>3. \A t \in Task : pc'[t] = "log" <=> pc[t] = "log"
      BY <2>1, CallerKeeps
    <3>. QED
      BY <3>1, <3>2, <3>3, LogFlushed
  <2>. QED
    BY <2>2, <2>3, <2>4
<1>3. ASSUME NEW t \in Task, Await(t) \/ TaskStep(t) \/ TaskFails(t)
      PROVE  LogInv'
  <2>1. TaskMoves(t)
    BY <1>3, TaskStepMoves
  <2>2. ASSUME NEW to \in Place, Goto(t, to), to # "log", pc[t] # "log"
        PROVE  pc'[t] = to /\ \A u \in Task : pc'[u] = "log" <=> pc[u] = "log"
    BY <2>1, <2>2, Moved, Actors DEF CallTypes, TaskMoves
  <2>3. CASE Await(t) \/ AsyncLook(t) \/ AsyncEnd(t) \/ InsertFails(t)
    <3>1. PICK to \in Place : Goto(t, to) /\ to \notin {"log", "insert"}
      BY <2>3 DEF Await, AsyncLook, AsyncEnd, InsertFails, Place
    <3>2. pc[t] # "log" /\ UNCHANGED <<pending, offset, log>>
          /\ UNCHANGED <<taken, asyncOn, asyncPending, drained, raced, unlogged>>
      BY <2>3 DEF Await, AsyncLook, AsyncEnd, InsertFails, directVars, asyncVars, callVars,
         histVars
    <3>3. pc'[t] = to /\ \A u \in Task : pc'[u] = "log" <=> pc[u] = "log"
      BY <2>2, <3>1, <3>2
    <3>4. HandedOver' => HandedOver
      BY <2>1, <3>1, <3>2, <3>3, Actors DEF HandedOver, TaskMoves
    <3>. QED
      BY <3>2, <3>3, <3>4, LogFlushed
  <2>4. CASE AsyncHandover(t)
    <3>1. /\ Flush /\ pending' = <<>> /\ pc[t] = "handover" /\ Goto(t, "insert")
          /\ UNCHANGED <<taken, asyncOn, asyncPending, drained, raced, unlogged>>
      BY <2>4 DEF AsyncHandover, Flush, asyncVars, histVars
    <3>2. pc'[t] = "insert" /\ \A u \in Task : pc'[u] = "log" <=> pc[u] = "log"
      BY <2>2, <3>1 DEF Place
    <3>. QED
      BY <3>1, <3>2, LogFlushed
  <2>5. CASE HandoverFails(t)
    <3>1. /\ LogWrites(pending) /\ pc[t] = "handover" /\ Goto(t, "idle")
          /\ UNCHANGED <<taken, asyncOn, asyncPending, drained, raced, unlogged>>
      BY <2>5 DEF HandoverFails, asyncVars, histVars
    <3>2. pc'[t] = "idle" /\ \A u \in Task : pc'[u] = "log" <=> pc[u] = "log"
      BY <2>2, <3>1 DEF Place
    <3>3. HandedOver' => HandedOver
      BY <2>1, <3>1, <3>2, Actors DEF HandedOver, TaskMoves
    <3>. QED
      BY <3>1, <3>2, <3>3, LogFlushed
  <2>6. CASE AsyncInsert(t)
    <3>1. /\ pc[t] = "insert" /\ Goto(t, "await") /\ asyncOn'
          /\ UNCHANGED <<pending, offset, log>>
          /\ UNCHANGED <<taken, asyncPending, drained, raced, unlogged>>
      BY <2>6 DEF AsyncInsert, directVars, histVars
    <3>2. \A u \in Task : pc'[u] = "log" <=> pc[u] = "log"
      BY <2>2, <3>1 DEF Place
    <3>3. HandedOver
      BY <3>1, LoggersHaveIt DEF HandedOver
    <3>. QED
      BY <3>1, <3>2, <3>3, LogFlushed
  <2>7. CASE AsyncRead(t)
    BY <2>1, <2>7, LogAsyncRead
  <2>8. CASE AsyncReadFails(t)
    <3>1. PICK n \in 0..MaxTake : taken' = taken + n /\ unlogged' = (unlogged \/ n > 0)
      BY <2>8 DEF AsyncReadFails
    <3>2. CASE unlogged'
      BY <3>2 DEF LogInv
    <3>3. CASE ~unlogged'
      <4>0. ~unlogged /\ ~(n > 0)
        BY <3>1, <3>3, Zenon
      <4>1. ~unlogged /\ taken' = taken
        <5>1. n = 0
          BY <1>0, <4>0
        <5>. QED
          BY <1>0, <3>1, <4>0, <5>1
      <4>2. pc[t] = "await" /\ Goto(t, "idle") /\ UNCHANGED <<pending, offset, log>>
            /\ UNCHANGED <<asyncOn, asyncPending, drained, raced>>
        BY <2>8 DEF AsyncReadFails, directVars, asyncVars
      <4>3. pc'[t] = "idle" /\ \A u \in Task : pc'[u] = "log" <=> pc[u] = "log"
        BY <2>2, <4>2 DEF Place
      <4>4. HandedOver /\ unlogged' = unlogged
        BY <3>1, <3>3, <4>1, <4>2, LoggersHaveIt DEF CallTypes
      <4>. QED
        BY <4>1, <4>2, <4>3, <4>4, LogFlushed
    <3>. QED
      BY <3>2, <3>3
  <2>9. CASE AsyncLog(t)
    <3>1. CASE raced \/ unlogged
      BY <2>9, <3>1 DEF AsyncLog, LogInv
    <3>2. CASE ~raced /\ ~unlogged
      <4>1. /\ pc[t] = "log" /\ Goto(t, "idle") /\ AppendWrites(asyncPending \o drained[t])
            /\ UNCHANGED <<taken, pending, offset, asyncOn>>
        BY <2>9 DEF AsyncLog, directVars
      <4>. QED
        BY <2>1, <3>2, <4>1, LogAppends
    <3>. QED
      BY <3>1, <3>2
  <2>10. CASE AsyncLogFails(t)
    <3>1. PICK j \in 0..Len(drained[t]) :
            /\ AppendWrites(asyncPending \o SubSeq(drained[t], 1, j))
            /\ unlogged' = (unlogged \/ j < Len(drained[t]))
      BY <2>10 DEF AsyncLogFails
    <3>2. CASE raced \/ unlogged'
      BY <2>10, <3>2 DEF AsyncLogFails, LogInv
    <3>3. CASE ~raced /\ ~unlogged'
      <4>0. drained[t] \in Seq(Nat) /\ Len(drained[t]) \in Nat
        BY TokensAreNumbers
      <4>1. ~unlogged /\ j = Len(drained[t])
        <5>1. ~unlogged /\ ~(j < Len(drained[t]))
          BY <3>1, <3>3, Zenon
        <5>2. j \in Nat /\ j <= Len(drained[t])
          BY <4>0
        <5>. QED
          BY <4>0, <5>1, <5>2
      <4>2. SubSeq(drained[t], 1, j) = drained[t]
        BY <4>0, <4>1, SubSeqFull
      <4>3. AppendWrites(asyncPending \o drained[t])
        BY <3>1, <4>2
      <4>4. /\ pc[t] = "log" /\ Goto(t, "idle")
            /\ UNCHANGED <<taken, pending, offset, asyncOn>>
        BY <2>10 DEF AsyncLogFails, directVars
      <4>. QED
        BY <2>1, <3>3, <4>1, <4>3, <4>4, LogAppends
    <3>. QED
      BY <3>2, <3>3
  <2>. QED
    BY <1>3, <2>3, <2>4, <2>5, <2>6, <2>7, <2>8, <2>9, <2>10 DEF TaskStep, TaskFails
<1>. QED
  BY <1>1, <1>2, <1>3 DEF Next

-----------------------------------------------------------------------------
(* The theorems.                                                           *)

LEMMA InvHolds == Spec => []Inv
<1>1. Init => Inv
  <2>. SUFFICES ASSUME Init PROVE Inv
    OBVIOUS
  <2>0. /\ taken = 0 /\ printed = 0 /\ log = <<>> /\ pending = <<>> /\ asyncPending = <<>>
        /\ lineBuf = <<>> /\ offset = 0 /\ given = {} /\ lost = {} /\ lines = <<>>
        /\ asyncOn = FALSE
        /\ drained = [t \in Task |-> <<>>] /\ pc = [a \in Actor |-> "idle"]
    BY DEF Init
  <2>1. CallTypes
    <3>1. pc \in [Actor -> Place]
      BY DEF Init, Place
    <3>2. kind \in [Caller -> BlockingKind \cup {"none"}]
      BY DEF Init
    <3>3. calls \in 0..MaxCalls
      BY TakeAssumption DEF Init
    <3>4. /\ alive \in BOOLEAN /\ exited \in BOOLEAN /\ asyncOn \in BOOLEAN
          /\ raced \in BOOLEAN /\ unlogged \in BOOLEAN /\ keeper \in Caller \cup {None}
          /\ users = {}
      BY DEF Init
    <3>. QED
      BY <3>1, <3>2, <3>3, <3>4 DEF CallTypes
  <2>2. TokenTypes
    <3>1. <<>> \in Seq(1..0) /\ <<>> \in Seq(Seq(Nat)) /\ Len(<<>>) = 0
      OBVIOUS
    <3>2. drained \in [Task -> Seq(1..0)]
      BY <2>0, <3>1
    <3>. QED
      BY <2>0, <3>1, <3>2, TakeAssumption DEF TokenTypes
  <2>3. PlaceInv
    BY <2>0, Actors DEF PlaceInv
  <2>4. ReadOnce
    <3>1. Places
      BY <2>0, EmptySet DEF Places, InBuffer, With
    <3>. QED
      BY <3>1, PlacesOnce
  <2>5. Interval(0, 0) = <<>>
    BY DEF Interval
  <2>6. LogInv
    <3>1. <<>> \o <<>> \o <<>> = <<>> /\ Len(<<>>) = 0
      OBVIOUS
    <3>2. ~HandedOver
      BY <2>0, Actors DEF HandedOver
    <3>. QED
      BY <2>0, <2>5, <3>1, <3>2, Actors DEF LogInv
  <2>7. LinesInv
    <3>1. \A i \in 1..Len(<<>>) : FALSE
      OBVIOUS
    <3>. QED
      BY <2>0, <3>1 DEF LinesInv
  <2>. QED
    BY <2>1, <2>2, <2>3, <2>4, <2>6, <2>7 DEF Inv
<1>2. Inv /\ [Next]_vars => Inv'
  <2>. SUFFICES ASSUME Inv, [Next]_vars PROVE Inv'
    OBVIOUS
  <2>1. CASE Next
    BY <2>1, CallTypesStep, TokenTypesStep, PlaceStep, OnceStep, LogStep, LinesStep DEF Inv
  <2>2. CASE UNCHANGED vars
    <3>. USE <2>2 DEF vars, childVars, directVars, asyncVars, callVars, histVars
    <3>1. CallTypes' /\ TokenTypes' /\ PlaceInv'
      BY DEF Inv, CallTypes, TokenTypes, PlaceInv
    <3>2. ReadOnce'
      BY DEF Inv, ReadOnce
    <3>3. LogInv' /\ LinesInv'
      BY DEF Inv, LogInv, HandedOver, LinesInv
    <3>. QED
      BY <3>1, <3>2, <3>3 DEF Inv
  <2>. QED
    BY <2>1, <2>2
<1>. QED
  BY <1>1, <1>2, PTL DEF Spec

\* Every variable keeps its type; the line buffer in particular, which nothing
\* in the code bounds, never holds more than was printed.
THEOREM TypeAlways == Spec => []TypeOK
<1>1. Inv => TypeOK
  BY TypesOK DEF Inv
<1>. QED
  BY <1>1, InvHolds, PTL

\* What is drained is handed to one caller or task, waits for one, or went with
\* a call that failed: nothing else is lost, and nothing is handed out twice or
\* both handed out and lost, whichever calls overlap and whichever fail.
\* (read_line, read_available, take_line)
THEOREM ReadOnceAlways == Spec => []ReadOnce
<1>1. Inv => ReadOnce
  BY DEF Inv
<1>. QED
  BY <1>1, InvHolds, PTL

\* Until two readers drain or log beside each other, or a call fails that has
\* not given all it drained to a log writer, the log and what the two writers
\* still have are what was drained, in order, whenever the output changes hands.
\* (async_stdout_output, flush_log_if_due, write_chunks_to_log)
THEOREM LogWholeAlways == Spec => []LogWhole
<1>1. Inv => LogWhole
  <2>. SUFFICES ASSUME Inv, ~raced, ~unlogged
                PROVE  \E rest \in {<<>>} \cup {drained[t] : t \in Task} :
                         /\ \A t \in Task : drained[t] \in {<<>>, rest}
                         /\ log \o pending \o asyncPending \o rest = Interval(0, taken)
    BY DEF LogWhole
  <2>0. /\ log \in Seq(Nat) /\ pending \in Seq(Nat) /\ asyncPending \in Seq(Nat)
        /\ \A t \in Task : pc[t] # "log" => drained[t] = <<>>
    BY TokensAreNumbers DEF Inv, PlaceInv
  <2>1. CASE \A t \in Task : pc[t] # "log"
    <3>1. log \o pending \o asyncPending = Interval(0, taken)
      BY <2>1 DEF Inv, LogInv
    <3>2. (log \o pending) \o asyncPending \in Seq(Nat)
      <4>1. log \o pending \in Seq(Nat)
        BY <2>0, Joined
      <4>. QED
        BY <2>0, <4>1, Joined
    <3>3. log \o pending \o asyncPending \o <<>> = Interval(0, taken)
      BY <3>1, <3>2, NothingJoined
    <3>. QED
      BY <2>0, <2>1, <3>3
  <2>2. ASSUME NEW t \in Task, pc[t] = "log"
        PROVE  \E rest \in {<<>>} \cup {drained[u] : u \in Task} :
                 /\ \A u \in Task : drained[u] \in {<<>>, rest}
                 /\ log \o pending \o asyncPending \o rest = Interval(0, taken)
    <3>1. HandedOver
      BY <2>2, LoggersHaveIt DEF Inv
    <3>2. /\ pending = <<>> /\ \A u \in Task : pc[u] = "log" => u = t
          /\ log \o asyncPending \o drained[t] = Interval(0, taken)
      BY <2>2, <3>1 DEF Inv, LogInv
    <3>3. log \o pending = log
      BY <2>0, <3>2, NothingJoined
    <3>4. \A u \in Task : drained[u] \in {<<>>, drained[t]}
      BY <2>0, <3>2
    <3>. QED
      BY <3>2, <3>3, <3>4
  <2>. QED
    BY <2>1, <2>2
<1>. QED
  BY <1>1, InvHolds, PTL

\* Whatever fails and whoever else drains, a line that is handed out ends at its
\* newline and comes after those before it; and while nobody drains but
\* read_line, every token is in a line or waits for one, but for those that went
\* with a call that failed.  (read_line, take_line)
THEOREM LinesWholeAlways == Spec => []LinesWhole
<1>1. Inv => LinesWhole
  <2>. SUFFICES ASSUME Inv PROVE LinesWhole
    OBVIOUS
  <2>1. ASSUME users \subseteq LineKind, NEW x \in (1..taken) \ (lost \cup ToSet(lineBuf))
        PROVE  \E i \in 1..Len(lines) : x \in ToSet(lines[i])
    <3>1. \A t \in Task : drained[t] = <<>>
      <4>1. "async" \notin users
        BY <2>1 DEF LineKind
      <4>. QED
        BY <4>1 DEF Inv, PlaceInv
    <3>2. \A t \in Task : x \notin ToSet(drained[t])
      BY <3>1, EmptySet
    <3>3. x \in given
      BY <2>1, <3>2 DEF Inv, ReadOnce
    <3>. QED
      BY <2>1, <3>3 DEF Inv, LinesInv
  <2>. QED
    BY <2>1 DEF Inv, LinesInv, LinesWhole
<1>. QED
  BY <1>1, InvHolds, PTL
=============================================================================
