---------------------------- MODULE LogIndex_proofs ----------------------------
(***************************************************************************)
(* Proofs about LogIndex, for logs, writers, truncations, replacements and *)
(* requests in any number.                                                 *)
(***************************************************************************)
EXTENDS LogIndex, TLAPS

-----------------------------------------------------------------------------
(* Types.                                                                  *)

Epoch == 0..MaxResets
Size  == 0..MaxLen

Index == [file : Nat, size : Size, mtime : Nat, token : Nat, generation : Nat,
          epochs : SUBSET Epoch]
Stat  == [file : Nat, size : Size, mtime : Nat]

Place == {"idle", "opened", "scan", "check stat", "check token", "window",
          "read open", "read data", "read stat", "read token", "end token"}

\* The file system, its writer and the host.
WorldType ==
  /\ files \in [File -> Seq(Epoch)] /\ path \in File /\ mtime \in [File -> 0..clock]
  /\ \A f \in File : Len(files[f]) <= MaxLen
  /\ token \in Nat /\ epoch \in Epoch /\ clock \in Nat
  /\ wfile = 1 /\ woff \in Size /\ writes \in 0..MaxWrites
  /\ tpc \in {"idle", "truncated", "marked", "unmarked"}
  /\ path <= epoch + 1
  /\ token + (IF tpc = "truncated" THEN 1 ELSE 0) <= epoch
  /\ ~Appends => Len(files[1]) <= woff
  /\ raced \in SUBSET Epoch

ReaderType ==
  /\ index \in Index /\ stat \in Stat
  /\ index.file <= path /\ stat.file <= path
  /\ rpc \in Place /\ windows \in 0..MaxWindows
  /\ out \in SUBSET Epoch /\ shown \in SUBSET (Nat \X Epoch)

LEMMA BoundsAreNat == MaxLen \in Nat /\ MaxWrites \in Nat /\ MaxResets \in Nat /\ MaxWindows \in Nat
BY BoundAssumption

LEMMA FirstFile == 1 \in File /\ File \subseteq Nat
BY BoundsAreNat DEF File

-----------------------------------------------------------------------------
(* What a step does to a file.                                             *)

LEMMA JoinedLength ==
  ASSUME NEW S, NEW s \in Seq(S), NEW t \in Seq(S)
  PROVE  s \o t \in Seq(S) /\ Len(s \o t) = Len(s) + Len(t)
OBVIOUS

\* A record is written behind a hole of m records.
LEMMA Written ==
  ASSUME NEW S, NEW d \in Seq(S), NEW e \in S, NEW m \in Nat,
         NEW new, new = d \o [i \in 1..m |-> e] \o <<e>>
  PROVE  /\ new \in Seq(S) /\ Len(new) = Len(d) + m + 1
         /\ \A i \in 1..Len(new) : new[i] = IF i <= Len(d) THEN d[i] ELSE e
<1>. DEFINE hole == [i \in 1..m |-> e]
<1>1. hole \in Seq(S) /\ Len(hole) = m /\ \A i \in 1..m : hole[i] = e
  OBVIOUS
<1>. HIDE DEF hole
<1>2. <<e>> \in Seq(S) /\ Len(<<e>>) = 1 /\ <<e>>[1] = e
  OBVIOUS
<1>. DEFINE s == d \o hole
<1>3. /\ s \in Seq(S) /\ Len(s) = Len(d) + m /\ Len(d) \in Nat
      /\ \A i \in 1..Len(s) : s[i] = IF i <= Len(d) THEN d[i] ELSE e
  <2>1. s \in Seq(S) /\ Len(s) = Len(d) + m /\ Len(d) \in Nat
    <3>1. d \o hole \in Seq(S) /\ Len(d \o hole) = Len(d) + Len(hole)
      BY <1>1, JoinedLength, Zenon
    <3>. QED
      BY <1>1, <3>1
  <2>2. ASSUME NEW i \in 1..Len(s)
        PROVE  s[i] = IF i <= Len(d) THEN d[i] ELSE e
    <3>1. CASE i <= Len(d)
      <4>1. s[i] = d[i]
        BY <1>1, <2>1, <2>2, <3>1
      <4>. QED
        BY <3>1, <4>1
    <3>2. CASE ~(i <= Len(d))
      <4>1. s[i] = hole[i - Len(d)] /\ i - Len(d) \in 1..m
        BY <1>1, <2>1, <2>2, <3>2
      <4>. QED
        BY <1>1, <3>2, <4>1
    <3>. QED
      BY <3>1, <3>2
  <2>. QED
    BY <2>1, <2>2
<1>4. new = s \o <<e>>
  BY DEF hole
<1>. HIDE DEF s
<1>5. new \in Seq(S) /\ Len(new) = Len(s) + 1
  BY <1>2, <1>3, <1>4
<1>6. ASSUME NEW i \in 1..Len(new)
      PROVE  new[i] = IF i <= Len(d) THEN d[i] ELSE e
  <2>1. CASE i \in 1..Len(s)
    <3>1. new[i] = s[i]
      BY <1>2, <1>3, <1>4, <2>1
    <3>. QED
      BY <1>3, <2>1, <3>1
  <2>2. CASE i = Len(s) + 1
    <3>1. new[i] = e
      BY <1>2, <1>3, <1>4, <2>2
    <3>. QED
      BY <1>3, <2>2, <3>1
  <2>. QED
    BY <1>3, <1>5, <1>6, <2>1, <2>2
<1>. QED
  BY <1>3, <1>5, <1>6

\* The record a writer adds goes behind what is in its file.
LEMMA WriteAdds ==
  ASSUME WorldType, Write
  PROVE  \E new \in Seq(Epoch) :
           /\ files' = [files EXCEPT ![1] = new]
           /\ Len(files[1]) < Len(new) /\ Len(new) <= MaxLen
           /\ woff' \in Size /\ (~Appends => Len(new) <= woff')
           /\ \A i \in 1..Len(new) :
                new[i] = IF i <= Len(files[1]) THEN files[1][i] ELSE epoch
<1>. DEFINE data == files[1]
            at   == IF Appends THEN Len(data) ELSE woff
            m    == at - Len(data)
            new  == data \o [i \in 1..m |-> epoch] \o <<epoch>>
<1>1. data \in Seq(Epoch) /\ Len(data) \in Nat /\ epoch \in Epoch /\ woff \in Nat
  BY FirstFile, BoundsAreNat DEF WorldType, Size
<1>2. files' = [files EXCEPT ![1] = new] /\ at < MaxLen /\ woff' = at + 1
  BY DEF Write, WorldType
<1>3. at \in Nat /\ m \in Nat /\ Len(data) + m = at
  BY <1>1 DEF WorldType
<1>. HIDE DEF data, at, m
<1>4. /\ new \in Seq(Epoch) /\ Len(new) = Len(data) + m + 1
      /\ \A i \in 1..Len(new) : new[i] = IF i <= Len(data) THEN data[i] ELSE epoch
  BY <1>1, <1>3, Written
<1>. HIDE DEF new
<1>5. Len(data) < Len(new) /\ Len(new) <= MaxLen /\ woff' \in Size /\ Len(new) <= woff'
  <2>1. Len(new) = at + 1 /\ Len(data) <= at
    BY <1>1, <1>3, <1>4
  <2>2. at + 1 \in 0..MaxLen /\ at + 1 <= MaxLen
    BY <1>2, <1>3, BoundsAreNat
  <2>3. Len(data) < at + 1
    BY <1>1, <1>3, <2>1
  <2>. QED
    BY <1>2, <1>3, <2>1, <2>2, <2>3 DEF Size
<1>. QED
  BY <1>2, <1>4, <1>5 DEF data

-----------------------------------------------------------------------------
(* The types are kept.                                                     *)

LEMMA WorldTypeInit == Init => WorldType /\ ReaderType
<1>. SUFFICES ASSUME Init PROVE WorldType /\ ReaderType
  OBVIOUS
<1>1. files \in [File -> Seq(Epoch)] /\ \A f \in File : files[f] = <<>>
  BY DEF Init
<1>2. WorldType
  BY <1>1, FirstFile, BoundsAreNat DEF Init, WorldType, Epoch, Size
<1>3. ReaderType
  BY BoundsAreNat DEF Init, ReaderType, Index, Stat, Place, Size
<1>. QED
  BY <1>2, <1>3

LEMMA ModifiedType ==
  ASSUME WorldType, NEW f \in File, Modified(f)
  PROVE  mtime' \in [File -> 0..clock'] /\ clock' \in Nat
BY DEF WorldType, Modified

LEMMA WorldTypeStep == ASSUME WorldType, [Next]_vars PROVE WorldType'
<1>. USE DEF fileVars, writerVars, readerVars
<1>1. CASE Write
  <2>1. PICK new \in Seq(Epoch) :
           /\ files' = [files EXCEPT ![1] = new]
           /\ Len(files[1]) < Len(new) /\ Len(new) <= MaxLen
           /\ woff' \in Size /\ (~Appends => Len(new) <= woff')
           /\ \A i \in 1..Len(new) :
                new[i] = IF i <= Len(files[1]) THEN files[1][i] ELSE epoch
    BY <1>1, WriteAdds
  <2>2. /\ UNCHANGED <<path, token, epoch, wfile, tpc>> /\ writes' = writes + 1
        /\ writes < MaxWrites
    BY <1>1 DEF Write
  <2>3. mtime' \in [File -> 0..clock'] /\ clock' \in Nat
    BY <1>1, FirstFile, ModifiedType DEF Write, WorldType
  <2>4. files' \in [File -> Seq(Epoch)] /\ files'[1] = new
        /\ \A f \in File : Len(files'[f]) <= MaxLen
    BY <2>1, FirstFile DEF WorldType
  <2>5. writes' \in 0..MaxWrites
    BY <2>2, BoundsAreNat DEF WorldType
  <2>6. raced' \in SUBSET Epoch
    BY <1>1 DEF Write, WorldType
  <2>. QED
    BY <2>1, <2>2, <2>3, <2>4, <2>5, <2>6 DEF WorldType
<1>2. CASE Truncate
  <2>1. /\ UNCHANGED <<path, token, writerVars>> /\ tpc' = "truncated"
        /\ tpc # "truncated" /\ epoch' = epoch + 1 /\ epoch < MaxResets
        /\ files' = [files EXCEPT ![path] = <<>>]
    BY <1>2 DEF Truncate
  <2>2. mtime' \in [File -> 0..clock'] /\ clock' \in Nat
    BY <1>2, ModifiedType DEF Truncate, WorldType
  <2>3. files' \in [File -> Seq(Epoch)] /\ \A f \in File : Len(files'[f]) <= MaxLen
    BY <2>1, BoundsAreNat DEF WorldType
  <2>4. ~Appends => Len(files'[1]) <= woff
    BY <2>1, FirstFile, BoundsAreNat DEF WorldType, Size
  <2>5. /\ epoch' \in Epoch /\ path \in Nat /\ path <= epoch' + 1
        /\ token + 1 <= epoch'
    BY <2>1, FirstFile, BoundsAreNat DEF WorldType, Epoch
  <2>. QED
    BY <2>1, <2>2, <2>3, <2>4, <2>5 DEF WorldType
<1>3. CASE MarkReset
  BY <1>3 DEF MarkReset, WorldType, Epoch
<1>4. CASE MarkFails
  <2>1. token \in Nat /\ epoch \in Nat
    BY BoundsAreNat DEF WorldType, Epoch
  <2>. QED
    BY <1>4, <2>1 DEF MarkFails, WorldType
<1>5. CASE Invalidate
  BY <1>5 DEF Invalidate, WorldType
<1>6. CASE \E n \in 0..MaxLen : Replace(n)
  <2>1. PICK n \in 0..MaxLen : Replace(n)
    BY <1>6
  <2>. DEFINE new == [i \in 1..n |-> epoch + 1]
  <2>2. /\ UNCHANGED <<token, writerVars, tpc>> /\ path' = path + 1
        /\ epoch' = epoch + 1 /\ epoch < MaxResets
        /\ files' = [files EXCEPT ![path + 1] = new]
    BY <2>1 DEF Replace
  <2>3. /\ path \in Nat /\ 1 <= path /\ path + 1 \in File /\ path + 1 # 1
        /\ epoch' \in Epoch /\ epoch \in Nat /\ token \in Nat
    BY <2>2, BoundsAreNat DEF WorldType, Epoch, File
  <2>4. new \in Seq(Epoch) /\ Len(new) = n /\ n <= MaxLen
    BY <2>2, <2>3, BoundsAreNat
  <2>. HIDE DEF new
  <2>5. mtime' \in [File -> 0..clock'] /\ clock' \in Nat
    BY <2>1, <2>3, ModifiedType DEF Replace
  <2>6. /\ files' \in [File -> Seq(Epoch)] /\ \A f \in File : Len(files'[f]) <= MaxLen
        /\ files'[1] = files[1]
    BY <2>2, <2>3, <2>4, FirstFile DEF WorldType
  <2>7. path' <= epoch' + 1 /\ token + (IF tpc = "truncated" THEN 1 ELSE 0) <= epoch'
    BY <2>2, <2>3 DEF WorldType
  <2>. QED
    BY <2>2, <2>3, <2>5, <2>6, <2>7 DEF WorldType
<1>7. CASE Request
  <2>1. UNCHANGED <<fileVars, writerVars, tpc>>
    BY <1>7 DEF Request, Open, Compare, Scan, CheckStat, CheckToken, ReadToken, ReadOpen,
       ReadData, ReadStat, ReadValidated, EndStat, Answer, Goto, Fail, FailRefresh
  <2>. QED
    BY <2>1 DEF WorldType
<1>8. CASE UNCHANGED vars
  BY <1>8 DEF vars, WorldType
<1>. QED
  BY <1>1, <1>2, <1>3, <1>4, <1>5, <1>6, <1>7, <1>8 DEF Next

\* What a request takes from the file system has its types.
LEMMA StatNowType ==
  ASSUME WorldType
  PROVE  /\ StatNow \in Stat /\ StatNow.file = path /\ StatNow.size = Len(files[path])
         /\ StatNow.mtime = mtime[path]
<1>1. path \in Nat /\ mtime[path] \in Nat
  BY FirstFile DEF WorldType
<1>2. Len(files[path]) \in Size
  BY BoundsAreNat DEF WorldType, Size
<1>. QED
  BY <1>1, <1>2 DEF StatNow, Stat

LEMMA FilesHoldEpochs ==
  ASSUME WorldType, NEW f \in File, NEW i \in 1..Len(files[f])
  PROVE  files[f][i] \in Epoch
BY DEF WorldType

\* The files the index and a request know are there.
LEMMA FilesThere ==
  ASSUME WorldType, ReaderType
  PROVE  /\ path \in Nat /\ path >= 1 /\ index.file \in Nat /\ stat.file \in Nat
         /\ index.file <= path /\ stat.file <= path
         /\ index.file # 0 => index.file \in File
         /\ stat.file # 0 => stat.file \in File
<1>1. path \in 1..(MaxResets + 1) /\ MaxResets \in Nat
  BY BoundsAreNat DEF WorldType, File
<1>2. /\ index.file \in Nat /\ stat.file \in Nat
      /\ index.file <= path /\ stat.file <= path
  BY DEF ReaderType, Index, Stat
<1>. QED
  BY <1>1, <1>2 DEF File

\* What a scan reads are records of the file it reads.
LEMMA Read ==
  ASSUME WorldType, NEW f \in File, NEW a \in Nat, NEW b \in Nat,
         a < b => b <= Len(files[f])
  PROVE  ToSet(SubSeq(files[f], a + 1, b)) \subseteq {files[f][i] : i \in 1..Len(files[f])}
<1>. DEFINE s == SubSeq(files[f], a + 1, b)
<1>1. files[f] \in Seq(Epoch) /\ Len(files[f]) \in Nat
  BY DEF WorldType
<1>2. CASE ~(a < b)
  <2>1. s = <<>>
    BY <1>1, <1>2
  <2>. HIDE DEF s
  <2>2. ToSet(s) = {}
    BY <2>1 DEF ToSet
  <2>. QED
    BY <2>2 DEF s
<1>3. CASE a < b
  <2>1. \A i \in (a + 1)..b : files[f][i] \in Epoch
    BY <1>1, <1>3
  <2>2. s \in Seq(Epoch) /\ Len(s) = b - a /\ \A i \in 1..(b - a) : s[i] = files[f][a + i]
    BY <1>1, <1>3, <2>1
  <2>3. \A i \in 1..(b - a) : a + i \in 1..Len(files[f])
    BY <1>1, <1>3
  <2>. HIDE DEF s
  <2>4. ToSet(s) \subseteq {files[f][i] : i \in 1..Len(files[f])}
    <3>1. SUFFICES ASSUME NEW i \in 1..(b - a)
                   PROVE  s[i] \in {files[f][j] : j \in 1..Len(files[f])}
      BY <2>2 DEF ToSet
    <3>2. s[i] = files[f][a + i] /\ a + i \in 1..Len(files[f])
      BY <2>2, <2>3
    <3>. QED
      BY <3>2
  <2>. QED
    BY <2>4 DEF s
<1>. QED
  BY <1>2, <1>3

\* The scan reads what there is to read.
LEMMA ScanReads ==
  ASSUME WorldType, ReaderType, Scan, stat.file # 0
  PROVE  \/ rpc' = "idle" /\ index' = [index EXCEPT !.file = 0]
         \/ \E new \in SUBSET Epoch :
              /\ rpc' = "check stat"
              /\ index' = [index EXCEPT !.size = stat.size, !.mtime = stat.mtime,
                                        !.epochs = @ \cup new]
              /\ new \subseteq {files[stat.file][i] : i \in 1..Len(files[stat.file])}
<1>. DEFINE data == files[stat.file]
            new  == ToSet(SubSeq(data, index.size + 1, stat.size))
<1>1. stat.file \in File /\ index.size \in Nat /\ stat.size \in Nat
  BY FilesThere DEF ReaderType, Index, Stat, Size
<1>2. CASE index.size < stat.size /\ Len(data) < stat.size
  BY <1>2 DEF Scan, FailRefresh
<1>3. CASE ~(index.size < stat.size /\ Len(data) < stat.size)
  <2>1. rpc' = "check stat"
        /\ index' = [index EXCEPT !.size = stat.size, !.mtime = stat.mtime,
                                  !.epochs = @ \cup new]
    BY <1>3 DEF Scan
  <2>2. index.size < stat.size => stat.size <= Len(data)
    <3>1. Len(data) \in Nat
      BY <1>1 DEF WorldType
    <3>. HIDE DEF data
    <3>. QED
      BY <1>1, <1>3, <3>1
  <2>3. new \subseteq {data[i] : i \in 1..Len(data)}
    BY <1>1, <2>2, Read, Zenon
  <2>4. \A i \in 1..Len(data) : data[i] \in Epoch
    BY <1>1, FilesHoldEpochs
  <2>. HIDE DEF new
  <2>5. new \in SUBSET Epoch
    BY <2>3, <2>4
  <2>. QED
    BY <2>1, <2>3, <2>5
<1>. QED
  BY <1>2, <1>3

LEMMA ReaderTypeStep ==
  ASSUME WorldType, ReaderType, rpc # "idle" => stat.file # 0, [Next]_vars
  PROVE  ReaderType'
<1>. USE DEF fileVars, writerVars, readerVars
<1>1. CASE Write \/ Truncate \/ MarkReset \/ MarkFails \/ \E n \in 0..MaxLen : Replace(n)
  <2>1. UNCHANGED readerVars /\ path \in Nat /\ path' \in {path, path + 1}
    BY <1>1, FirstFile DEF Write, Truncate, MarkReset, MarkFails, Replace, WorldType
  <2>2. index.file \in Nat /\ stat.file \in Nat
    BY DEF ReaderType, Index, Stat
  <2>3. index.file <= path' /\ stat.file <= path'
    BY <2>1, <2>2 DEF ReaderType
  <2>. QED
    BY <2>1, <2>3 DEF ReaderType
<1>2. CASE Invalidate
  <2>1. /\ UNCHANGED <<path, rpc, stat, out, windows, shown>>
        /\ index' = [index EXCEPT !.file = 0]
    BY <1>2 DEF Invalidate
  <2>2. index' \in Index /\ index'.file = 0
    BY <2>1 DEF ReaderType, Index
  <2>3. index'.file <= path'
    BY <2>1, <2>2, FilesThere
  <2>. QED
    BY <2>1, <2>2, <2>3 DEF ReaderType
<1>3. CASE Request
  <2>0. UNCHANGED path /\ path \in Nat
    BY <1>3, FirstFile DEF Request, Open, Compare, Scan, CheckStat, CheckToken, ReadToken,
       ReadOpen, ReadData, ReadStat, ReadValidated, EndStat, Answer, Goto, Fail,
       FailRefresh, WorldType
  <2>1. CASE Open
    <3>1. stat' = StatNow /\ rpc' = "opened" /\ out' = {} /\ UNCHANGED <<index, shown>>
          /\ windows' = windows + 1 /\ windows < MaxWindows
      BY <2>1 DEF Open, StatNow
    <3>2. windows' \in 0..MaxWindows
      BY <3>1, BoundsAreNat DEF ReaderType
    <3>3. stat' \in Stat /\ stat'.file = path
      BY <3>1, StatNowType
    <3>4. stat'.file <= path'
      BY <2>0, <3>3
    <3>5. rpc' \in Place /\ out' \in SUBSET Epoch
      BY <3>1 DEF Place
    <3>. QED
      BY <2>0, <3>1, <3>2, <3>3, <3>4, <3>5 DEF ReaderType
  <2>2. CASE Compare
    <3>1. \/ index' = [file |-> stat.file, size |-> 0, mtime |-> index.mtime,
                       token |-> token, generation |-> index.generation + 1, epochs |-> {}]
          \/ index' = [index EXCEPT !.file = stat.file, !.token = token]
      BY <2>2, Zenon DEF Compare
    <3>2. /\ index \in Index /\ stat.file \in Nat /\ token \in Nat /\ 0 \in Size
          /\ {} \in SUBSET Epoch /\ index.generation + 1 \in Nat /\ index.mtime \in Nat
      BY BoundsAreNat DEF ReaderType, Index, Stat, Size, WorldType
    <3>3. index' \in Index /\ index'.file = stat.file
      <4>1. CASE index' = [index EXCEPT !.file = stat.file, !.token = token]
        BY <3>2, <4>1 DEF Index
      <4>2. CASE index' = [file |-> stat.file, size |-> 0, mtime |-> index.mtime,
                           token |-> token, generation |-> index.generation + 1,
                           epochs |-> {}]
        BY <3>2, <4>2 DEF Index
      <4>. QED
        BY <3>1, <4>1, <4>2
    <3>4. UNCHANGED <<stat, out, windows, shown>> /\ rpc' \in Place
      BY <2>2 DEF Compare, Place
    <3>5. index'.file <= path' /\ stat'.file <= path'
      BY <2>0, <3>3, <3>4 DEF ReaderType
    <3>. QED
      BY <2>0, <3>3, <3>4, <3>5 DEF ReaderType
  <2>3. CASE Scan
    <3>1. index' \in Index /\ index'.file \in {0, index.file} /\ rpc' \in Place
      <4>1. CASE index' = [index EXCEPT !.file = 0] /\ rpc' = "idle"
        BY <4>1 DEF ReaderType, Index, Place
      <4>2. ASSUME NEW new \in SUBSET Epoch, rpc' = "check stat",
                   index' = [index EXCEPT !.size = stat.size, !.mtime = stat.mtime,
                                          !.epochs = @ \cup new]
            PROVE  index' \in Index /\ index'.file \in {0, index.file} /\ rpc' \in Place
        BY <4>2 DEF ReaderType, Index, Stat, Place
      <4>. QED
        BY <2>3, <4>1, <4>2, ScanReads DEF Scan
    <3>2. UNCHANGED <<stat, out, windows, shown>>
      BY <2>3 DEF Scan, FailRefresh
    <3>. QED
      BY <2>0, <3>1, <3>2 DEF ReaderType
  <2>4. CASE CheckStat \/ ReadStat \/ EndStat
    <3>1. stat' \in Stat /\ stat'.file = path
      BY <2>4, StatNowType DEF CheckStat, ReadStat, EndStat
    <3>2. UNCHANGED <<index, out, windows, shown>> /\ rpc' \in Place
      BY <2>4 DEF CheckStat, ReadStat, EndStat, Goto, Place
    <3>3. stat'.file <= path'
      BY <2>0, <3>1
    <3>. QED
      BY <2>0, <3>1, <3>2, <3>3 DEF ReaderType
  <2>5. CASE CheckToken
    <3>1. UNCHANGED <<stat, out, windows, shown>> /\ rpc' \in Place
      BY <2>5 DEF CheckToken, Goto, FailRefresh, Place
    <3>2. index' = index \/ index' = [index EXCEPT !.file = 0]
      BY <2>5 DEF CheckToken, Goto, FailRefresh
    <3>3. index' \in Index /\ index'.file <= path
      BY <2>0, <3>2 DEF ReaderType, Index
    <3>. QED
      BY <2>0, <3>1, <3>3 DEF ReaderType
  <2>6. CASE ReadToken \/ ReadOpen \/ ReadValidated
    <3>1. UNCHANGED <<index, out, windows, shown>> /\ rpc' \in Place
      BY <2>6 DEF ReadToken, ReadOpen, ReadValidated, Goto, Fail, Place
    <3>2. stat' \in {stat, StatNow}
      BY <2>6 DEF ReadToken, ReadOpen, ReadValidated, Goto, Fail
    <3>3. stat' \in Stat /\ stat'.file <= path
      BY <2>0, <3>2, StatNowType DEF ReaderType
    <3>. QED
      BY <2>0, <3>1, <3>3 DEF ReaderType
  <2>7. CASE \E i \in 1..MaxLen : ReadData(i)
    <3>1. PICK i \in 1..MaxLen : ReadData(i)
      BY <2>7
    <3>2. UNCHANGED <<index, stat, windows, shown>> /\ rpc' \in Place
      BY <3>1 DEF ReadData, Fail, Place
    <3>3. out' \in SUBSET Epoch
      <4>1. CASE i > Len(files[stat.file])
        BY <3>1, <4>1 DEF ReadData, Fail, ReaderType
      <4>2. CASE ~(i > Len(files[stat.file]))
        <5>0. stat.file \in File
          BY <3>1, FilesThere DEF ReadData
        <5>1. stat.file \in File /\ Len(files[stat.file]) \in Nat
          BY <5>0 DEF WorldType
        <5>2. i \in 1..Len(files[stat.file])
          BY <4>2, <5>1
        <5>3. files[stat.file][i] \in Epoch
          BY <5>1, <5>2, FilesHoldEpochs
        <5>4. out' = out \cup {files[stat.file][i]}
          BY <3>1, <4>2 DEF ReadData
        <5>. QED
          BY <5>3, <5>4 DEF ReaderType
      <4>. QED
        BY <4>1, <4>2
    <3>. QED
      BY <2>0, <3>2, <3>3 DEF ReaderType
  <2>8. CASE Answer
    <3>1. UNCHANGED <<index, stat, out, windows>> /\ rpc' \in Place
      BY <2>8 DEF Answer, Fail, Place
    <3>2. shown' = shown
          \/ shown' = shown \cup {<<index.generation, e>> : e \in out \cup index.epochs}
      BY <2>8 DEF Answer, Fail
    <3>3. shown' \in SUBSET (Nat \X Epoch)
      <4>1. index.generation \in Nat /\ out \cup index.epochs \subseteq Epoch
        BY DEF ReaderType, Index
      <4>. QED
        BY <3>2, <4>1 DEF ReaderType
    <3>. QED
      BY <2>0, <3>1, <3>3 DEF ReaderType
  <2>. QED
    BY <1>3, <2>1, <2>2, <2>3, <2>4, <2>5, <2>6, <2>7, <2>8 DEF Request
<1>4. CASE UNCHANGED vars
  BY <1>4 DEF vars, ReaderType
<1>. QED
  BY <1>1, <1>2, <1>3, <1>4 DEF Next

-----------------------------------------------------------------------------
(* What a file holds.  The file at the path holds records of one epoch: of *)
(* this one, if it is the writer's.                                        *)

AllEqual(s) == \A x, y \in s : x = y

Held(f) == {files[f][i] : i \in 1..Len(files[f])}

FilesInv ==
  /\ path = 1 => Held(1) \subseteq {epoch}
  /\ \A f \in File \ {1} : AllEqual(Held(f))

LEMMA InitFiles == Init => FilesInv
<1>. SUFFICES ASSUME Init PROVE FilesInv
  OBVIOUS
<1>1. \A f \in File : Held(f) = {}
  BY DEF Init, Held
<1>. QED
  BY <1>1, FirstFile DEF FilesInv, AllEqual

LEMMA StepFiles == ASSUME WorldType, FilesInv, [Next]_vars PROVE FilesInv'
<1>. USE DEF fileVars, writerVars, readerVars
<1>1. CASE Write
  <2>1. PICK new \in Seq(Epoch) :
           /\ files' = [files EXCEPT ![1] = new]
           /\ Len(files[1]) < Len(new) /\ Len(new) <= MaxLen
           /\ woff' \in Size /\ (~Appends => Len(new) <= woff')
           /\ \A i \in 1..Len(new) :
                new[i] = IF i <= Len(files[1]) THEN files[1][i] ELSE epoch
    BY <1>1, WriteAdds
  <2>2. UNCHANGED <<path, epoch>>
    BY <1>1 DEF Write
  <2>3. files'[1] = new /\ \A f \in File \ {1} : files'[f] = files[f]
    BY <2>1, FirstFile DEF WorldType
  <2>4. ASSUME path = 1, NEW i \in 1..Len(new)
        PROVE  new[i] = epoch
    <3>1. CASE i <= Len(files[1])
      <4>1. i \in 1..Len(files[1]) /\ new[i] = files[1][i]
        BY <2>1, <2>4, <3>1, FirstFile DEF WorldType
      <4>. QED
        BY <2>4, <4>1 DEF FilesInv, Held
    <3>2. CASE ~(i <= Len(files[1]))
      BY <2>1, <2>4, <3>2
    <3>. QED
      BY <3>1, <3>2
  <2>5. path' = 1 => Held(1)' \subseteq {epoch'}
    BY <2>2, <2>3, <2>4 DEF Held
  <2>6. \A f \in File \ {1} : Held(f)' = Held(f)
    BY <2>3 DEF Held
  <2>. QED
    BY <2>5, <2>6 DEF FilesInv
<1>2. CASE Truncate
  <2>1. UNCHANGED path /\ files' = [files EXCEPT ![path] = <<>>]
    BY <1>2 DEF Truncate
  <2>2. files'[path] = <<>> /\ \A f \in File \ {path} : files'[f] = files[f]
    BY <2>1 DEF WorldType
  <2>3. Held(path)' = {} /\ \A f \in File \ {path} : Held(f)' = Held(f)
    BY <2>1, <2>2 DEF Held
  <2>4. ASSUME NEW f \in File \ {1}
        PROVE  AllEqual(Held(f)')
    <3>1. CASE f = path
      <4>1. Held(f)' = {}
        BY <2>2, <3>1 DEF Held
      <4>. QED
        BY <4>1 DEF AllEqual
    <3>2. CASE f # path
      <4>1. Held(f)' = Held(f)
        BY <2>2, <3>2 DEF Held
      <4>. QED
        BY <4>1 DEF FilesInv
    <3>. QED
      BY <3>1, <3>2
  <2>5. path' = 1 => Held(1)' = {}
    BY <2>1, <2>3
  <2>. QED
    BY <2>4, <2>5 DEF FilesInv
<1>3. CASE MarkReset \/ MarkFails \/ Invalidate
  <2>1. UNCHANGED <<files, path, epoch>>
    BY <1>3 DEF MarkReset, MarkFails, Invalidate
  <2>. QED
    BY <2>1 DEF FilesInv, Held
<1>4. CASE \E n \in 0..MaxLen : Replace(n)
  <2>1. PICK n \in 0..MaxLen : Replace(n)
    BY <1>4
  <2>. DEFINE new == [i \in 1..n |-> epoch + 1]
  <2>2. path' = path + 1 /\ files' = [files EXCEPT ![path + 1] = new]
    BY <2>1 DEF Replace
  <2>3. path \in Nat /\ path >= 1
    BY FirstFile, BoundsAreNat DEF WorldType, File
  <2>4. Len(new) = n /\ \A i \in 1..n : new[i] = epoch + 1
    BY BoundsAreNat
  <2>. HIDE DEF new
  <2>5. ASSUME NEW f \in File
        PROVE  files'[f] = IF f = path + 1 THEN new ELSE files[f]
    BY <2>2 DEF WorldType
  <2>6. ASSUME NEW f \in File \ {1}
        PROVE  AllEqual(Held(f)')
    <3>1. CASE f = path + 1
      <4>1. Held(f)' \subseteq {epoch + 1}
        BY <2>4, <2>5, <3>1 DEF Held
      <4>. QED
        BY <4>1 DEF AllEqual
    <3>2. CASE f # path + 1
      <4>1. Held(f)' = Held(f)
        BY <2>5, <3>2 DEF Held
      <4>. QED
        BY <4>1 DEF FilesInv
    <3>. QED
      BY <3>1, <3>2
  <2>. QED
    BY <2>2, <2>3, <2>6 DEF FilesInv
<1>5. CASE Request
  <2>1. UNCHANGED <<files, path, epoch>>
    BY <1>5 DEF Request, Open, Compare, Scan, CheckStat, CheckToken, ReadToken, ReadOpen,
       ReadData, ReadStat, ReadValidated, EndStat, Answer, Goto, Fail, FailRefresh
  <2>. QED
    BY <2>1 DEF FilesInv, Held
<1>6. CASE UNCHANGED vars
  BY <1>6 DEF vars, FilesInv, Held
<1>. QED
  BY <1>1, <1>2, <1>3, <1>4, <1>5, <1>6 DEF Next

\* No record is of an epoch that is still to come.
PastFiles  == \A f \in File : \A i \in 1..Len(files[f]) : files[f][i] <= epoch
PastReader ==
  /\ \A e \in index.epochs \cup out : e <= epoch
  /\ \A p \in shown : p[2] <= epoch

LEMMA InitPast == Init => PastFiles /\ PastReader
<1>. SUFFICES ASSUME Init PROVE PastFiles /\ PastReader
  OBVIOUS
<1>1. \A f \in File : Len(files[f]) = 0
  BY DEF Init
<1>. QED
  BY <1>1 DEF Init, PastFiles, PastReader

LEMMA StepPastFiles ==
  ASSUME WorldType, PastFiles, [Next]_vars
  PROVE  PastFiles' /\ epoch' \in {epoch, epoch + 1}
<1>. USE DEF fileVars, writerVars, readerVars
<1>0. epoch \in Nat
  BY BoundsAreNat DEF WorldType, Epoch
<1>1. CASE Write
  <2>1. PICK new \in Seq(Epoch) :
           /\ files' = [files EXCEPT ![1] = new]
           /\ Len(files[1]) < Len(new) /\ Len(new) <= MaxLen
           /\ woff' \in Size /\ (~Appends => Len(new) <= woff')
           /\ \A i \in 1..Len(new) :
                new[i] = IF i <= Len(files[1]) THEN files[1][i] ELSE epoch
    BY <1>1, WriteAdds
  <2>2. UNCHANGED epoch
    BY <1>1 DEF Write
  <2>3. files'[1] = new /\ \A f \in File \ {1} : files'[f] = files[f]
    BY <2>1, FirstFile DEF WorldType
  <2>4. ASSUME NEW i \in 1..Len(new)
        PROVE  new[i] <= epoch
    <3>1. CASE i <= Len(files[1])
      <4>1. i \in 1..Len(files[1]) /\ new[i] = files[1][i]
        BY <2>1, <2>4, <3>1, FirstFile DEF WorldType
      <4>. QED
        BY <4>1, FirstFile DEF PastFiles
    <3>2. CASE ~(i <= Len(files[1]))
      BY <1>0, <2>1, <2>4, <3>2
    <3>. QED
      BY <3>1, <3>2
  <2>. QED
    BY <2>2, <2>3, <2>4 DEF PastFiles
<1>2. CASE Truncate
  <2>1. /\ epoch' = epoch + 1 /\ files' = [files EXCEPT ![path] = <<>>]
    BY <1>2 DEF Truncate
  <2>2. ASSUME NEW f \in File, NEW i \in 1..Len(files'[f])
        PROVE  files'[f][i] <= epoch + 1
    <3>1. f # path /\ files'[f] = files[f]
      BY <2>1, <2>2 DEF WorldType
    <3>2. files[f][i] \in Epoch /\ files[f][i] <= epoch
      BY <2>2, <3>1, FilesHoldEpochs DEF PastFiles
    <3>. QED
      BY <1>0, <3>1, <3>2, BoundsAreNat DEF Epoch
  <2>. QED
    BY <2>1, <2>2 DEF PastFiles
<1>3. CASE MarkReset \/ MarkFails \/ Invalidate
  BY <1>3 DEF MarkReset, MarkFails, Invalidate, PastFiles
<1>4. CASE \E n \in 0..MaxLen : Replace(n)
  <2>1. PICK n \in 0..MaxLen : Replace(n)
    BY <1>4
  <2>. DEFINE new == [i \in 1..n |-> epoch + 1]
  <2>2. epoch' = epoch + 1 /\ files' = [files EXCEPT ![path + 1] = new]
    BY <2>1 DEF Replace
  <2>3. Len(new) = n /\ \A i \in 1..n : new[i] = epoch + 1
    BY BoundsAreNat
  <2>. HIDE DEF new
  <2>4. ASSUME NEW f \in File, NEW i \in 1..Len(files'[f])
        PROVE  files'[f][i] <= epoch + 1
    <3>1. CASE f = path + 1
      <4>1. files'[f] = new
        BY <2>2, <3>1 DEF WorldType
      <4>. QED
        BY <1>0, <2>3, <2>4, <4>1
    <3>2. CASE f # path + 1
      <4>1. files'[f] = files[f]
        BY <2>2, <3>2 DEF WorldType
      <4>2. files[f][i] \in Epoch /\ files[f][i] <= epoch
        BY <2>4, <4>1, FilesHoldEpochs DEF PastFiles
      <4>. QED
        BY <1>0, <4>1, <4>2, BoundsAreNat DEF Epoch
    <3>. QED
      BY <3>1, <3>2
  <2>. QED
    BY <2>2, <2>4 DEF PastFiles
<1>5. CASE Request
  <2>1. UNCHANGED <<files, epoch>>
    BY <1>5 DEF Request, Open, Compare, Scan, CheckStat, CheckToken, ReadToken, ReadOpen,
       ReadData, ReadStat, ReadValidated, EndStat, Answer, Goto, Fail, FailRefresh
  <2>. QED
    BY <2>1 DEF PastFiles
<1>6. CASE UNCHANGED vars
  BY <1>6 DEF vars, PastFiles
<1>. QED
  BY <1>1, <1>2, <1>3, <1>4, <1>5, <1>6 DEF Next

LEMMA StepPastReader ==
  ASSUME WorldType, ReaderType, rpc # "idle" => stat.file # 0,
         PastFiles, PastReader, [Next]_vars
  PROVE  PastReader'
<1>. USE DEF fileVars, writerVars, readerVars
<1>1. epoch \in Nat /\ epoch' \in {epoch, epoch + 1}
  BY StepPastFiles, BoundsAreNat DEF WorldType, Epoch
<1>2. index.epochs \cup out \subseteq Nat /\ \A p \in shown : p[2] \in Nat
  <2>1. Epoch \subseteq Nat
    BY BoundsAreNat DEF Epoch
  <2>2. index.epochs \cup out \subseteq Epoch
    BY DEF ReaderType, Index
  <2>3. \A p \in shown : p[2] \in Epoch
    BY DEF ReaderType
  <2>. QED
    BY <2>1, <2>2, <2>3
<1>3. CASE index'.epochs \subseteq index.epochs /\ out' \subseteq out /\ UNCHANGED shown
  BY <1>1, <1>2, <1>3 DEF PastReader
<1>4. CASE Write \/ Truncate \/ MarkReset \/ MarkFails \/ (\E n \in 0..MaxLen : Replace(n))
           \/ UNCHANGED vars
  BY <1>3, <1>4 DEF Write, Truncate, MarkReset, MarkFails, Replace, vars
<1>5. CASE Invalidate \/ Open \/ CheckStat \/ CheckToken \/ ReadToken \/ ReadOpen
           \/ ReadStat \/ ReadValidated \/ EndStat
  <2>1. index'.epochs = index.epochs
    BY <1>5 DEF Invalidate, Open, CheckStat, CheckToken, ReadToken, ReadOpen, ReadStat,
       ReadValidated, EndStat, Goto, Fail, FailRefresh, ReaderType, Index
  <2>2. out' \subseteq out /\ UNCHANGED shown
    BY <1>5 DEF Invalidate, Open, CheckStat, CheckToken, ReadToken, ReadOpen, ReadStat,
       ReadValidated, EndStat, Goto, Fail, FailRefresh
  <2>. QED
    BY <1>3, <2>1, <2>2
<1>6. CASE Compare
  <2>1. index'.epochs \subseteq index.epochs
    <3>1. CASE Reset
      <4>1. index'.epochs = {}
        BY <1>6, <3>1 DEF Compare
      <4>. QED
        BY <4>1
    <3>2. CASE ~Reset
      BY <1>6, <3>2 DEF Compare, ReaderType, Index
    <3>. QED
      BY <3>1, <3>2
  <2>. QED
    BY <1>3, <1>6, <2>1 DEF Compare
<1>7. CASE Scan
  <2>0. stat.file # 0 /\ stat.file \in File /\ UNCHANGED <<out, shown, epoch>>
    BY <1>7, FilesThere DEF Scan, FailRefresh
  <2>1. CASE rpc' = "idle" /\ index' = [index EXCEPT !.file = 0]
    <3>1. index'.epochs = index.epochs
      BY <2>1 DEF ReaderType, Index
    <3>. QED
      BY <1>3, <2>0, <3>1
  <2>2. ASSUME NEW new \in SUBSET Epoch,
               index' = [index EXCEPT !.size = stat.size, !.mtime = stat.mtime,
                                      !.epochs = @ \cup new],
               new \subseteq {files[stat.file][i] : i \in 1..Len(files[stat.file])}
        PROVE  PastReader'
    <3>1. index'.epochs = index.epochs \cup new
      BY <2>2 DEF ReaderType, Index
    <3>2. \A e \in new : e <= epoch
      BY <2>0, <2>2 DEF PastFiles
    <3>. QED
      BY <2>0, <3>1, <3>2 DEF PastReader
  <2>. QED
    BY <1>7, <2>0, <2>1, <2>2, ScanReads
<1>8. CASE \E i \in 1..MaxLen : ReadData(i)
  <2>1. PICK i \in 1..MaxLen : ReadData(i)
    BY <1>8
  <2>2. UNCHANGED <<index, shown, epoch>>
    BY <2>1 DEF ReadData, Fail
  <2>3. CASE i > Len(files[stat.file])
    BY <1>3, <2>1, <2>2, <2>3 DEF ReadData, Fail
  <2>4. CASE ~(i > Len(files[stat.file]))
    <3>1. stat.file \in File
      BY <2>1, FilesThere DEF ReadData
    <3>2. Len(files[stat.file]) \in Nat
      BY <3>1 DEF WorldType
    <3>3. i \in 1..Len(files[stat.file])
      BY <2>1, <2>4, <3>2, BoundsAreNat
    <3>4. files[stat.file][i] <= epoch
      BY <3>1, <3>3 DEF PastFiles
    <3>5. out' = out \cup {files[stat.file][i]}
      BY <2>1, <2>4 DEF ReadData
    <3>. QED
      BY <2>2, <3>4, <3>5 DEF PastReader
  <2>. QED
    BY <2>3, <2>4
<1>9. CASE Answer
  <2>1. UNCHANGED <<index, out, epoch>>
    BY <1>9 DEF Answer, Fail
  <2>2. \/ shown' = shown
        \/ shown' = shown \cup {<<index.generation, e>> : e \in out \cup index.epochs}
    BY <1>9 DEF Answer, Fail
  <2>3. \A p \in shown' : p \in shown \/ p[2] \in out \cup index.epochs
    BY <2>2
  <2>. QED
    BY <2>1, <2>3 DEF PastReader
<1>. QED
  BY <1>4, <1>5, <1>6, <1>7, <1>8, <1>9 DEF Next, Request

-----------------------------------------------------------------------------
(* What a generation stands for.  While no mark has been written since the *)
(* index was compared with it, all that the generation has shown, that the *)
(* index has scanned and that can still be read under it is of one epoch,  *)
(* and of later ones only if the writer raced with the mark.               *)
(* A request that has yet to validate its refresh may be wrong, but then   *)
(* it will find out.                                                       *)

Reading ==
  rpc \in {"window", "read open", "read data", "read stat", "read token", "end token"}

Under(g) == {e \in Epoch : <<g, e>> \in shown}

\* Records of the index's file that can be read under its generation.
Visible(j) == j <= index.size \/ path = index.file
Readable ==
  {files[index.file][i] : i \in {j \in 1..Len(files[index.file]) : Visible(j)}}

Contents ==
  Readable \cup index.epochs \cup Under(index.generation)
           \cup (IF Reading THEN out ELSE {})

\* Of two epochs, the later one is one of a race.
Explained(s) == \A d, e \in s : d < e => e \in raced

OneContent ==
  /\ Explained(Contents)
  /\ path = 1 /\ index.file = 1 /\ ~Resetting => Contents \subseteq {epoch}

\* The writer's file has what was scanned, until it is truncated.
Covered == index.file = 1 /\ ~Resetting => index.size <= Len(files[1])

\* Is the index to be believed?
Unvalidated == rpc \in {"scan", "check stat"}

Believed ==
  /\ index.file # 0 /\ index.token = token
  /\ Unvalidated => path = index.file
  /\ rpc = "check token" => stat.file = index.file /\ stat.size >= index.size

Ordered ==
  /\ index.token <= token
  /\ \A p \in shown : p[1] <= index.generation
  /\ rpc \notin {"idle", "opened"} => index.file # 0
  /\ rpc # "idle" => stat.file # 0
  /\ rpc \in {"scan", "read data"} => stat.file = index.file
  /\ rpc \in {"opened", "scan", "check stat", "check token"} => out = {}

IndexInv == Ordered /\ (Believed => OneContent /\ (~Unvalidated => Covered))

LEMMA OneContentPart ==
  ASSUME OneContent, Contents' \subseteq Contents, raced \subseteq raced',
         path' = 1 /\ index'.file = 1 /\ ~Resetting' =>
           path = 1 /\ index.file = 1 /\ ~Resetting /\ epoch' = epoch
  PROVE  OneContent'
BY DEF OneContent, Explained

\* The same when the reader does nothing, and no new record can be read.
LEMMA WorldPart ==
  ASSUME OneContent, UNCHANGED readerVars, Readable' \subseteq Readable,
         raced \subseteq raced',
         path' = 1 /\ index'.file = 1 /\ ~Resetting' =>
           path = 1 /\ index.file = 1 /\ ~Resetting /\ epoch' = epoch
  PROVE  OneContent'
<1>1. Contents' \subseteq Contents
  BY DEF Contents, Under, Reading, readerVars
<1>. QED
  BY <1>1, OneContentPart

-----------------------------------------------------------------------------
(* Steps of the writer, the host and whoever replaces the log.             *)

LEMMA ContentsPast ==
  ASSUME WorldType, ReaderType, PastFiles, PastReader, index.file # 0
  PROVE  \A e \in Contents : e <= epoch /\ e \in Nat
<1>1. index.file \in File
  BY FilesThere
<1>2. \A e \in Readable : e <= epoch /\ e \in Epoch
  BY <1>1, FilesHoldEpochs DEF Readable, PastFiles
<1>3. \A e \in Under(index.generation) : e <= epoch /\ e \in Epoch
  BY DEF Under, PastReader
<1>4. \A e \in index.epochs \cup out : e <= epoch /\ e \in Epoch
  BY DEF PastReader, ReaderType, Index
<1>. QED
  BY <1>2, <1>3, <1>4, BoundsAreNat DEF Contents, Epoch

LEMMA WriteIndex ==
  ASSUME WorldType, ReaderType, FilesInv, PastFiles, PastReader, IndexInv, Write
  PROVE  IndexInv'
<1>1. /\ UNCHANGED <<path, token, epoch, tpc, readerVars>>
      /\ raced' = IF Resetting THEN raced \cup {epoch} ELSE raced
      /\ (Resetting' <=> Resetting)
  BY DEF Write, Resetting
<1>2. PICK new \in Seq(Epoch) :
         /\ files' = [files EXCEPT ![1] = new]
         /\ Len(files[1]) < Len(new) /\ Len(new) <= MaxLen
         /\ woff' \in Size /\ (~Appends => Len(new) <= woff')
         /\ \A i \in 1..Len(new) :
              new[i] = IF i <= Len(files[1]) THEN files[1][i] ELSE epoch
  BY WriteAdds
<1>3. files'[1] = new /\ \A f \in File \ {1} : files'[f] = files[f]
  BY <1>2, FirstFile DEF WorldType
<1>4. /\ Len(files[1]) \in Nat /\ index.size \in Nat
      /\ index.file # 0 => index.file \in File
  <2>1. Len(files[1]) \in Nat
    BY FirstFile DEF WorldType
  <2>2. index.size \in Nat
    BY BoundsAreNat DEF ReaderType, Index, Size
  <2>. QED
    BY <2>1, <2>2, FilesThere
<1>5. Ordered'
  BY <1>1 DEF IndexInv, Ordered, readerVars
<1>6. ASSUME Believed'
      PROVE  OneContent' /\ (~Unvalidated' => Covered')
  <2>1. /\ Believed /\ (Unvalidated' <=> Unvalidated) /\ index.file # 0
    BY <1>1, <1>6 DEF Believed, Unvalidated, readerVars
  <2>2. OneContent /\ (~Unvalidated => Covered)
    BY <2>1 DEF IndexInv
  <2>3. CASE Resetting
    <3>1. ASSUME NEW j \in 1..Len(files'[index.file]), Visible(j)'
          PROVE  files'[index.file][j] \in Readable \cup {epoch}
      <4>1. CASE index.file = 1
        <5>1. CASE j <= Len(files[1])
          <6>1. files'[1][j] = files[1][j] /\ j \in 1..Len(files[1]) /\ Visible(j)
            BY <1>1, <1>2, <1>3, <1>4, <3>1, <4>1, <5>1 DEF Visible, readerVars
          <6>. QED
            BY <4>1, <6>1 DEF Readable
        <5>2. CASE ~(j <= Len(files[1]))
          BY <1>2, <1>3, <3>1, <4>1, <5>2
        <5>. QED
          BY <5>1, <5>2
      <4>2. CASE index.file # 1
        <5>1. files'[index.file] = files[index.file]
          BY <1>3, <1>4, <2>1, <4>2
        <5>. QED
          BY <1>1, <3>1, <5>1 DEF Readable, Visible, readerVars
      <4>. QED
        BY <4>1, <4>2
    <3>2. Contents' \subseteq Contents \cup {epoch}
      <4>1. Readable' \subseteq Readable \cup {epoch}
        BY <1>1, <3>1 DEF Readable, readerVars
      <4>. QED
        BY <1>1, <4>1 DEF Contents, Under, Reading, readerVars
    <3>3. \A e \in Contents : e <= epoch /\ e \in Nat
      BY <2>1, ContentsPast
    <3>4. epoch \in Nat /\ raced' = raced \cup {epoch}
      BY <1>1, <2>3, BoundsAreNat DEF WorldType, Epoch
    <3>5. ASSUME NEW d \in Contents', NEW e \in Contents', d < e
          PROVE  e \in raced'
      <4>1. CASE e = epoch
        BY <3>4, <4>1
      <4>2. CASE e # epoch
        <5>1. e \in Contents /\ e <= epoch /\ e \in Nat
          BY <3>2, <3>3, <3>5, <4>2
        <5>2. d # epoch
          BY <3>4, <3>5, <5>1
        <5>3. d \in Contents
          BY <3>2, <3>5, <5>2
        <5>. QED
          BY <2>2, <3>4, <3>5, <5>1, <5>3 DEF OneContent, Explained
      <4>. QED
        BY <4>1, <4>2
    <3>6. Explained(Contents)'
      BY <3>5 DEF Explained
    <3>. QED
      BY <1>1, <2>3, <3>6 DEF OneContent, Covered
  <2>4. CASE ~Resetting /\ index.file # 1
    <3>1. files'[index.file] = files[index.file]
      BY <1>3, <1>4, <2>1, <2>4
    <3>2. Readable' \subseteq Readable
      BY <1>1, <3>1 DEF Readable, Visible, readerVars
    <3>3. OneContent'
      BY <1>1, <2>2, <2>4, <3>2, WorldPart DEF readerVars
    <3>. QED
      BY <1>1, <2>4, <3>3 DEF Covered, readerVars
  <2>5. CASE ~Resetting /\ index.file = 1
    <3>1. ~Unvalidated' => Covered'
      <4>1. ~Unvalidated => index.size <= Len(files[1])
        BY <1>1, <2>2, <2>5 DEF Covered
      <4>2. index.size <= Len(files[1]) => index.size <= Len(new)
        BY <1>2, <1>4
      <4>. QED
        BY <1>1, <1>3, <2>1, <4>1, <4>2 DEF Covered, readerVars
    <3>2. CASE path = 1
      <4>1. Contents \subseteq {epoch}
        BY <1>1, <2>2, <2>5, <3>2 DEF OneContent
      <4>2. Held(1)' \subseteq {epoch}
        BY <1>1, <3>2, StepFiles DEF FilesInv, Next
      <4>3. Readable' \subseteq Held(1)'
        BY <1>1, <2>5 DEF Readable, Held, readerVars
      <4>4. Contents' \subseteq {epoch}
        BY <1>1, <4>1, <4>2, <4>3 DEF Contents, Under, Reading, readerVars
      <4>5. OneContent'
        BY <1>1, <4>4 DEF OneContent, Explained, WorldType, Epoch
      <4>. QED
        BY <3>1, <4>5
    <3>3. CASE path # 1
      <4>1. ~Unvalidated /\ index.size <= Len(files[1])
        BY <1>1, <2>1, <2>2, <2>5, <3>3 DEF Believed, Covered
      <4>2. ASSUME NEW j \in 1..Len(new), j <= index.size
            PROVE  new[j] \in Readable
        <5>1. j \in 1..Len(files[1]) /\ new[j] = files[1][j]
          BY <1>2, <1>4, <4>1, <4>2
        <5>. QED
          BY <2>5, <4>2, <5>1 DEF Readable, Visible
      <4>3. Readable' \subseteq Readable
        BY <1>1, <1>3, <2>5, <3>3, <4>2 DEF Readable, Visible, readerVars
      <4>4. OneContent'
        BY <1>1, <2>2, <3>3, <4>3, WorldPart DEF readerVars
      <4>. QED
        BY <3>1, <4>4
    <3>. QED
      BY <3>2, <3>3
  <2>. QED
    BY <2>3, <2>4, <2>5
<1>. QED
  BY <1>5, <1>6 DEF IndexInv

LEMMA TruncateIndex ==
  ASSUME WorldType, ReaderType, IndexInv, Truncate
  PROVE  IndexInv'
<1>1. UNCHANGED <<path, token, readerVars, raced>> /\ Resetting'
  BY DEF Truncate, Resetting, writerVars
<1>2. files'[path] = <<>> /\ \A f \in File \ {path} : files'[f] = files[f]
  BY DEF Truncate, WorldType
<1>3. Ordered'
  BY <1>1 DEF IndexInv, Ordered, readerVars
<1>4. ASSUME Believed'
      PROVE  OneContent' /\ Covered'
  <2>1. Believed /\ index.file \in File
    BY <1>1, <1>4, FilesThere DEF Believed, Unvalidated, readerVars
  <2>2. Readable' \subseteq Readable
    <3>1. CASE index.file = path
      BY <1>1, <1>2, <3>1 DEF Readable, readerVars
    <3>2. CASE index.file # path
      BY <1>1, <1>2, <2>1, <3>2 DEF Readable, Visible, readerVars
    <3>. QED
      BY <3>1, <3>2
  <2>. QED
    BY <1>1, <2>1, <2>2, WorldPart DEF IndexInv, Covered
<1>. QED
  BY <1>3, <1>4 DEF IndexInv

LEMMA ReplaceIndex ==
  ASSUME WorldType, ReaderType, IndexInv, NEW n \in 0..MaxLen, Replace(n)
  PROVE  IndexInv'
<1>1. UNCHANGED <<token, tpc, readerVars, raced>> /\ path' = path + 1
  BY DEF Replace, writerVars
<1>2. /\ \A f \in File \ {path + 1} : files'[f] = files[f]
      /\ path \in Nat /\ path >= 1 /\ index.file \in Nat /\ index.file <= path
      /\ index.file # 0 => index.file \in File
  BY FilesThere DEF Replace, WorldType
<1>3. Ordered'
  BY <1>1 DEF IndexInv, Ordered, readerVars
<1>4. ASSUME Believed'
      PROVE  OneContent' /\ (~Unvalidated' => Covered')
  <2>0. path' # index.file /\ index' = index /\ stat' = stat
        /\ (Unvalidated' <=> Unvalidated)
    BY <1>1, <1>2 DEF Unvalidated, readerVars
  <2>1. Believed /\ ~Unvalidated' /\ ~Unvalidated /\ index.file \in File
    BY <1>1, <1>2, <1>4, <2>0 DEF Believed, readerVars
  <2>2. path' # 1 /\ path' # index.file /\ index.file # path + 1 /\ 1 # path + 1
    BY <1>1, <1>2
  <2>3. files'[index.file] = files[index.file] /\ files'[1] = files[1]
    BY <1>2, <2>1, <2>2, FirstFile
  <2>4. Readable' \subseteq Readable
    BY <1>1, <2>2, <2>3 DEF Readable, Visible, readerVars
  <2>5. OneContent'
    BY <1>1, <2>1, <2>2, <2>4, WorldPart DEF IndexInv
  <2>6. Covered'
    BY <1>1, <2>1, <2>3 DEF IndexInv, Covered, Resetting, readerVars
  <2>. QED
    BY <2>5, <2>6
<1>. QED
  BY <1>3, <1>4 DEF IndexInv

\* A mark ends what an index that was compared before is believed.
LEMMA MarkIndex ==
  ASSUME WorldType, ReaderType, IndexInv, MarkReset
  PROVE  IndexInv'
<1>1. UNCHANGED readerVars /\ token' = token + 1 /\ token \in Nat /\ index.token \in Nat
  BY DEF MarkReset, WorldType, ReaderType, Index
<1>2. index'.token # token' /\ index'.token <= token'
  <2>1. index' = index /\ index.token <= token
    BY <1>1 DEF IndexInv, Ordered, readerVars
  <2>2. index.token # token + 1 /\ index.token <= token + 1
    BY <1>1, <2>1
  <2>. QED
    BY <1>1, <2>1, <2>2
<1>3. Ordered'
  BY <1>1, <1>2 DEF IndexInv, Ordered, readerVars
<1>. QED
  BY <1>2, <1>3 DEF IndexInv, Believed

LEMMA MarkFailsIndex ==
  ASSUME WorldType, ReaderType, IndexInv, MarkFails
  PROVE  IndexInv'
<1>1. UNCHANGED <<fileVars, readerVars, raced>> /\ Resetting /\ Resetting'
  BY DEF MarkFails, Resetting, writerVars
<1>2. Ordered'
  BY <1>1 DEF IndexInv, Ordered, readerVars, fileVars
<1>3. ASSUME Believed'
      PROVE  OneContent' /\ Covered'
  <2>1. Believed
    BY <1>1, <1>3 DEF Believed, Unvalidated, readerVars, fileVars
  <2>2. Readable' \subseteq Readable
    BY <1>1 DEF Readable, Visible, readerVars, fileVars
  <2>. QED
    BY <1>1, <2>1, <2>2, WorldPart DEF IndexInv, Covered
<1>. QED
  BY <1>2, <1>3 DEF IndexInv

LEMMA InvalidateIndex ==
  ASSUME ReaderType, IndexInv, Invalidate
  PROVE  IndexInv'
<1>1. /\ UNCHANGED <<token, rpc, stat, out, shown>> /\ rpc = "idle"
      /\ index' = [index EXCEPT !.file = 0]
  BY DEF Invalidate, fileVars
<1>2. index'.file = 0 /\ index'.token = index.token /\ index'.generation = index.generation
  BY <1>1 DEF ReaderType, Index
<1>3. Ordered'
  BY <1>1, <1>2 DEF IndexInv, Ordered
<1>. QED
  BY <1>2, <1>3 DEF IndexInv, Believed

-----------------------------------------------------------------------------
(* Steps of a request, which leave the world as it is.                     *)

World == UNCHANGED <<fileVars, writerVars, tpc>>

LEMMA RequestWorld == Request => World
BY DEF Request, World, Open, Compare, Scan, CheckStat, CheckToken, ReadToken, ReadOpen,
   ReadData, ReadStat, ReadValidated, EndStat, Answer, Goto, Fail, FailRefresh, readerVars

\* An index that starts over is not believed.
LEMMA StartsOver ==
  ASSUME ReaderType, IndexInv, World, rpc' = "idle", index' = [index EXCEPT !.file = 0],
         UNCHANGED <<stat, out, shown>>
  PROVE  IndexInv'
<1>1. index'.file = 0 /\ index'.token = index.token /\ index'.generation = index.generation
  BY DEF ReaderType, Index
<1>2. Ordered'
  BY <1>1 DEF IndexInv, Ordered, World, fileVars
<1>. QED
  BY <1>1, <1>2 DEF IndexInv, Believed

\* A step that lets nothing new be read under the generation.
LEMMA ReaderPart ==
  ASSUME OneContent, World, index'.file = index.file, Contents' \subseteq Contents
  PROVE  OneContent'
BY OneContentPart DEF World, fileVars, writerVars, Resetting

LEMMA OpenIndex ==
  ASSUME WorldType, ReaderType, IndexInv, Open
  PROVE  IndexInv'
<1>1. /\ UNCHANGED <<index, shown>> /\ World /\ rpc = "idle" /\ rpc' = "opened"
      /\ out' = {} /\ stat'.file = path
  BY DEF Open, World
<1>2. path # 0
  BY FilesThere
<1>3. Ordered'
  BY <1>1, <1>2 DEF IndexInv, Ordered, World, fileVars
<1>4. ASSUME Believed'
      PROVE  OneContent' /\ Covered'
  <2>1. Believed /\ ~Unvalidated
    BY <1>1, <1>4 DEF Believed, Unvalidated, World, fileVars
  <2>2. Readable' = Readable
    BY <1>1 DEF Readable, Visible, World, fileVars
  <2>3. Contents' \subseteq Contents
    BY <1>1, <2>2 DEF Contents, Under, Reading
  <2>. QED
    BY <1>1, <2>1, <2>3, ReaderPart DEF IndexInv, Covered, Resetting, World, fileVars
<1>. QED
  BY <1>3, <1>4 DEF IndexInv

LEMMA CompareIndex ==
  ASSUME WorldType, ReaderType, FilesInv, IndexInv, Compare
  PROVE  IndexInv'
<1>1. /\ UNCHANGED <<stat, out, shown>> /\ World /\ rpc = "opened" /\ rpc' = "scan"
      /\ stat.file # 0 /\ stat.file \in File /\ out = {}
  <2>1. /\ UNCHANGED <<stat, out, shown>> /\ World /\ rpc = "opened" /\ rpc' = "scan"
    BY DEF Compare, World
  <2>. QED
    BY <2>1, FilesThere DEF IndexInv, Ordered
<1>2. CASE Reset
  <2>1. index' = [file |-> stat.file, size |-> 0, mtime |-> index.mtime, token |-> token,
                  generation |-> index.generation + 1, epochs |-> {}]
    BY <1>2 DEF Compare
  <2>2. /\ index'.file = stat.file /\ index'.token = token /\ index'.epochs = {}
        /\ index'.generation = index.generation + 1
    BY <2>1
  <2>3. /\ index.generation \in Nat /\ token \in Nat
        /\ \A p \in shown : p[1] \in Nat /\ p[1] <= index.generation
    BY DEF WorldType, ReaderType, Index, IndexInv, Ordered
  <2>4. /\ \A p \in shown : p[1] <= index'.generation
        /\ \A p \in shown : p[1] # index'.generation
    BY <2>2, <2>3
  <2>5. index'.token <= token'
    BY <1>1, <2>2, <2>3 DEF World, fileVars
  <2>6. Ordered'
    BY <1>1, <2>2, <2>4, <2>5 DEF Ordered
  <2>7. ASSUME Believed'
        PROVE  OneContent'
    <3>1. stat.file = path
      BY <1>1, <2>2, <2>7 DEF Believed, Unvalidated, World, fileVars
    <3>2. Under(index.generation)' = {}
      BY <1>1, <2>4 DEF Under
    <3>3. Contents' = Readable'
      BY <1>1, <2>2, <3>2 DEF Contents, Reading
    <3>4. Readable' \subseteq Held(path)
      BY <1>1, <2>2, <3>1 DEF Readable, Held, World, fileVars
    <3>5. AllEqual(Held(path)) /\ (path = 1 => Held(path) \subseteq {epoch})
      <4>1. CASE path = 1
        BY <4>1 DEF FilesInv, AllEqual
      <4>2. CASE path # 1
        BY <1>1, <3>1, <4>2 DEF FilesInv
      <4>. QED
        BY <4>1, <4>2
    <3>6. Explained(Contents)'
      <4>1. \A e \in Held(path) : e \in Nat
        BY <1>1, <3>1, FilesHoldEpochs, BoundsAreNat DEF Held, Epoch
      <4>. QED
        BY <3>3, <3>4, <3>5, <4>1 DEF AllEqual, Explained
    <3>7. path = 1 => Contents' \subseteq {epoch}
      BY <3>3, <3>4, <3>5
    <3>. QED
      BY <1>1, <3>6, <3>7 DEF OneContent, World, fileVars
  <2>. QED
    BY <1>1, <2>6, <2>7 DEF IndexInv, Unvalidated
<1>3. CASE ~Reset
  <2>1. /\ index.file = stat.file /\ index.token = token
        /\ index' = [index EXCEPT !.file = stat.file, !.token = token]
    BY <1>3 DEF Compare, Reset
  <2>2. index' = index
    BY <2>1 DEF ReaderType, Index
  <2>3. Ordered'
    BY <1>1, <2>1, <2>2 DEF IndexInv, Ordered, World, fileVars
  <2>4. Believed
    BY <1>1, <2>1 DEF Believed, Unvalidated
  <2>5. Readable' = Readable
    BY <1>1, <2>2 DEF Readable, Visible, World, fileVars
  <2>6. Contents' \subseteq Contents
    BY <1>1, <2>2, <2>5 DEF Contents, Under, Reading
  <2>7. OneContent'
    BY <1>1, <2>2, <2>4, <2>6, ReaderPart DEF IndexInv
  <2>. QED
    BY <1>1, <2>3, <2>7 DEF IndexInv, Unvalidated
<1>. QED
  BY <1>2, <1>3

LEMMA ScanIndex ==
  ASSUME WorldType, ReaderType, IndexInv, Scan
  PROVE  IndexInv'
<1>1. /\ UNCHANGED <<stat, out, shown>> /\ World /\ rpc = "scan" /\ out = {}
      /\ stat.file = index.file /\ index.file # 0
  <2>1. UNCHANGED <<stat, out, shown>> /\ World /\ rpc = "scan"
    BY DEF Scan, FailRefresh, World
  <2>. QED
    BY <2>1 DEF IndexInv, Ordered
<1>2. CASE rpc' = "idle" /\ index' = [index EXCEPT !.file = 0]
  BY <1>1, <1>2, StartsOver
<1>3. ASSUME NEW new \in SUBSET Epoch, rpc' = "check stat",
             index' = [index EXCEPT !.size = stat.size, !.mtime = stat.mtime,
                                    !.epochs = @ \cup new],
             new \subseteq Held(stat.file)
      PROVE  IndexInv'
  <2>1. /\ index'.file = index.file /\ index'.token = index.token
        /\ index'.generation = index.generation
        /\ index'.epochs = index.epochs \cup new
    BY <1>3 DEF ReaderType, Index
  <2>2. Ordered'
    BY <1>1, <1>3, <2>1 DEF IndexInv, Ordered, World, fileVars
  <2>3. ASSUME Believed'
        PROVE  OneContent'
    <3>1. Believed /\ path = index.file
      BY <1>1, <1>3, <2>1, <2>3 DEF Believed, Unvalidated, World, fileVars
    <3>2. Readable = Held(index.file) /\ Readable' = Held(index.file)
      BY <1>1, <2>1, <3>1 DEF Readable, Visible, Held, World, fileVars
    <3>3. new \subseteq Readable
      <4>1. Held(stat.file) = Readable
        BY <1>1, <3>2
      <4>. QED
        BY <1>3, <4>1
    <3>4. Under(index.generation)' = Under(index.generation) /\ ~Reading /\ ~Reading'
      <4>1. ~Reading /\ ~Reading'
        BY <1>1, <1>3 DEF Reading
      <4>2. shown' = shown /\ index'.generation = index.generation
        BY <1>1, <2>1
      <4>. QED
        BY <4>1, <4>2 DEF Under
    <3>5. Contents' \subseteq Contents
      BY <2>1, <3>2, <3>3, <3>4 DEF Contents
    <3>. QED
      BY <1>1, <2>1, <3>1, <3>5, ReaderPart DEF IndexInv
  <2>. QED
    BY <1>3, <2>2, <2>3 DEF IndexInv, Unvalidated
<1>. QED
  BY <1>1, <1>2, <1>3, ScanReads DEF Held

LEMMA CheckStatIndex ==
  ASSUME WorldType, ReaderType, IndexInv, CheckStat
  PROVE  IndexInv'
<1>1. /\ UNCHANGED <<index, out, shown>> /\ World /\ rpc = "check stat"
      /\ rpc' = "check token" /\ stat' = StatNow
  BY DEF CheckStat, Goto, World
<1>2. stat'.file = path /\ stat'.size = Len(files[path]) /\ path # 0
  <2>1. path # 0
    BY FilesThere
  <2>. QED
    BY <1>1, <2>1, StatNowType
<1>3. Ordered'
  BY <1>1, <1>2 DEF IndexInv, Ordered, World, fileVars
<1>4. ASSUME Believed'
      PROVE  OneContent' /\ Covered'
  <2>1. path = index.file /\ Len(files[path]) >= index.size /\ Believed
    BY <1>1, <1>2, <1>4 DEF Believed, Unvalidated, World, fileVars
  <2>2. Readable' = Readable
    BY <1>1 DEF Readable, Visible, World, fileVars
  <2>3. Contents' \subseteq Contents
    BY <1>1, <2>2 DEF Contents, Under, Reading
  <2>4. OneContent'
    BY <1>1, <2>1, <2>3, ReaderPart DEF IndexInv
  <2>5. Covered'
    BY <1>1, <2>1 DEF Covered, World, fileVars
  <2>. QED
    BY <2>4, <2>5
<1>. QED
  BY <1>3, <1>4 DEF IndexInv

LEMMA CheckTokenIndex ==
  ASSUME WorldType, ReaderType, IndexInv, CheckToken
  PROVE  IndexInv'
<1>1. UNCHANGED <<stat, out, shown>> /\ World /\ rpc = "check token"
  BY DEF CheckToken, FailRefresh, Goto, World
<1>2. CASE index.token = token /\ Agrees(stat)
  <2>1. rpc' = "window" /\ UNCHANGED index
    BY <1>2 DEF CheckToken, Goto
  <2>2. Ordered'
    BY <1>1, <2>1 DEF IndexInv, Ordered, World, fileVars
  <2>3. Believed /\ ~Unvalidated /\ out = {}
    BY <1>1, <1>2 DEF IndexInv, Ordered, Believed, Unvalidated, Agrees
  <2>4. Readable' = Readable
    BY <1>1, <2>1 DEF Readable, Visible, World, fileVars
  <2>5. Contents' \subseteq Contents
    BY <1>1, <2>1, <2>3, <2>4 DEF Contents, Under
  <2>6. OneContent'
    BY <1>1, <2>1, <2>3, <2>5, ReaderPart DEF IndexInv
  <2>7. Covered'
    BY <1>1, <2>1, <2>3 DEF IndexInv, Covered, Resetting, World, fileVars
  <2>. QED
    BY <2>2, <2>6, <2>7 DEF IndexInv
<1>3. CASE ~(index.token = token /\ Agrees(stat))
  BY <1>1, <1>3, StartsOver DEF CheckToken, FailRefresh
<1>. QED
  BY <1>2, <1>3

\* The other steps leave the index alone, and read nothing but what can be read
\* under its generation.
LEMMA ReadingIndex ==
  ASSUME WorldType, ReaderType, IndexInv, World, Reading, UNCHANGED <<index, shown>>,
         rpc' = "idle" \/ Reading',
         out' = out \/ out' \subseteq out \cup Readable,
         rpc' # "idle" => stat'.file # 0,
         rpc' = "read data" => stat'.file = index.file
  PROVE  IndexInv'
<1>1. ~Unvalidated /\ ~Unvalidated' /\ rpc' \notin {"opened", "scan", "check stat", "check token"}
  BY DEF Reading, Unvalidated
<1>2. Ordered'
  BY <1>1 DEF IndexInv, Ordered, Reading, World, fileVars
<1>3. ASSUME Believed'
      PROVE  OneContent' /\ Covered'
  <2>1. Believed
    BY <1>1, <1>3 DEF Believed, Reading, Unvalidated, World, fileVars
  <2>2. Readable' = Readable
    BY DEF Readable, Visible, World, fileVars
  <2>3. Contents' \subseteq Contents
    BY <2>2 DEF Contents, Under
  <2>4. OneContent'
    BY <2>1, <2>3, ReaderPart DEF IndexInv
  <2>. QED
    BY <1>1, <2>1, <2>4 DEF IndexInv, Covered, Resetting, World, fileVars
<1>. QED
  BY <1>2, <1>3 DEF IndexInv

LEMMA ReadDataIndex ==
  ASSUME WorldType, ReaderType, IndexInv, NEW i, ReadData(i)
  PROVE  IndexInv'
<1>1. /\ UNCHANGED <<index, shown, stat>> /\ World /\ Reading /\ i \in 1..index.size
      /\ rpc' \in {"idle", "read stat"} /\ rpc = "read data"
  BY DEF ReadData, Fail, World, Reading
<1>2. stat.file = index.file /\ stat.file # 0 /\ index.file \in File
  BY <1>1, FilesThere DEF IndexInv, Ordered
<1>3. out' \subseteq out \cup Readable
  <2>1. CASE i > Len(files[stat.file])
    BY <2>1 DEF ReadData, Fail
  <2>2. CASE ~(i > Len(files[stat.file]))
    <3>1. PICK l \in Nat : l = Len(files[index.file])
      BY <1>2 DEF WorldType
    <3>2. i \in 1..Len(files[index.file]) /\ i <= index.size
      <4>1. PICK n \in Nat : n = index.size
        BY BoundsAreNat DEF ReaderType, Index, Size
      <4>2. ~(i > l) /\ i \in 1..n
        BY <1>1, <1>2, <2>2, <3>1, <4>1
      <4>3. i \in 1..l /\ i <= n
        BY <4>2
      <4>. QED
        BY <3>1, <4>1, <4>3
    <3>3. files[stat.file][i] \in Readable
      BY <1>2, <3>2 DEF Readable, Visible
    <3>4. out' = out \cup {files[stat.file][i]}
      BY <2>2 DEF ReadData
    <3>. QED
      BY <3>3, <3>4
  <2>. QED
    BY <2>1, <2>2
<1>. QED
  BY <1>1, <1>2, <1>3, ReadingIndex DEF Reading

\* What is answered is what the generation stands for.
LEMMA AnswerIndex ==
  ASSUME WorldType, ReaderType, IndexInv, OneGenerationOneContent, Answer
  PROVE  IndexInv' /\ OneGenerationOneContent'
<1>1. /\ UNCHANGED <<index, stat, out>> /\ World /\ rpc = "end token" /\ rpc' = "idle"
  BY DEF Answer, Fail, World
<1>2. CASE ~(index.token = token /\ Agrees(stat))
  <2>1. UNCHANGED shown
    BY <1>2 DEF Answer, Fail
  <2>2. IndexInv'
    BY <1>1, <2>1, ReadingIndex DEF Reading
  <2>3. UNCHANGED raced
    BY <1>1 DEF World, writerVars
  <2>. QED
    BY <2>1, <2>2, <2>3 DEF OneGenerationOneContent
<1>3. CASE index.token = token /\ Agrees(stat)
  <2>1. PICK g \in Nat : g = index.generation
    BY DEF ReaderType, Index
  <2>2. PICK new \in SUBSET Epoch : new = out \cup index.epochs
    BY DEF ReaderType, Index
  <2>3. shown' = shown \cup {<<g, e>> : e \in new}
    BY <1>3, <2>1, <2>2 DEF Answer
  <2>4. Believed /\ ~Unvalidated /\ OneContent /\ Covered /\ Ordered
    BY <1>1, <1>3 DEF IndexInv, Ordered, Believed, Unvalidated
  <2>5. /\ Reading /\ ~Reading'
        /\ new \subseteq Contents /\ Under(g) \subseteq Contents
        /\ Readable \subseteq Contents /\ index.epochs \subseteq Contents
    BY <1>1, <2>1, <2>2 DEF Contents, Reading
  <2>6. \A p \in shown' : p \in shown \/ (p[1] = g /\ p[2] \in new)
    BY <2>3
  <2>7. Under(index.generation)' \subseteq Contents
    <3>1. SUFFICES ASSUME NEW e \in Epoch, <<g, e>> \in shown'
                   PROVE  e \in Contents
      BY <1>1, <2>1 DEF Under
    <3>2. CASE <<g, e>> \in shown
      BY <2>5, <3>2 DEF Under
    <3>3. CASE e \in new
      BY <2>5, <3>3
    <3>. QED
      BY <2>3, <3>1, <3>2, <3>3
  <2>8. Ordered'
    <3>1. \A p \in shown : p[1] <= g
      BY <2>1, <2>4 DEF Ordered
    <3>2. \A p \in shown' : p[1] <= g
      BY <2>6, <3>1
    <3>. QED
      BY <1>1, <2>1, <2>4, <3>2 DEF Ordered, World, fileVars
  <2>9. Readable' = Readable
    BY <1>1 DEF Readable, Visible, World, fileVars
  <2>10. Contents' \subseteq Contents
    BY <1>1, <2>5, <2>7, <2>9 DEF Contents
  <2>11. IndexInv'
    <3>1. OneContent'
      BY <1>1, <2>4, <2>10, ReaderPart
    <3>. QED
      BY <1>1, <2>4, <2>8, <3>1 DEF IndexInv, Covered, Resetting, World, fileVars
  <2>12. OneGenerationOneContent'
    <3>1. \A p \in shown : p[1] = g => p[2] \in Under(g)
      BY DEF ReaderType, Under
    <3>2. \A p \in shown' : p[1] = g => p[2] \in Contents
      BY <2>5, <2>6, <3>1
    <3>3. ASSUME NEW x \in shown', NEW y \in shown', x[1] = y[1], x[2] < y[2]
          PROVE  y[2] \in raced'
      <4>0. raced' = raced
        BY <1>1 DEF World, writerVars
      <4>1. CASE x[1] = g
        BY <2>4, <3>2, <3>3, <4>0, <4>1 DEF OneContent, Explained
      <4>2. CASE x[1] # g
        BY <2>6, <3>3, <4>0, <4>2 DEF OneGenerationOneContent
      <4>. QED
        BY <4>1, <4>2
    <3>. QED
      BY <3>3 DEF OneGenerationOneContent
  <2>. QED
    BY <2>11, <2>12
<1>. QED
  BY <1>2, <1>3

LEMMA ReadTokenIndex ==
  ASSUME WorldType, ReaderType, IndexInv, ReadToken
  PROVE  IndexInv'
<1>1. /\ UNCHANGED <<index, out, shown, stat>> /\ World /\ Reading
      /\ rpc' \in {"idle", "read open"}
  BY DEF ReadToken, Goto, Fail, World, Reading
<1>2. rpc' = "idle" \/ Reading'
  BY <1>1 DEF Reading
<1>3. stat.file # 0
  BY <1>1 DEF IndexInv, Ordered, Reading
<1>. QED
  BY <1>1, <1>2, <1>3, ReadingIndex

LEMMA ReadOpenIndex ==
  ASSUME WorldType, ReaderType, IndexInv, ReadOpen
  PROVE  IndexInv'
<1>1. UNCHANGED <<index, out, shown>> /\ World /\ Reading
  BY DEF ReadOpen, Goto, Fail, World, Reading
<1>2. CASE Agrees(StatNow)
  <2>1. rpc' = "read data" /\ stat' = StatNow
    BY <1>2 DEF ReadOpen, Goto
  <2>2. Reading'
    BY <2>1 DEF Reading
  <2>3. stat'.file = index.file
    BY <1>2, <2>1 DEF Agrees
  <2>4. stat'.file # 0
    BY <1>1, <2>3 DEF IndexInv, Ordered, Reading
  <2>. QED
    BY <1>1, <2>2, <2>3, <2>4, ReadingIndex
<1>3. CASE ~Agrees(StatNow)
  BY <1>1, <1>3, ReadingIndex DEF ReadOpen, Fail
<1>. QED
  BY <1>2, <1>3

\* The log's path is looked at again.
LEMMA ReadStatIndex ==
  ASSUME WorldType, ReaderType, IndexInv, ReadStat \/ EndStat
  PROVE  IndexInv'
<1>1. /\ UNCHANGED <<index, out, shown>> /\ World /\ Reading
      /\ rpc' \in {"read token", "end token"} /\ stat' = StatNow
  BY DEF ReadStat, EndStat, Goto, World, Reading
<1>2. Reading' /\ rpc' # "read data"
  BY <1>1 DEF Reading
<1>3. stat'.file # 0
  <2>1. path # 0
    BY FilesThere
  <2>. QED
    BY <1>1, <2>1, StatNowType
<1>. QED
  BY <1>1, <1>2, <1>3, ReadingIndex

LEMMA ReadValidatedIndex ==
  ASSUME WorldType, ReaderType, IndexInv, ReadValidated
  PROVE  IndexInv'
<1>1. /\ UNCHANGED <<index, out, shown>> /\ World /\ Reading
      /\ rpc' = "idle" \/ (rpc' = "window" /\ stat' = stat)
  BY DEF ReadValidated, Goto, Fail, World, Reading
<1>2. rpc' = "idle" \/ Reading'
  BY <1>1 DEF Reading
<1>3. stat.file # 0
  BY <1>1 DEF IndexInv, Ordered, Reading
<1>. QED
  BY <1>1, <1>2, <1>3, ReadingIndex

-----------------------------------------------------------------------------
(* The invariant.                                                          *)

LEMMA InitIndex == Init => IndexInv /\ OneGenerationOneContent
<1>. SUFFICES ASSUME Init PROVE IndexInv /\ OneGenerationOneContent
  OBVIOUS
<1>1. index.file = 0 /\ index.token = 0 /\ token = 0 /\ shown = {} /\ rpc = "idle"
  BY DEF Init
<1>2. Ordered
  BY <1>1, BoundsAreNat DEF Ordered
<1>. QED
  BY <1>1, <1>2 DEF IndexInv, Believed, OneGenerationOneContent

LEMMA StepIndex ==
  ASSUME WorldType, ReaderType, FilesInv, PastFiles, PastReader, IndexInv,
         OneGenerationOneContent, [Next]_vars
  PROVE  IndexInv' /\ OneGenerationOneContent'
<1>1. CASE Write
  <2>1. UNCHANGED shown /\ raced \subseteq raced'
    BY <1>1 DEF Write, readerVars
  <2>. QED
    BY <1>1, <2>1, WriteIndex DEF OneGenerationOneContent
<1>2. CASE Truncate
  <2>1. UNCHANGED <<shown, raced>>
    BY <1>2 DEF Truncate, readerVars, writerVars
  <2>. QED
    BY <1>2, <2>1, TruncateIndex DEF OneGenerationOneContent
<1>3. CASE MarkReset
  <2>1. UNCHANGED <<shown, raced>>
    BY <1>3 DEF MarkReset, readerVars, writerVars
  <2>. QED
    BY <1>3, <2>1, MarkIndex DEF OneGenerationOneContent
<1>4. CASE MarkFails
  <2>1. UNCHANGED <<shown, raced>>
    BY <1>4 DEF MarkFails, readerVars, writerVars
  <2>. QED
    BY <1>4, <2>1, MarkFailsIndex DEF OneGenerationOneContent
<1>5. CASE Invalidate
  <2>1. UNCHANGED <<shown, raced>>
    BY <1>5 DEF Invalidate, writerVars
  <2>. QED
    BY <1>5, <2>1, InvalidateIndex DEF OneGenerationOneContent
<1>6. CASE \E n \in 0..MaxLen : Replace(n)
  <2>1. PICK n \in 0..MaxLen : Replace(n)
    BY <1>6
  <2>2. UNCHANGED <<shown, raced>>
    BY <2>1 DEF Replace, readerVars, writerVars
  <2>. QED
    BY <2>1, <2>2, ReplaceIndex DEF OneGenerationOneContent
<1>7. CASE Request /\ ~Answer
  <2>1. UNCHANGED <<shown, raced>>
    BY <1>7 DEF Request, Open, Compare, Scan, CheckStat, CheckToken, ReadToken, ReadOpen,
       ReadData, ReadStat, ReadValidated, EndStat, Goto, Fail, FailRefresh, writerVars
  <2>2. IndexInv'
    BY <1>7, OpenIndex, CompareIndex, ScanIndex, CheckStatIndex, CheckTokenIndex,
       ReadTokenIndex, ReadOpenIndex, ReadDataIndex, ReadStatIndex, ReadValidatedIndex
       DEF Request
  <2>. QED
    BY <2>1, <2>2 DEF OneGenerationOneContent
<1>8. CASE Answer
  BY <1>8, AnswerIndex
<1>9. CASE UNCHANGED vars
  <2>1. World /\ UNCHANGED readerVars
    BY <1>9 DEF vars, World
  <2>2. Ordered'
    BY <2>1 DEF IndexInv, Ordered, World, fileVars, readerVars
  <2>3. (Believed' <=> Believed) /\ (Unvalidated' <=> Unvalidated)
    BY <2>1 DEF Believed, Unvalidated, World, fileVars, readerVars
  <2>4. Readable' = Readable
    BY <2>1 DEF Readable, Visible, World, fileVars, readerVars
  <2>5. OneContent => OneContent'
    BY <2>1, <2>4, WorldPart DEF Resetting, World, fileVars, writerVars, readerVars
  <2>6. Covered => Covered'
    BY <2>1 DEF Covered, Resetting, World, fileVars, readerVars
  <2>7. OneGenerationOneContent'
    BY <2>1 DEF OneGenerationOneContent, World, writerVars, readerVars
  <2>. QED
    BY <2>2, <2>3, <2>5, <2>6, <2>7 DEF IndexInv
<1>. QED
  BY <1>1, <1>2, <1>3, <1>4, <1>5, <1>6, <1>7, <1>8, <1>9 DEF Next

\* A request under way has looked at a file.
Looked == rpc # "idle" => stat.file # 0

LEMMA StepLooked == ASSUME WorldType, ReaderType, Looked, [Next]_vars PROVE Looked'
<1>. USE DEF fileVars, writerVars, readerVars
<1>1. CASE UNCHANGED <<rpc, stat>> \/ rpc' = "idle"
  BY <1>1 DEF Looked
<1>2. CASE UNCHANGED stat /\ rpc # "idle"
  BY <1>2 DEF Looked
<1>3. CASE stat' = StatNow
  <2>1. path # 0
    BY FilesThere
  <2>. QED
    BY <1>3, <2>1, StatNowType DEF Looked
<1>4. CASE Request
  <2>1. (UNCHANGED stat /\ rpc # "idle") \/ stat' = StatNow
    BY <1>4 DEF Request, Open, Compare, Scan, CheckStat, CheckToken, ReadToken, ReadOpen,
       ReadData, ReadStat, ReadValidated, EndStat, Answer, Goto, Fail, FailRefresh, StatNow
  <2>. QED
    BY <1>2, <1>3, <2>1
<1>. QED
  BY <1>1, <1>4 DEF Next, Write, Truncate, MarkReset, MarkFails, Invalidate, Replace, vars

LEMMA TypesInvariant == Spec => [](WorldType /\ ReaderType /\ Looked)
<1>1. Init => WorldType /\ ReaderType /\ Looked
  BY WorldTypeInit DEF Init, Looked
<1>2. WorldType /\ ReaderType /\ Looked /\ [Next]_vars => (WorldType /\ ReaderType /\ Looked)'
  BY WorldTypeStep, ReaderTypeStep, StepLooked DEF Looked
<1>. QED
  BY <1>1, <1>2, PTL DEF Spec

LEMMA BoundedSequence ==
  ASSUME NEW S, NEW s \in Seq(S), Len(s) <= MaxLen
  PROVE  s \in BoundedSeq(S, MaxLen)
<1>1. PICK m \in Nat : m = Len(s)
  OBVIOUS
<1>2. m \in 0..MaxLen
  BY <1>1, BoundsAreNat
<1>3. s \in [1..m -> S]
  BY <1>1
<1>. QED
  BY <1>2, <1>3, Zenon DEF BoundedSeq, SeqOf

LEMMA TypesMean == WorldType /\ ReaderType => TypeOK
<1>. SUFFICES ASSUME WorldType, ReaderType PROVE TypeOK
  OBVIOUS
<1>1. files \in [File -> BoundedSeq(0..MaxResets, MaxLen)]
  <2>1. ASSUME NEW f \in File
        PROVE  files[f] \in BoundedSeq(0..MaxResets, MaxLen)
    <3>1. PICK s \in Seq(0..MaxResets) : s = files[f] /\ Len(s) <= MaxLen
      BY DEF WorldType, Epoch
    <3>. QED
      BY <3>1, BoundedSequence, Zenon
  <2>. QED
    BY <2>1 DEF WorldType
<1>2. token \in 0..MaxResets /\ epoch \in 0..MaxResets
  BY BoundsAreNat DEF WorldType, Epoch
<1>3. wfile \in File /\ index.file \in File \cup {0}
  BY FirstFile, FilesThere DEF WorldType
<1>4. index.size \in 0..MaxLen /\ index.epochs \cup out \subseteq 0..MaxResets
  BY DEF ReaderType, Index, Size, Epoch
<1>5. raced \subseteq 0..MaxResets
  BY DEF WorldType, Epoch
<1>. QED
  BY <1>1, <1>2, <1>3, <1>4, <1>5 DEF TypeOK, WorldType, ReaderType, Size, Place

\* The logs, the index and the requests keep their types, and the files and the
\* index stay within the bounds (src/log_window.rs LineIndex).
THEOREM TypeAlways == Spec => []TypeOK
BY TypesInvariant, TypesMean, PTL

\* Of what is answered under one generation, a second content of the log can
\* only be one that the writer began before the log was marked: but for that
\* race, what refresh_inner resets on and validate_snapshot refuses is enough,
\* for readers that lock nothing (src/log_window.rs;
\* docs/LOG_PROJECTION_PLAN.md:490).
THEOREM OneGenerationAlways == Spec => []OneGenerationOneContent
<1>. DEFINE Inv == /\ WorldType /\ ReaderType /\ Looked /\ PastFiles /\ PastReader
                   /\ FilesInv /\ IndexInv /\ OneGenerationOneContent
<1>1. Init => Inv
  BY WorldTypeInit, InitFiles, InitPast, InitIndex DEF Init, Looked
<1>2. Inv /\ [Next]_vars => Inv'
  BY WorldTypeStep, ReaderTypeStep, StepLooked, StepFiles, StepPastFiles, StepPastReader,
     StepIndex DEF Looked
<1>. QED
  BY <1>1, <1>2, PTL DEF Spec
==============================================================================
