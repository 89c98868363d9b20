-------------------------- MODULE ScanRestoreProofs --------------------------
(***************************************************************************)
(* What the scan finds, for devices of any size, every pattern of          *)
(* unreadable bytes, and every size of clusters and entries.               *)
(***************************************************************************)
EXTENDS ScanRestore, Iteration, SequenceTheorems

LineType == [kind : {"FDE", "EFL", "EFI", "EFN", "BAD_CLUSTER", "CLUSTER"},
             ofs : Int, at : Nat]

Types ==
  /\ dev \in [bytes : Seq(ByteType), bad : SUBSET Nat]
  /\ pos \in Nat /\ c \in Nat /\ buf \in Nat \X Nat /\ cluster_ptr \in Nat
  /\ file_directory_entry \in BOOLEAN /\ subcount \in Nat
  /\ log \in Seq(LineType) /\ scanned \in SUBSET (Nat \X Nat)
  /\ pc \in {"read", "search", "restore", "done", "terminated", "undefined"}

\* The buffers lie one after the other on the device: the cluster number runs
\* ahead of the position, so the scan never goes back.
BuffersApart ==
  /\ pc \in {"read", "search"} =>
       pos <= (IF pc = "search" THEN c + 1 ELSE c) * ClusterSize
  /\ pc = "search" => pos = buf[1] + buf[2] /\ pos <= Size
  /\ \A s \in scanned :
       s[1] + s[2] <= Size /\ s[1] + s[2] <= (IF pc = "search" THEN buf[1] ELSE pos)
  /\ \A p \in Found : p < pos /\ p < Size /\ (pc = "search" => p < At)

\* The part of the buffer that was searched so far.
SearchedSoFar ==
  pc = "search" =>
    /\ \A p \in buf[1] .. At - 1 :
         Examined(buf, p) /\ Whole(p, buf[1] + buf[2]) => Covered(p)
    /\ \A p \in Found : \A k \in 1 .. Byte(p).cont :
         p >= buf[1] /\ p + k * Entry < At => Logged(p + k * Entry)

\* Where the search is in the set it found last.
InSet(f) ==
  /\ f >= buf[1] /\ subcount <= Byte(f).cont
  /\ At = f + (Byte(f).cont + 1 - subcount) * Entry
  /\ \A p \in Found : p >= buf[1] => p = f \/ SetEnd(p) <= f
SetProgress ==
  pc = "search" =>
    IF file_directory_entry THEN \E f \in Found : InSet(f)
    ELSE \A p \in Found : p >= buf[1] => SetEnd(p) <= At

\* Without errors in the middle of a cluster the scan is at its cluster.
Aligned ==
  /\ pc = "read" => pos = c * ClusterSize \/ (pos = Size /\ Size <= c * ClusterSize)
  /\ pc = "search" =>
       /\ buf[1] = c * ClusterSize
       /\ buf[2] = ClusterSize \/ (buf[2] < ClusterSize /\ buf[1] + buf[2] = Size)
ScannedOne(k) == \E s \in scanned : ClusterRange(k) \subseteq s[1] .. s[1] + s[2] - 1
ScannedTo ==
  /\ Start <= c
  /\ \A k \in Start .. c - 1 : Intact(k) => ScannedOne(k)
  /\ pc \in {"restore", "done", "terminated"} => \A k \in Nat : Intact(k) => ScannedOne(k)

ScanSafe ==
  /\ Types /\ BuffersApart /\ SearchedSoFar /\ SetProgress /\ SetsLogged
  /\ ErrorsAtStart => Aligned /\ ScannedTo

-----------------------------------------------------------------------------
(* Multiples, reads and the log.                                           *)

LEMMA TimesNext ==
  ASSUME NEW j \in Int, NEW n \in Int
  PROVE  (j + 1) * n = j * n + n /\ j * n \in Int
  OBVIOUS

LEMMA TimesLess ==
  ASSUME NEW j \in Int, NEW k \in Int, j <= k, NEW n \in Nat
  PROVE  j * n <= k * n
  <1>1. k - j \in Nat /\ (k - j) * n >= 0
    OBVIOUS
  <1>2. (k - j) * n = k * n - j * n
    OBVIOUS
  <1> QED BY <1>1, <1>2

\* One multiple only lies within n of another.
LEMMA TimesUnique ==
  ASSUME NEW j \in Int, NEW k \in Int, NEW n \in Nat \ {0},
         j * n <= k * n, k * n < j * n + n
  PROVE  k = j
  <1> DEFINE x == j * n
             y == k * n
  <1>0. x \in Int /\ y \in Int
    OBVIOUS
  <1>1. CASE k + 1 <= j
    <2>1. (k + 1) * n <= x /\ (k + 1) * n = y + n
      BY <1>1, TimesLess, TimesNext
    <2> HIDE DEF x, y
    <2> QED BY <1>0, <2>1 DEF x, y
  <1>2. CASE j + 1 <= k
    <2>1. (j + 1) * n <= y /\ (j + 1) * n = x + n
      BY <1>2, TimesLess, TimesNext
    <2> HIDE DEF x, y
    <2> QED BY <1>0, <2>1 DEF x, y
  <1> QED BY <1>1, <1>2

\* What a read returns ends where the device does, at the first byte that
\* cannot be read, or after a cluster.
LEMMA ReadableIs ==
  ASSUME Types, NEW p \in Nat
  PROVE  /\ Readable(p) \in 0 .. ClusterSize
         /\ \A q \in p .. p + Readable(p) - 1 : q < Size /\ q \notin dev.bad
         /\ Readable(p) < ClusterSize =>
              p + Readable(p) >= Size \/ p + Readable(p) \in dev.bad
  <1> DEFINE stops == {q \in p .. p + ClusterSize : q >= Size \/ q \in dev.bad
                                                    \/ q = p + ClusterSize}
             m == CHOOSE q \in stops : \A r \in stops : q <= r
  <1>1. ClusterSize \in Nat /\ Size \in Nat
    BY ScanAssumption DEF Types, Size
  <1>2. stops \subseteq Nat /\ p + ClusterSize \in stops
    BY <1>1
  <1>3. m \in stops /\ \A r \in stops : m <= r
    <2>1. \E q \in stops : \A r \in stops : q <= r
      <3>1. stops # {}
        BY <1>2
      <3> HIDE DEF stops
      <3> QED BY <1>2, <3>1, LeastNatural
    <2> HIDE DEF stops
    <2> QED BY <2>1
  <1>4. Readable(p) = m - p
    BY DEF Readable
  <1>5. m \in p .. p + ClusterSize /\ (m >= Size \/ m \in dev.bad \/ m = p + ClusterSize)
    <2> HIDE DEF m
    <2> QED BY <1>3
  <1>6. ASSUME NEW q \in p .. m - 1 PROVE q < Size /\ q \notin dev.bad
    <2> HIDE DEF m
    <2>1. q \notin stops /\ q \in p .. p + ClusterSize
      <3> HIDE DEF stops
      <3>1. q \in p .. p + ClusterSize /\ q < m
        BY <1>1, <1>5
      <3>2. m \in Int /\ q \in Int
        BY <1>1, <1>5
      <3> QED BY <1>3, <3>1, <3>2
    <2> QED BY <1>1, <2>1
  <1> HIDE DEF m, stops
  <1> QED BY <1>1, <1>4, <1>5, <1>6

\* The device does not change.
LEMMA DevSame ==
  ASSUME dev' = dev
  PROVE  /\ Size' = Size /\ (ErrorsAtStart' <=> ErrorsAtStart)
         /\ \A p : Byte(p)' = Byte(p) /\ SetEnd(p)' = SetEnd(p)
         /\ \A p, e : Whole(p, e)' <=> Whole(p, e)
         /\ \A k : Intact(k)' <=> Intact(k)
  BY DEF Size, ErrorsAtStart, Byte, SetEnd, Whole, Header, Continues, Intact, ClusterRange

LEMMA LogSame ==
  ASSUME dev' = dev, log' = log
  PROVE  /\ Found' = Found
         /\ \A p : (Covered(p) => Covered(p)') /\ (Logged(p) => Logged(p)')
  BY DevSame DEF Found, Covered, Logged, LoggedAt

LEMMA LogGrows ==
  ASSUME Types, dev' = dev, NEW l \in LineType, log' = Append(log, l)
  PROVE  /\ log' \in Seq(LineType)
         /\ Found' = Found \cup (IF l.kind = "FDE" THEN {l.at} ELSE {})
         /\ l.kind \in LoggedAt(l.at)'
         /\ \A p : (Covered(p) => Covered(p)') /\ (Logged(p) => Logged(p)')
  <1> DEFINE n == Len(log)
  <1>1. log \in Seq(LineType) /\ n \in Nat /\ DOMAIN log = 1 .. n
    BY DEF Types
  <1>2. /\ log' \in Seq(LineType) /\ DOMAIN log' = 1 .. n + 1 /\ log'[n + 1] = l
        /\ \A i \in 1 .. n : log'[i] = log[i]
    BY <1>1
  <1> HIDE DEF n
  <1>3. DOMAIN log' = DOMAIN log \cup {n + 1} /\ n + 1 \notin DOMAIN log
    BY <1>1, <1>2
  <1>4. Found' = Found \cup (IF l.kind = "FDE" THEN {l.at} ELSE {})
    <2>1. ASSUME NEW x PROVE x \in Found <=> \E j \in DOMAIN log : log[j].kind = "FDE" /\ log[j].at = x
      BY DEF Found
    <2>2. ASSUME NEW x
          PROVE  x \in Found' <=> \E j \in DOMAIN log' : log'[j].kind = "FDE" /\ log'[j].at = x
      BY DEF Found
    <2>3. ASSUME NEW x
          PROVE  x \in Found' <=> x \in Found \/ (l.kind = "FDE" /\ x = l.at)
      BY <1>1, <1>2, <1>3, <2>1, <2>2
    <2> QED BY <2>3
  <1>5. \A p : LoggedAt(p) \subseteq LoggedAt(p)'
    BY <1>1, <1>2, <1>3 DEF LoggedAt
  <1>6. l.kind \in LoggedAt(l.at)'
    BY <1>2, <1>3 DEF LoggedAt
  <1>7. \A p : (Covered(p) => Covered(p)') /\ (Logged(p) => Logged(p)')
    BY <1>4, <1>5, DevSame DEF Covered, Logged
  <1> QED BY <1>2, <1>4, <1>6, <1>7

\* What was scanned stays logged as the log grows.
LEMMA ScannedKept ==
  ASSUME ScanSafe, dev' = dev, scanned' = scanned,
         \A p : (Covered(p) => Covered(p)') /\ (Logged(p) => Logged(p)'),
         \A p \in Found' : p \in Found \/ \A s \in scanned : ~Examined(s, p)
  PROVE  SetsLogged'
  <1> SUFFICES ASSUME NEW s \in scanned
               PROVE  /\ \A p \in s[1] .. s[1] + s[2] - 1 :
                           (Examined(s, p) /\ Whole(p, s[1] + s[2])') => Covered(p)'
                      /\ \A p \in Found' : \A k \in 1 .. Byte(p)'.cont :
                           (Examined(s, p) /\ Examined(s, p + k * Entry)) =>
                              Logged(p + k * Entry)'
    BY DEF SetsLogged, Examined
  <1>1. \A p \in s[1] .. s[1] + s[2] - 1 :
          (Examined(s, p) /\ Whole(p, s[1] + s[2])') => Covered(p)'
    BY DevSame DEF ScanSafe, SetsLogged
  <1>2. ASSUME NEW p \in Found', NEW k \in 1 .. Byte(p)'.cont,
               Examined(s, p), Examined(s, p + k * Entry)
        PROVE  Logged(p + k * Entry)'
    <2>1. p \in Found /\ k \in 1 .. Byte(p).cont
      BY <1>2, DevSame
    <2> QED BY <1>2, <2>1 DEF ScanSafe, SetsLogged
  <1> QED BY <1>1, <1>2

-----------------------------------------------------------------------------
(* The steps within a buffer.                                              *)

LEMMA ByteIs ==
  ASSUME Types, NEW p \in Nat, p < Size
  PROVE  Byte(p) \in ByteType /\ Byte(p).cont \in Nat /\ Byte(p).sum \in BOOLEAN
  <1>1. dev.bytes \in Seq(ByteType) /\ Size = Len(dev.bytes)
    BY DEF Types, Size
  <1>2. p + 1 \in 1 .. Len(dev.bytes)
    BY <1>1
  <1>3. Byte(p) \in ByteType
    BY <1>1, <1>2, ElementOfSeq DEF Byte
  <1> QED BY <1>3 DEF ByteType

\* What the steps within a buffer need to know.
LEMMA Inside ==
  ASSUME ScanSafe, Searching
  PROVE  /\ Types /\ pc = "search" /\ At \in Nat /\ buf[1] \in Nat /\ buf[1] <= At
         /\ Entry \in Nat /\ Entry > 0
         /\ pos \in Nat /\ Size \in Nat /\ pos = buf[1] + buf[2] /\ pos <= Size
         /\ At + 2 * Entry < pos
         /\ Byte(At) \in ByteType /\ Byte(At).cont \in Nat /\ Byte(At).sum \in BOOLEAN
         /\ cluster_ofs \in Int
         /\ \A p \in Found : p \in Nat /\ p < At /\ Byte(p).cont \in Nat
         /\ \A s \in scanned : s[1] \in Nat /\ s[2] \in Nat /\ s[1] + s[2] <= buf[1]
  <1>1. /\ Types /\ pc = "search" /\ pos = buf[1] + buf[2] /\ pos <= Size
        /\ \A p \in Found : p < Size /\ p < At
        /\ \A s \in scanned : s[1] + s[2] <= buf[1]
    BY DEF ScanSafe, Searching, BuffersApart
  <1>2. /\ buf[1] \in Nat /\ buf[2] \in Nat /\ cluster_ptr \in Nat /\ c \in Nat /\ pos \in Nat
        /\ \A s \in scanned : s[1] \in Nat /\ s[2] \in Nat
    BY <1>1 DEF Types
  <1>3. Entry \in Nat /\ Entry > 0 /\ ClusterSize \in Nat /\ c * ClusterSize \in Int
    BY <1>2, ScanAssumption
  <1>4. Size \in Nat
    BY <1>1 DEF Types, Size
  <1>5. At \in Nat /\ buf[1] <= At /\ At + 2 * Entry < pos
    BY <1>1, <1>2, <1>3 DEF Searching, More, At
  <1>6. At < Size
    BY <1>1, <1>2, <1>3, <1>4, <1>5
  <1>7. Byte(At) \in ByteType /\ Byte(At).cont \in Nat /\ Byte(At).sum \in BOOLEAN
    BY <1>1, <1>5, <1>6, ByteIs
  <1>8. \A p \in Found : p \in Nat
    <2>1. log \in Seq(LineType) /\ \A i \in DOMAIN log : log[i] \in LineType
      BY <1>1, ElementOfSeq DEF Types
    <2>2. \A l \in LineType : l.at \in Nat
      BY DEF LineType
    <2> QED BY <2>1, <2>2 DEF Found
  <1>9. \A p \in Found : Byte(p).cont \in Nat
    BY <1>1, <1>8, ByteIs
  <1>10. cluster_ofs \in Int
    BY <1>2, <1>3 DEF cluster_ofs
  <1> QED BY <1>1, <1>2, <1>3, <1>4, <1>5, <1>7, <1>8, <1>9, <1>10

\* The position does not change, so the scan is as far as it was.
LEMMA AlignedKept ==
  ASSUME ScanSafe, UNCHANGED <<dev, pos, c, buf, scanned, pc>>
  PROVE  ErrorsAtStart' => Aligned' /\ ScannedTo'
  BY DevSame DEF ScanSafe, Aligned, ScannedTo, ScannedOne, ClusterRange

LEMMA SearchedIs ==
  ASSUME dev' = dev, buf' = buf, NEW e, At' = e,
         \A p \in buf[1] .. e - 1 :
           (Examined(buf, p) /\ Whole(p, buf[1] + buf[2])) => Covered(p)',
         \A p \in Found' : \A k \in 1 .. Byte(p).cont :
           (p >= buf[1] /\ p + k * Entry < e) => Logged(p + k * Entry)'
  PROVE  SearchedSoFar'
  <1>1. \A p \in buf'[1] .. At' - 1 :
          (Examined(buf, p)' /\ Whole(p, buf[1] + buf[2])') => Covered(p)'
    BY DevSame DEF Examined
  <1>2. \A p \in Found' : \A k \in 1 .. Byte(p)'.cont :
          (p >= buf'[1] /\ p + k * Entry < At') => Logged(p + k * Entry)'
    BY DevSame
  <1> QED BY <1>1, <1>2 DEF SearchedSoFar

\* An entry of a set lies before its end.
LEMMA EntryBeforeEnd ==
  ASSUME NEW p \in Nat, Byte(p).cont \in Nat, Entry \in Nat, NEW k \in 1 .. Byte(p).cont
  PROVE  /\ k * Entry \in Nat /\ (Byte(p).cont + 1) * Entry \in Nat
         /\ p + k * Entry + Entry <= SetEnd(p)
         /\ Entry <= k * Entry
  <1> DEFINE n == Byte(p).cont
             x == k * Entry
             y == (n + 1) * Entry
             z == (k + 1) * Entry
  <1>1. n \in Nat /\ k \in Nat /\ 1 <= k /\ k + 1 <= n + 1
    OBVIOUS
  <1> HIDE DEF n
  <1>2. x \in Nat /\ y \in Nat /\ z = x + Entry
    BY <1>1, TimesNext
  <1>3. z <= y
    BY <1>1, TimesLess
  <1>4. 1 * Entry <= x
    BY <1>1, TimesLess
  <1>5. SetEnd(p) = p + y
    BY DEF SetEnd, n
  <1> HIDE DEF x, y, z
  <1>6. x + Entry <= y /\ p + x + Entry <= p + y /\ Entry <= x
    BY <1>2, <1>3, <1>4
  <1> QED BY <1>2, <1>5, <1>6 DEF x, y, n

LEMMA FoundSetHolds ==
  ASSUME ScanSafe, FoundSet
  PROVE  ScanSafe'
  <1>1. /\ Searching /\ UNCHANGED <<dev, pos, c, buf, scanned, pc>>
        /\ log' = Append(log, Line("FDE", cluster_ofs, At))
        /\ file_directory_entry' = TRUE /\ subcount' = Byte(At).cont
        /\ cluster_ptr' = cluster_ptr + Entry /\ file_directory_entry = FALSE
        /\ Continues(At)
    BY DEF FoundSet, ScanSafe, Types
  <1>2. /\ Types /\ pc = "search" /\ At \in Nat /\ buf[1] \in Nat /\ buf[1] <= At
        /\ Entry \in Nat /\ Entry > 0
        /\ pos \in Nat /\ Size \in Nat /\ pos = buf[1] + buf[2] /\ pos <= Size
        /\ At + 2 * Entry < pos
        /\ Byte(At) \in ByteType /\ Byte(At).cont \in Nat
        /\ cluster_ofs \in Int
        /\ \A p \in Found : p \in Nat /\ p < At /\ Byte(p).cont \in Nat
        /\ \A s \in scanned : s[1] \in Nat /\ s[2] \in Nat /\ s[1] + s[2] <= buf[1]
    BY <1>1, Inside
  <1>0. PICK a : a = At
    OBVIOUS
  <1> DEFINE l == Line("FDE", cluster_ofs, At)
  <1>3. l \in LineType /\ l.kind = "FDE" /\ l.at = a
    BY <1>0, <1>2 DEF LineType, Line
  <1>4. At' = a + Entry
    <2>1. buf[1] \in Nat /\ cluster_ptr \in Nat
      BY <1>2 DEF Types
    <2>2. At' = buf[1] + (cluster_ptr + Entry) /\ a = buf[1] + cluster_ptr
      BY <1>0, <1>1 DEF At
    <2> QED BY <1>2, <2>1, <2>2
  <1> HIDE DEF l
  <1>5. /\ log' \in Seq(LineType) /\ Found' = Found \cup {a}
        /\ \A p : (Covered(p) => Covered(p)') /\ (Logged(p) => Logged(p)')
    BY <1>1, <1>2, <1>3, LogGrows DEF l
  <1>6. Types'
    <2>1. cluster_ptr' \in Nat
      BY <1>1, <1>2 DEF Types
    <2> QED BY <1>1, <1>2, <1>5, <2>1 DEF Types
  <1>7. a \in Nat /\ a = At /\ a < pos /\ a < Size /\ a < a + Entry
    BY <1>0, <1>2
  <1>8. BuffersApart'
    <2>1. \A p \in Found' : p < pos /\ p < Size /\ p < a + Entry
      BY <1>2, <1>5, <1>7
    <2> QED BY <1>1, <1>4, <2>1, DevSame DEF ScanSafe, BuffersApart
  <1>9. \A p \in Found : p >= buf[1] => SetEnd(p) <= a
    BY <1>1, <1>2, <1>7 DEF ScanSafe, SetProgress
  <1>10. /\ SetEnd(a) >= a + Entry
         /\ \A k \in 1 .. Byte(a).cont : k * Entry \in Nat /\ Entry <= k * Entry
    <2>1. Byte(a).cont \in Nat /\ 1 \in 1 .. Byte(a).cont
      BY <1>1, <1>2, <1>7 DEF Continues
    <2>2. \A k \in 1 .. Byte(a).cont : k * Entry \in Nat /\ Entry <= k * Entry
      BY <1>2, <1>7, <2>1, EntryBeforeEnd
    <2>3. a + 1 * Entry + Entry <= SetEnd(a)
      BY <1>2, <1>7, <2>1, EntryBeforeEnd
    <2>4. SetEnd(a) \in Int
      BY <1>2, <1>7, <2>1 DEF SetEnd
    <2>5. 1 * Entry = Entry
      BY <1>2
    <2> QED BY <1>2, <1>7, <2>2, <2>3, <2>4, <2>5
  <1>11. SearchedSoFar'
    <2>1. ASSUME NEW p \in buf[1] .. (a + Entry) - 1, Examined(buf, p), Whole(p, buf[1] + buf[2])
          PROVE  Covered(p)'
      <3>1. CASE p < a
        <4>1. Covered(p)
          BY <1>2, <1>7, <2>1, <3>1 DEF ScanSafe, SearchedSoFar
        <4> QED BY <1>5, <4>1
      <3>2. CASE p = a
        BY <1>5, <3>2 DEF Covered
      <3>3. CASE p > a
        <4>1. p < SetEnd(a)' /\ a \in Found'
          <5>1. SetEnd(a)' = SetEnd(a)
            BY <1>1, DevSame
          <5>2. SetEnd(a) \in Int /\ p \in Int /\ p < a + Entry
            BY <1>2, <1>7 DEF SetEnd
          <5> QED BY <1>2, <1>5, <1>7, <1>10, <5>1, <5>2
        <4> QED BY <3>3, <4>1 DEF Covered
      <3> QED BY <1>2, <1>7, <3>1, <3>2, <3>3
    <2>2. ASSUME NEW p \in Found', NEW k \in 1 .. Byte(p).cont,
                 p >= buf[1], p + k * Entry < a + Entry
          PROVE  Logged(p + k * Entry)'
      <3>1. p # a
        BY <1>2, <1>7, <1>10, <2>2
      <3>2. p \in Found /\ p \in Nat /\ Byte(p).cont \in Nat /\ SetEnd(p) <= a
        BY <1>2, <1>5, <1>9, <2>2, <3>1
      <3>3. k * Entry \in Nat /\ p + k * Entry + Entry <= SetEnd(p) /\ SetEnd(p) \in Int
        <4>1. (Byte(p).cont + 1) * Entry \in Nat
          BY <1>2, <3>2, EntryBeforeEnd
        <4> QED BY <1>2, <3>2, <4>1, EntryBeforeEnd DEF SetEnd
      <3>4. p + k * Entry < a
        BY <1>2, <1>7, <3>2, <3>3
      <3>5. Logged(p + k * Entry)
        BY <1>2, <1>7, <2>2, <3>2, <3>4 DEF ScanSafe, SearchedSoFar
      <3> QED BY <1>5, <3>5
    <2>3. \A p \in buf[1] .. (a + Entry) - 1 :
            (Examined(buf, p) /\ Whole(p, buf[1] + buf[2])) => Covered(p)'
      BY <2>1
    <2>4. \A p \in Found' : \A k \in 1 .. Byte(p).cont :
            (p >= buf[1] /\ p + k * Entry < a + Entry) => Logged(p + k * Entry)'
      BY <2>2
    <2>5. dev' = dev /\ buf' = buf
      BY <1>1
    <2> QED BY <1>4, <2>3, <2>4, <2>5, SearchedIs, Zenon
  <1>12. SetProgress'
    <2>1. a + Entry = a + (Byte(a).cont + 1 - Byte(a).cont) * Entry
      BY <1>2, <1>7
    <2>2. \A p \in Found' : p >= buf[1] => p = a \/ SetEnd(p) <= a
      BY <1>5, <1>9
    <2>3. InSet(a)'
      BY <1>1, <1>2, <1>4, <1>7, <2>1, <2>2, DevSame DEF InSet
    <2> QED BY <1>1, <1>5, <2>3 DEF SetProgress
  <1>13. SetsLogged'
    <2>1. \A s \in scanned : ~Examined(s, a)
      BY <1>2, <1>7 DEF Examined
    <2> QED BY <1>1, <1>5, <2>1, ScannedKept
  <1> QED BY <1>1, <1>6, <1>8, <1>11, <1>12, <1>13, AlignedKept DEF ScanSafe

LEMMA SkipByteHolds ==
  ASSUME ScanSafe, SkipByte
  PROVE  ScanSafe'
  <1>1. /\ Searching /\ UNCHANGED <<dev, pos, c, buf, scanned, pc>>
        /\ UNCHANGED <<log, file_directory_entry, subcount>>
        /\ cluster_ptr' = cluster_ptr + 1 /\ file_directory_entry = FALSE
    BY DEF SkipByte, ScanSafe, Types
  <1>2. /\ Types /\ pc = "search" /\ At \in Nat /\ buf[1] \in Nat /\ buf[1] <= At
        /\ Entry \in Nat /\ Entry > 0
        /\ pos \in Nat /\ pos = buf[1] + buf[2]
        /\ Byte(At).sum \in BOOLEAN
        /\ \A p \in Found : p \in Nat /\ p < At /\ Byte(p).cont \in Nat
    BY <1>1, Inside
  <1>0. PICK a : a = At
    OBVIOUS
  <1>3. a \in Nat /\ a = At
    BY <1>0, <1>2
  <1>4. At' = a + 1
    <2>1. buf[1] \in Nat /\ cluster_ptr \in Nat
      BY <1>2 DEF Types
    <2>2. At' = buf[1] + (cluster_ptr + 1) /\ a = buf[1] + cluster_ptr
      BY <1>0, <1>1 DEF At
    <2> QED BY <2>1, <2>2
  <1>5. Found' = Found /\ \A p : (Covered(p) => Covered(p)') /\ (Logged(p) => Logged(p)')
    BY <1>1, LogSame
  <1>6. Types'
    <2>1. cluster_ptr' \in Nat
      BY <1>1, <1>2 DEF Types
    <2> QED BY <1>1, <1>2, <2>1 DEF Types
  <1>7. BuffersApart'
    <2>1. \A p \in Found' : p < pos /\ p < Size /\ p < a + 1
      BY <1>2, <1>3, <1>5 DEF ScanSafe, BuffersApart
    <2> QED BY <1>1, <1>4, <2>1, DevSame DEF ScanSafe, BuffersApart
  <1>8. \A p \in Found : p >= buf[1] => SetEnd(p) <= a /\ SetEnd(p) \in Int
    <2>1. \A p \in Found : p >= buf[1] => SetEnd(p) <= a
      BY <1>1, <1>2, <1>3 DEF ScanSafe, SetProgress
    <2>2. \A p \in Found : SetEnd(p) \in Int
      BY <1>2 DEF SetEnd
    <2> QED BY <2>1, <2>2
  <1>9. ~Whole(a, buf[1] + buf[2])
    <2> SUFFICES ASSUME Whole(a, buf[1] + buf[2]) PROVE FALSE
      OBVIOUS
    <2>1. SetEnd(At) <= buf[1] + buf[2] /\ Header(At) /\ Continues(At) /\ Byte(At).sum
      BY <1>0 DEF Whole
    <2>2. FALSE \in {Byte(At).sum}
      BY <2>1 DEF SkipByte, ChecksumsOf
    <2> QED BY <2>1, <2>2
  <1>10. SearchedSoFar'
    <2>1. ASSUME NEW p \in buf[1] .. (a + 1) - 1, Examined(buf, p), Whole(p, buf[1] + buf[2])
          PROVE  Covered(p)'
      <3>1. p # a
        BY <1>9, <2>1
      <3>2. p \in buf[1] .. a - 1
        BY <1>2, <1>3, <3>1
      <3>3. Covered(p)
        BY <1>2, <1>3, <2>1, <3>2 DEF ScanSafe, SearchedSoFar
      <3> QED BY <1>5, <3>3
    <2>2. ASSUME NEW p \in Found', NEW k \in 1 .. Byte(p).cont,
                 p >= buf[1], p + k * Entry < a + 1
          PROVE  Logged(p + k * Entry)'
      <3>1. p \in Found /\ p \in Nat /\ Byte(p).cont \in Nat
        BY <1>2, <1>5
      <3>2. k * Entry \in Nat /\ p + k * Entry + Entry <= SetEnd(p)
        BY <1>2, <3>1, EntryBeforeEnd
      <3>3. p + k * Entry < a
        BY <1>2, <1>3, <1>8, <2>2, <3>1, <3>2
      <3>4. Logged(p + k * Entry)
        BY <1>2, <1>3, <2>2, <3>1, <3>3 DEF ScanSafe, SearchedSoFar
      <3> QED BY <1>5, <3>4
    <2>3. \A p \in buf[1] .. (a + 1) - 1 :
            (Examined(buf, p) /\ Whole(p, buf[1] + buf[2])) => Covered(p)'
      BY <2>1
    <2>4. \A p \in Found' : \A k \in 1 .. Byte(p).cont :
            (p >= buf[1] /\ p + k * Entry < a + 1) => Logged(p + k * Entry)'
      BY <2>2
    <2>5. dev' = dev /\ buf' = buf
      BY <1>1
    <2> QED BY <1>4, <2>3, <2>4, <2>5, SearchedIs, Zenon
  <1>11. SetProgress'
    <2>1. \A p \in Found : p >= buf[1] => SetEnd(p) <= a + 1
      BY <1>3, <1>8
    <2> QED BY <1>1, <1>4, <1>5, <2>1, DevSame DEF SetProgress
  <1>12. SetsLogged'
    BY <1>1, <1>5, ScannedKept
  <1> QED BY <1>1, <1>6, <1>7, <1>10, <1>11, <1>12, AlignedKept DEF ScanSafe

LEMMA NextEntryHolds ==
  ASSUME ScanSafe, NextEntry
  PROVE  ScanSafe'
  <1>1. /\ Searching /\ UNCHANGED <<dev, pos, c, buf, scanned, pc>>
        /\ log' = log \o Lines(Byte(At).type)
        /\ UNCHANGED file_directory_entry /\ file_directory_entry = TRUE
        /\ subcount > 0 /\ subcount' = subcount - 1
        /\ cluster_ptr' = cluster_ptr + Entry
    BY DEF NextEntry, ScanSafe, Types
  <1>2. /\ Types /\ pc = "search" /\ At \in Nat /\ buf[1] \in Nat /\ buf[1] <= At
        /\ Entry \in Nat /\ Entry > 0
        /\ pos \in Nat /\ pos = buf[1] + buf[2]
        /\ cluster_ofs \in Int
        /\ \A p \in Found : p \in Nat /\ p < At /\ Byte(p).cont \in Nat
    BY <1>1, Inside
  <1>0. PICK a : a = At
    OBVIOUS
  <1>3. a \in Nat /\ a = At /\ subcount \in Nat /\ Byte(a)' = Byte(a)
    BY <1>0, <1>1, <1>2, DevSame DEF Types
  <1>4. At' = a + Entry
    <2>1. buf[1] \in Nat /\ cluster_ptr \in Nat
      BY <1>2 DEF Types
    <2>2. At' = buf[1] + (cluster_ptr + Entry) /\ a = buf[1] + cluster_ptr
      BY <1>0, <1>1 DEF At
    <2> QED BY <1>2, <2>1, <2>2
  <1>5. /\ log' \in Seq(LineType) /\ Found' = Found /\ Logged(a)'
        /\ \A p : (Covered(p) => Covered(p)') /\ (Logged(p) => Logged(p)')
    <2> DEFINE t == Byte(At).type
    <2>0. log \in Seq(LineType) /\ t = Byte(a).type
      BY <1>2, <1>3 DEF Types
    <2>1. CASE t \in DOMAIN LoggedAs
      <3>0. PICK l : l = Line(LoggedAs[t], cluster_ofs, At)
        OBVIOUS
      <3>1. LoggedAs[t] \in {"EFL", "EFI", "EFN"}
        BY <2>1 DEF LoggedAs
      <3>2. l \in LineType /\ l.kind = LoggedAs[t] /\ l.at = a
        BY <1>2, <1>3, <3>0, <3>1 DEF LineType, Line
      <3>3. log' = log \o <<l>>
        BY <1>1, <2>1, <3>0 DEF Lines
      <3> HIDE DEF t
      <3>4. log' = Append(log, l)
        BY <2>0, <3>2, <3>3
      <3>5. /\ log' \in Seq(LineType)
            /\ Found' = Found \cup (IF l.kind = "FDE" THEN {l.at} ELSE {})
            /\ l.kind \in LoggedAt(l.at)'
            /\ \A p : (Covered(p) => Covered(p)') /\ (Logged(p) => Logged(p)')
        BY <1>1, <1>2, <3>2, <3>4, LogGrows
      <3>6. Found' = Found /\ LoggedAs[Byte(a).type] \in LoggedAt(a)'
        BY <2>0, <3>1, <3>2, <3>5
      <3>7. Logged(a)'
        BY <1>3, <3>6 DEF Logged, LoggedAs
      <3> QED BY <3>5, <3>6, <3>7
    <2>2. CASE t \notin DOMAIN LoggedAs
      <3>1. log' = log \o <<>>
        BY <1>1, <2>2 DEF Lines
      <3>2. log' = log
        BY <2>0, <3>1
      <3>3. Logged(a)'
        BY <1>3, <2>0, <2>2 DEF Logged
      <3> QED BY <1>1, <2>0, <3>2, <3>3, LogSame
    <2> QED BY <2>1, <2>2
  <1>6. Types'
    <2>1. cluster_ptr' \in Nat /\ subcount' \in Nat
      BY <1>1, <1>2, <1>3 DEF Types
    <2> QED BY <1>1, <1>2, <1>5, <2>1 DEF Types
  <1>7. BuffersApart'
    <2>1. \A p \in Found' : p < pos /\ p < Size /\ p < a + Entry
      BY <1>2, <1>3, <1>5 DEF ScanSafe, BuffersApart
    <2> QED BY <1>1, <1>4, <2>1, DevSame DEF ScanSafe, BuffersApart
  <1>8. PICK f \in Found : InSet(f)
    BY <1>1, <1>2 DEF ScanSafe, SetProgress
  <1>9. PICK n : n = Byte(f).cont
    OBVIOUS
  <1> DEFINE m == n + 1 - subcount
  <1>10. /\ n \in Nat /\ f \in Nat /\ f < a /\ f >= buf[1] /\ m \in 1 .. n
         /\ a = f + m * Entry
         /\ \A p \in Found : p >= buf[1] => p = f \/ SetEnd(p) <= f
    <2>1. /\ f >= buf[1] /\ subcount <= n /\ a = f + m * Entry
          /\ \A p \in Found : p >= buf[1] => p = f \/ SetEnd(p) <= f
      BY <1>3, <1>8, <1>9, Zenon DEF InSet
    <2>2. n \in Nat /\ f \in Nat /\ f < a
      BY <1>2, <1>3, <1>8, <1>9
    <2>3. m \in 1 .. n
      BY <1>1, <1>3, <2>1, <2>2
    <2> HIDE DEF m
    <2> QED BY <2>1, <2>2, <2>3
  <1>11. PICK j : j = n + 1 - subcount
    OBVIOUS
  <1>12. j \in 1 .. n /\ a = f + j * Entry /\ n + 1 - (subcount - 1) = j + 1
    BY <1>3, <1>10, <1>11
  <1>13. (j + 1) * Entry = j * Entry + Entry /\ j * Entry \in Nat
    <2>1. j \in Int /\ Entry \in Int
      BY <1>2, <1>10, <1>12
    <2>2. (j + 1) * Entry = j * Entry + Entry /\ j * Entry \in Int
      BY <2>1, TimesNext
    <2>3. Byte(f).cont \in Nat /\ j \in 1 .. Byte(f).cont
      BY <1>9, <1>10, <1>12
    <2>4. j * Entry \in Nat
      BY <1>2, <1>10, <2>3, EntryBeforeEnd
    <2> QED BY <2>2, <2>4
  <1>14. a + Entry <= SetEnd(f) /\ SetEnd(f) \in Int
    <2>1. Byte(f).cont \in Nat /\ j \in 1 .. Byte(f).cont
      BY <1>9, <1>10, <1>12
    <2>2. f + j * Entry + Entry <= SetEnd(f) /\ (Byte(f).cont + 1) * Entry \in Nat
      BY <1>2, <1>10, <2>1, EntryBeforeEnd
    <2>3. SetEnd(f) \in Int
      BY <1>10, <2>2 DEF SetEnd
    <2> QED BY <1>12, <2>2, <2>3
  <1>15. SearchedSoFar'
    <2>1. ASSUME NEW p \in buf[1] .. (a + Entry) - 1, Examined(buf, p), Whole(p, buf[1] + buf[2])
          PROVE  Covered(p)'
      <3>1. CASE p < a
        <4>1. Covered(p)
          BY <1>2, <1>3, <2>1, <3>1 DEF ScanSafe, SearchedSoFar
        <4> QED BY <1>5, <4>1
      <3>2. CASE p >= a
        <4>1. f < p /\ p < SetEnd(f) /\ f \in Found'
          BY <1>2, <1>3, <1>5, <1>10, <1>14, <3>2
        <4>2. p < SetEnd(f)'
          BY <1>1, <4>1, DevSame
        <4> QED BY <4>1, <4>2 DEF Covered
      <3> QED BY <1>2, <1>3, <3>1, <3>2
    <2>2. ASSUME NEW p \in Found', NEW k \in 1 .. Byte(p).cont,
                 p >= buf[1], p + k * Entry < a + Entry
          PROVE  Logged(p + k * Entry)'
      <3>0. p \in Found /\ p \in Nat /\ Byte(p).cont \in Nat /\ k \in Int
        BY <1>2, <1>5
      <3>1. k * Entry \in Nat /\ p + k * Entry + Entry <= SetEnd(p) /\ SetEnd(p) \in Int
        <4>1. (Byte(p).cont + 1) * Entry \in Nat
          BY <1>2, <3>0, EntryBeforeEnd
        <4> QED BY <1>2, <3>0, <4>1, EntryBeforeEnd DEF SetEnd
      <3>2. CASE p + k * Entry < a
        <4>1. Logged(p + k * Entry)
          BY <1>2, <1>3, <2>2, <3>0, <3>2 DEF ScanSafe, SearchedSoFar
        <4> QED BY <1>5, <4>1
      <3>3. CASE p + k * Entry >= a
        <4>1. p = f
          BY <1>2, <1>3, <1>10, <2>2, <3>0, <3>1, <3>3
        <4>2. j * Entry <= k * Entry /\ k * Entry < j * Entry + Entry
          BY <1>2, <1>10, <1>12, <1>13, <2>2, <3>1, <3>3, <4>1
        <4>3. k = j
          <5>1. j \in Int /\ k \in Int /\ Entry \in Nat \ {0}
            BY <1>2, <1>10, <1>12, <3>0
          <5> QED BY <4>2, <5>1, TimesUnique
        <4>4. p + k * Entry = a
          BY <1>12, <4>1, <4>3
        <4> QED BY <1>5, <4>4
      <3> QED BY <1>3, <3>0, <3>1, <3>2, <3>3
    <2>3. \A p \in buf[1] .. (a + Entry) - 1 :
            (Examined(buf, p) /\ Whole(p, buf[1] + buf[2])) => Covered(p)'
      BY <2>1
    <2>4. \A p \in Found' : \A k \in 1 .. Byte(p).cont :
            (p >= buf[1] /\ p + k * Entry < a + Entry) => Logged(p + k * Entry)'
      BY <2>2
    <2>5. dev' = dev /\ buf' = buf
      BY <1>1
    <2> QED BY <1>4, <2>3, <2>4, <2>5, SearchedIs, Zenon
  <1>16. SetProgress'
    <2>1. a + Entry = f + (n + 1 - (subcount - 1)) * Entry
      BY <1>2, <1>10, <1>12, <1>13
    <2>2. Byte(f)' = Byte(f) /\ \A p : SetEnd(p)' = SetEnd(p)
      BY <1>1, DevSame
    <2>3. subcount - 1 <= n
      BY <1>3, <1>10, <1>12, <1>11
    <2>4. InSet(f)'
      BY <1>1, <1>4, <1>5, <1>9, <1>10, <2>1, <2>2, <2>3 DEF InSet
    <2> QED BY <1>1, <1>5, <2>4 DEF SetProgress
  <1>17. SetsLogged'
    BY <1>1, <1>5, ScannedKept
  <1> QED BY <1>1, <1>6, <1>7, <1>15, <1>16, <1>17, AlignedKept DEF ScanSafe

LEMMA EndSetHolds ==
  ASSUME ScanSafe, EndSet
  PROVE  ScanSafe'
  <1>1. /\ Searching /\ UNCHANGED <<dev, pos, c, buf, scanned, pc>>
        /\ UNCHANGED <<log, cluster_ptr, subcount>>
        /\ file_directory_entry = TRUE /\ file_directory_entry' = FALSE /\ subcount = 0
    BY DEF EndSet, ScanSafe, Types
  <1>2. /\ Types /\ pc = "search" /\ At \in Nat
        /\ \A p \in Found : p \in Nat /\ p < At /\ Byte(p).cont \in Nat
        /\ Entry \in Nat
    BY <1>1, Inside
  <1>3. Found' = Found /\ \A p : (Covered(p) => Covered(p)') /\ (Logged(p) => Logged(p)')
    BY <1>1, LogSame
  <1>4. Types' /\ At' = At
    BY <1>1, <1>2 DEF Types, At
  <1>5. BuffersApart'
    BY <1>1, <1>3, <1>4, DevSame DEF ScanSafe, BuffersApart
  <1>6. SearchedSoFar'
    <2>0. PICK a : a = At
      OBVIOUS
    <2>1. At' = a /\ dev' = dev /\ buf' = buf
      BY <1>1, <1>4, <2>0
    <2>2. \A p \in buf[1] .. a - 1 :
            (Examined(buf, p) /\ Whole(p, buf[1] + buf[2])) => Covered(p)'
      BY <1>2, <1>3, <2>0 DEF ScanSafe, SearchedSoFar
    <2>3. \A p \in Found' : \A k \in 1 .. Byte(p).cont :
            (p >= buf[1] /\ p + k * Entry < a) => Logged(p + k * Entry)'
      BY <1>2, <1>3, <2>0 DEF ScanSafe, SearchedSoFar
    <2> QED BY <2>1, <2>2, <2>3, SearchedIs, Zenon
  <1>7. SetProgress'
    <2>1. PICK f \in Found : InSet(f)
      BY <1>1, <1>2 DEF ScanSafe, SetProgress
    <2>2. SetEnd(f) = At
      BY <1>1, <1>2, <2>1 DEF InSet, SetEnd
    <2>3. ASSUME NEW p \in Found, p >= buf[1] PROVE SetEnd(p) <= At
      <3>1. p = f \/ SetEnd(p) <= f
        BY <2>1, <2>3 DEF InSet
      <3>2. SetEnd(p) \in Int
        BY <1>2 DEF SetEnd
      <3> QED BY <1>2, <2>2, <3>1, <3>2
    <2> QED BY <1>1, <1>3, <1>4, <2>3, DevSame DEF SetProgress
  <1>8. SetsLogged'
    BY <1>1, <1>3, ScannedKept
  <1> QED BY <1>1, <1>4, <1>5, <1>6, <1>7, <1>8, AlignedKept DEF ScanSafe

LEMMA EndClusterHolds ==
  ASSUME ScanSafe, EndCluster
  PROVE  ScanSafe'
  <1>1. /\ Types /\ pc = "search" /\ pc' = "read" /\ ~More
        /\ UNCHANGED <<dev, pos, buf, cluster_ptr, file_directory_entry, subcount>>
        /\ log' = (IF c % Mark = 0 THEN Append(log, Line("CLUSTER", c * ClusterSize, buf[1]))
                   ELSE log)
        /\ c' = c + 1 /\ scanned' = scanned \cup {buf}
    BY DEF EndCluster, ScanSafe
  <1>2. /\ buf \in Nat \X Nat /\ buf[1] \in Nat /\ buf[2] \in Nat /\ cluster_ptr \in Nat
        /\ pos \in Nat /\ c \in Nat /\ Size \in Nat /\ log \in Seq(LineType)
        /\ Entry \in Nat /\ ClusterSize \in Nat /\ ClusterSize > 0
        /\ \A s \in scanned : s[1] \in Nat /\ s[2] \in Nat
    BY <1>1, ScanAssumption DEF Types, Size
  <1>3. /\ pos = buf[1] + buf[2] /\ pos <= Size /\ pos <= (c + 1) * ClusterSize
        /\ \A s \in scanned : s[1] + s[2] <= buf[1] /\ s[1] + s[2] <= Size
        /\ \A p \in Found : p < pos /\ p < Size
    BY <1>1 DEF ScanSafe, BuffersApart
  <1>4. (c + 1) * ClusterSize = c * ClusterSize + ClusterSize /\ c * ClusterSize \in Int
    BY <1>2, TimesNext
  <1>5. /\ log' \in Seq(LineType) /\ Found' = Found
        /\ \A p : (Covered(p) => Covered(p)') /\ (Logged(p) => Logged(p)')
    <2>1. CASE log' = log
      BY <1>1, <1>2, <2>1, LogSame
    <2>2. CASE log' = Append(log, Line("CLUSTER", c * ClusterSize, buf[1]))
      <3>0. PICK l : l = Line("CLUSTER", c * ClusterSize, buf[1])
        OBVIOUS
      <3>1. l \in LineType /\ l.kind = "CLUSTER"
        BY <1>2, <1>4, <3>0 DEF LineType, Line
      <3>2. log' = Append(log, l)
        BY <2>2, <3>0
      <3>3. /\ log' \in Seq(LineType)
            /\ Found' = Found \cup (IF l.kind = "FDE" THEN {l.at} ELSE {})
            /\ \A p : (Covered(p) => Covered(p)') /\ (Logged(p) => Logged(p)')
        BY <1>1, <3>1, <3>2, LogGrows
      <3> QED BY <3>1, <3>3
    <2> QED BY <1>1, <2>1, <2>2
  <1>6. Types'
    BY <1>1, <1>2, <1>5 DEF Types
  <1>7. BuffersApart'
    <2>1. \A s \in scanned' : s[1] + s[2] <= pos /\ s[1] + s[2] <= Size
      BY <1>1, <1>2, <1>3, SMTT(30)
    <2> QED BY <1>1, <1>3, <1>5, <2>1, DevSame DEF BuffersApart
  <1>8. SearchedSoFar' /\ SetProgress'
    BY <1>1 DEF SearchedSoFar, SetProgress
  <1>9. SetsLogged'
    <2>0. \A p : Examined(buf, p) /\ p \in Int => p \in buf[1] .. At - 1
      BY <1>1, <1>2 DEF Examined, More, At
    <2>1. ASSUME NEW s \in scanned', NEW p \in s[1] .. s[1] + s[2] - 1,
                 Examined(s, p), Whole(p, s[1] + s[2])
          PROVE  Covered(p)
      <3>1. CASE s \in scanned
        BY <2>1, <3>1 DEF ScanSafe, SetsLogged
      <3>2. CASE s = buf
        <4>1. p \in buf[1] .. At - 1
          BY <1>2, <2>0, <2>1, <3>2
        <4> QED BY <1>1, <2>1, <3>2, <4>1 DEF ScanSafe, SearchedSoFar
      <3> QED BY <1>1, <3>1, <3>2
    <2>2. ASSUME NEW s \in scanned', NEW p \in Found, NEW k \in 1 .. Byte(p).cont,
                 Examined(s, p), Examined(s, p + k * Entry)
          PROVE  Logged(p + k * Entry)
      <3>1. CASE s \in scanned
        BY <2>2, <3>1 DEF ScanSafe, SetsLogged
      <3>2. CASE s = buf
        <4>0. p \in Nat
          <5>1. log \in Seq(LineType) /\ \A i \in DOMAIN log : log[i] \in LineType
            BY <1>2, ElementOfSeq
          <5>2. \A l \in LineType : l.at \in Nat
            BY DEF LineType
          <5> QED BY <5>1, <5>2 DEF Found
        <4>1. p + k * Entry \in Int /\ p >= buf[1]
          BY <1>2, <2>2, <3>2, <4>0 DEF Examined
        <4>2. p + k * Entry < At
          <5>1. p + k * Entry \in buf[1] .. At - 1
            BY <2>0, <2>2, <3>2, <4>1
          <5>2. At \in Int
            BY <1>2 DEF At
          <5> QED BY <1>2, <4>1, <5>1, <5>2
        <4> QED BY <1>1, <2>2, <4>1, <4>2 DEF ScanSafe, SearchedSoFar
      <3> QED BY <1>1, <3>1, <3>2
    <2>3. ASSUME NEW s \in scanned', NEW p \in s[1] .. s[1] + s[2] - 1,
                 Examined(s, p), Whole(p, s[1] + s[2])'
          PROVE  Covered(p)'
      BY <1>1, <1>5, <2>1, <2>3, DevSame
    <2>4. ASSUME NEW s \in scanned', NEW p \in Found', NEW k \in 1 .. Byte(p)'.cont,
                 Examined(s, p), Examined(s, p + k * Entry)
          PROVE  Logged(p + k * Entry)'
      BY <1>1, <1>5, <2>2, <2>4, DevSame
    <2> QED BY <2>3, <2>4 DEF SetsLogged, Examined
  <1>10. ErrorsAtStart' => Aligned' /\ ScannedTo'
    <2> SUFFICES ASSUME ErrorsAtStart PROVE Aligned' /\ ScannedTo'
      BY <1>1, DevSame
    <2>1. /\ buf[1] = c * ClusterSize
          /\ buf[2] = ClusterSize \/ (buf[2] < ClusterSize /\ buf[1] + buf[2] = Size)
          /\ Start <= c /\ \A k \in Start .. c - 1 : Intact(k) => ScannedOne(k)
      BY <1>1 DEF ScanSafe, Aligned, ScannedTo
    <2>2. pos = (c + 1) * ClusterSize \/ (pos = Size /\ Size <= (c + 1) * ClusterSize)
      BY <1>2, <1>3, <1>4, <2>1
    <2>3. Aligned'
      BY <1>1, <2>2, DevSame DEF Aligned
    <2>4. Intact(c) => ClusterRange(c) \subseteq buf[1] .. buf[1] + buf[2] - 1
      <3> SUFFICES ASSUME Intact(c) PROVE ClusterRange(c) \subseteq buf[1] .. buf[1] + buf[2] - 1
        OBVIOUS
      <3>0. PICK x : x = c * ClusterSize
        OBVIOUS
      <3>1. x \in Int /\ (c + 1) * ClusterSize = x + ClusterSize
        BY <1>4, <3>0
      <3>2. ClusterRange(c) = x .. x + ClusterSize - 1
        BY <1>2, <3>0, <3>1 DEF ClusterRange
      <3>3. x + ClusterSize - 1 \in 0 .. Size - 1
        <4>1. x + ClusterSize - 1 \in x .. x + ClusterSize - 1
          BY <1>2, <3>1
        <4>2. ClusterRange(c) \subseteq 0 .. Size - 1
          BY DEF Intact
        <4> QED BY <3>2, <4>1, <4>2
      <3>4. buf[1] = x /\ buf[2] = ClusterSize
        BY <1>2, <2>1, <3>0, <3>1, <3>3
      <3> QED BY <3>2, <3>4
    <2>5. ASSUME NEW k \in Start .. (c + 1) - 1, Intact(k) PROVE ScannedOne(k)'
      <3>0. k \in Int
        BY <1>2, ScanAssumption
      <3>1. CASE k = c
        <4>1. buf \in scanned' /\ ClusterRange(k) \subseteq buf[1] .. buf[1] + buf[2] - 1
          BY <1>1, <2>4, <2>5, <3>1
        <4> QED BY <4>1 DEF ScannedOne, ClusterRange
      <3>2. CASE k \in Start .. c - 1
        <4>1. ScannedOne(k)
          BY <2>1, <2>5, <3>2
        <4> QED BY <1>1, <4>1 DEF ScannedOne, ClusterRange
      <3> QED BY <1>2, <3>0, <3>1, <3>2, ScanAssumption
    <2>6. ScannedTo'
      <3>1. Start <= c + 1
        BY <1>2, <2>1, ScanAssumption
      <3> QED BY <1>1, <2>5, <3>1, DevSame DEF ScannedTo
    <2> QED BY <2>3, <2>6
  <1> QED BY <1>6, <1>7, <1>8, <1>9, <1>10 DEF ScanSafe

-----------------------------------------------------------------------------
(* From buffer to buffer.                                                  *)

LEMMA ReadClusterHolds ==
  ASSUME ScanSafe, ReadCluster
  PROVE  ScanSafe'
  <1>0. PICK n : n = Readable(pos)
    OBVIOUS
  <1>1. /\ Types /\ pc = "read" /\ pc' = "search" /\ n > 0
        /\ buf' = <<pos, n>> /\ pos' = pos + n
        /\ cluster_ptr' = 0 /\ file_directory_entry' = FALSE /\ subcount' = 0
        /\ UNCHANGED <<dev, c, log, scanned>>
    BY <1>0 DEF ReadCluster, ScanSafe
  <1>2. /\ pos \in Nat /\ c \in Nat /\ Size \in Nat /\ ClusterSize \in Nat /\ ClusterSize > 0
        /\ Start \in Nat /\ dev.bad \subseteq Nat
        /\ \A s \in scanned : s[1] \in Nat /\ s[2] \in Nat
    BY <1>1, ScanAssumption DEF Types, Size
  <1>3. /\ n \in 0 .. ClusterSize
        /\ \A q \in pos .. pos + n - 1 : q < Size /\ q \notin dev.bad
        /\ n < ClusterSize => pos + n >= Size \/ pos + n \in dev.bad
    BY <1>0, <1>1, <1>2, ReadableIs
  <1>4. pos < Size /\ pos \notin dev.bad /\ pos + n <= Size
    <2>1. pos \in pos .. pos + n - 1 /\ pos + n - 1 \in pos .. pos + n - 1
      BY <1>1, <1>2, <1>3
    <2> QED BY <1>2, <1>3, <2>1
  <1>5. /\ pos <= c * ClusterSize
        /\ \A s \in scanned : s[1] + s[2] <= Size /\ s[1] + s[2] <= pos
        /\ \A p \in Found : p < pos /\ p < Size
    BY <1>1 DEF ScanSafe, BuffersApart
  <1>6. (c + 1) * ClusterSize = c * ClusterSize + ClusterSize /\ c * ClusterSize \in Int
    BY <1>2, TimesNext
  <1>7. Types'
    <2>1. n \in Nat /\ pos + n \in Nat
      BY <1>2, <1>3
    <2>2. buf' \in Nat \X Nat
      BY <1>1, <1>2, <2>1, Zenon
    <2>3. /\ dev' \in [bytes : Seq(ByteType), bad : SUBSET Nat]
          /\ log' \in Seq(LineType) /\ scanned' \in SUBSET (Nat \X Nat) /\ c' \in Nat
      BY <1>1, Zenon DEF Types
    <2>4. /\ pos' \in Nat /\ cluster_ptr' \in Nat /\ subcount' \in Nat
          /\ file_directory_entry' \in BOOLEAN
          /\ pc' \in {"read", "search", "restore", "done", "terminated", "undefined"}
      BY <1>1, <2>1
    <2> QED BY <2>2, <2>3, <2>4 DEF Types
  <1>8. Found' = Found /\ \A p : (Covered(p) => Covered(p)') /\ (Logged(p) => Logged(p)')
    BY <1>1, LogSame
  <1>9. At' = pos /\ buf'[1] = pos /\ buf'[2] = n /\ \A p \in Found : p \in Nat
    <2>1. log \in Seq(LineType) /\ \A i \in DOMAIN log : log[i] \in LineType
      BY <1>1, ElementOfSeq DEF Types
    <2>2. \A l \in LineType : l.at \in Nat
      BY DEF LineType
    <2>3. \A p \in Found : p \in Nat
      BY <2>1, <2>2 DEF Found
    <2> QED BY <1>1, <1>2, <2>3 DEF At
  <1>10. BuffersApart'
    <2>1. pos + n <= (c + 1) * ClusterSize
      BY <1>2, <1>3, <1>5, <1>6
    <2>2. \A p \in Found : p < pos + n
      BY <1>1, <1>2, <1>3, <1>5, <1>9
    <2> QED BY <1>1, <1>4, <1>5, <1>8, <1>9, <2>1, <2>2, DevSame DEF BuffersApart
  <1>11. SearchedSoFar' /\ SetProgress'
    <2>1. \A p \in Found' : ~(p >= buf'[1])
      BY <1>2, <1>5, <1>8, <1>9
    <2>2. \A p \in buf'[1] .. At' - 1 : FALSE
      BY <1>2, <1>9
    <2> QED BY <1>1, <2>1, <2>2 DEF SearchedSoFar, SetProgress
  <1>12. SetsLogged'
    BY <1>1, <1>8, ScannedKept
  <1>13. ErrorsAtStart' => Aligned' /\ ScannedTo'
    <2> SUFFICES ASSUME ErrorsAtStart PROVE Aligned' /\ ScannedTo'
      BY <1>1, DevSame
    <2>1. /\ pos = c * ClusterSize /\ Start <= c
          /\ \A k \in Start .. c - 1 : Intact(k) => ScannedOne(k)
      BY <1>1, <1>2, <1>4 DEF ScanSafe, Aligned, ScannedTo
    <2>2. n < ClusterSize => pos + n = Size
      <3> SUFFICES ASSUME n < ClusterSize, pos + n \in dev.bad PROVE FALSE
        BY <1>2, <1>3, <1>4
      <3>1. PICK k \in 0 .. Size : pos + n \in ClusterRange(k) /\ k * ClusterSize \in dev.bad
        BY DEF ErrorsAtStart
      <3>2. PICK y : y = k * ClusterSize
        OBVIOUS
      <3>3. k \in Int /\ y \in Int /\ (k + 1) * ClusterSize = y + ClusterSize
        BY <1>2, <3>2, TimesNext
      <3>4. y <= pos + n /\ pos + n < y + ClusterSize /\ y \in dev.bad
        BY <1>2, <1>3, <3>1, <3>2, <3>3 DEF ClusterRange
      \* y is not in the part that was read, and not before it
      <3>5. y # pos
        BY <1>4, <3>4
      <3>6. CASE y < pos
        <4>1. y <= c * ClusterSize /\ k + 1 <= c
          <5>1. CASE c <= k
            <6>1. c * ClusterSize <= k * ClusterSize
              BY <1>2, <3>3, <5>1, TimesLess
            <6> QED BY <1>2, <2>1, <3>2, <3>3, <3>6, <6>1
          <5> QED BY <1>2, <2>1, <3>3, <3>6, <5>1
        <4>2. (k + 1) * ClusterSize <= c * ClusterSize
          BY <1>2, <3>3, <4>1, TimesLess
        <4> QED BY <1>2, <1>3, <2>1, <3>3, <3>4, <4>2
      <3>7. CASE y > pos
        <4>1. c + 1 <= k
          <5>1. CASE k <= c
            <6>1. k * ClusterSize <= c * ClusterSize
              BY <1>2, <3>3, <5>1, TimesLess
            <6> QED BY <1>2, <2>1, <3>2, <3>3, <3>7, <6>1
          <5> QED BY <1>2, <3>3, <5>1
        <4>2. (c + 1) * ClusterSize <= k * ClusterSize
          BY <1>2, <3>3, <4>1, TimesLess
        <4> QED BY <1>2, <1>3, <1>6, <2>1, <3>2, <3>3, <3>4, <4>2
      <3> QED BY <1>2, <3>3, <3>5, <3>6, <3>7
    <2>3. Aligned'
      BY <1>1, <1>2, <1>3, <1>9, <2>1, <2>2, DevSame DEF Aligned
    <2>4. ScannedTo'
      BY <1>1, <2>1, DevSame DEF ScannedTo, ScannedOne, ClusterRange
    <2> QED BY <2>3, <2>4
  <1> QED BY <1>7, <1>10, <1>11, <1>12, <1>13 DEF ScanSafe

LEMMA BadClusterHolds ==
  ASSUME ScanSafe, BadCluster
  PROVE  ScanSafe'
  <1>1. /\ Types /\ pc = "read" /\ pos < Size /\ pos \in dev.bad
        /\ log' = Append(log, Line("BAD_CLUSTER", c * ClusterSize, pos))
        /\ pos' = c * ClusterSize + ClusterSize /\ c' = c + 1
        /\ UNCHANGED <<dev, buf, cluster_ptr, file_directory_entry, subcount, scanned, pc>>
    BY DEF BadCluster, ScanSafe
  <1>2. /\ pos \in Nat /\ c \in Nat /\ Size \in Nat /\ ClusterSize \in Nat /\ ClusterSize > 0
        /\ Start \in Nat
        /\ \A s \in scanned : s[1] \in Nat /\ s[2] \in Nat
    BY <1>1, ScanAssumption DEF Types, Size
  <1>3. /\ pos <= c * ClusterSize
        /\ \A s \in scanned : s[1] + s[2] <= Size /\ s[1] + s[2] <= pos
        /\ \A p \in Found : p < pos /\ p < Size
    BY <1>1 DEF ScanSafe, BuffersApart
  <1>4. /\ (c + 1) * ClusterSize = c * ClusterSize + ClusterSize /\ c * ClusterSize \in Int
        /\ pos' = (c + 1) * ClusterSize /\ pos' \in Nat /\ pos < pos'
    <2>1. (c + 1) * ClusterSize = c * ClusterSize + ClusterSize /\ c * ClusterSize \in Int
      BY <1>2, TimesNext
    <2> QED BY <1>1, <1>2, <1>3, <2>1
  <1>0. PICK l : l = Line("BAD_CLUSTER", c * ClusterSize, pos)
    OBVIOUS
  <1>5. l \in LineType /\ l.kind = "BAD_CLUSTER" /\ log' = Append(log, l)
    BY <1>0, <1>1, <1>2, <1>4 DEF LineType, Line
  <1>6. /\ log' \in Seq(LineType) /\ Found' = Found
        /\ \A p : (Covered(p) => Covered(p)') /\ (Logged(p) => Logged(p)')
    <2>1. /\ log' \in Seq(LineType)
          /\ Found' = Found \cup (IF l.kind = "FDE" THEN {l.at} ELSE {})
          /\ \A p : (Covered(p) => Covered(p)') /\ (Logged(p) => Logged(p)')
      BY <1>1, <1>5, LogGrows
    <2> QED BY <1>5, <2>1
  <1>7. Types'
    BY <1>1, <1>2, <1>4, <1>6 DEF Types
  <1>8. \A p \in Found : p \in Nat
    <2>1. log \in Seq(LineType) /\ \A i \in DOMAIN log : log[i] \in LineType
      BY <1>1, ElementOfSeq DEF Types
    <2>2. \A x \in LineType : x.at \in Nat
      BY DEF LineType
    <2> QED BY <2>1, <2>2 DEF Found
  <1>9. BuffersApart'
    <2>1. \A s \in scanned : s[1] + s[2] <= pos'
      BY <1>2, <1>3, <1>4
    <2>2. \A p \in Found : p < pos'
      BY <1>2, <1>3, <1>4, <1>8
    <2> QED BY <1>1, <1>2, <1>3, <1>4, <1>6, <2>1, <2>2, DevSame DEF BuffersApart
  <1>10. SearchedSoFar' /\ SetProgress'
    BY <1>1 DEF SearchedSoFar, SetProgress
  <1>11. SetsLogged'
    BY <1>1, <1>6, ScannedKept
  <1>12. ErrorsAtStart' => Aligned' /\ ScannedTo'
    <2> SUFFICES ASSUME ErrorsAtStart PROVE Aligned' /\ ScannedTo'
      BY <1>1, DevSame
    <2>1. /\ pos = c * ClusterSize /\ Start <= c
          /\ \A k \in Start .. c - 1 : Intact(k) => ScannedOne(k)
      BY <1>1, <1>2 DEF ScanSafe, Aligned, ScannedTo
    <2>2. ~Intact(c)
      <3>1. pos \in ClusterRange(c)
        BY <1>2, <1>4, <2>1 DEF ClusterRange
      <3> QED BY <1>1, <3>1 DEF Intact
    <2>3. ASSUME NEW k \in Start .. (c + 1) - 1, Intact(k) PROVE ScannedOne(k)'
      <3>1. k # c
        BY <2>2, <2>3
      <3>2. k \in Start .. c - 1
        BY <1>2, <3>1
      <3>3. ScannedOne(k)
        BY <2>1, <2>3, <3>2
      <3> QED BY <1>1, <3>3 DEF ScannedOne, ClusterRange
    <2>4. ScannedTo'
      <3>1. Start <= c + 1
        BY <1>2, <2>1
      <3> QED BY <1>1, <2>3, <3>1, DevSame DEF ScannedTo
    <2>5. Aligned'
      BY <1>1, <1>4 DEF Aligned
    <2> QED BY <2>4, <2>5
  <1> QED BY <1>7, <1>9, <1>10, <1>11, <1>12 DEF ScanSafe

LEMMA EndOfDeviceHolds ==
  ASSUME ScanSafe, EndOfDevice
  PROVE  ScanSafe'
  <1>1. /\ Types /\ pc = "read" /\ pc' = "restore" /\ pos >= Size
        /\ UNCHANGED <<dev, pos, c, buf, cluster_ptr, file_directory_entry, subcount, log, scanned>>
    BY DEF EndOfDevice, ScanSafe, scan_vars
  <1>2. /\ pos \in Nat /\ c \in Nat /\ Size \in Nat /\ ClusterSize \in Nat /\ ClusterSize > 0
        /\ Start \in Nat /\ c * ClusterSize \in Int
    BY <1>1, ScanAssumption DEF Types, Size
  <1>3. Found' = Found /\ \A p : (Covered(p) => Covered(p)') /\ (Logged(p) => Logged(p)')
    BY <1>1, LogSame
  <1>4. Types' /\ SearchedSoFar' /\ SetProgress'
    BY <1>1 DEF Types, SearchedSoFar, SetProgress
  <1>5. BuffersApart'
    BY <1>1, <1>3, DevSame DEF ScanSafe, BuffersApart
  <1>6. SetsLogged'
    BY <1>1, <1>3, ScannedKept
  <1>7. ErrorsAtStart' => Aligned' /\ ScannedTo'
    <2> SUFFICES ASSUME ErrorsAtStart PROVE Aligned' /\ ScannedTo'
      BY <1>1, DevSame
    <2>1. /\ Size <= c * ClusterSize /\ Start <= c
          /\ \A k \in Start .. c - 1 : Intact(k) => ScannedOne(k)
      BY <1>1, <1>2 DEF ScanSafe, Aligned, ScannedTo
    <2>2. ASSUME NEW k \in Nat, Intact(k) PROVE ScannedOne(k)'
      <3>0. PICK x : x = k * ClusterSize
        OBVIOUS
      <3>1. x \in Int /\ (k + 1) * ClusterSize = x + ClusterSize
        BY <1>2, <3>0, TimesNext
      <3>2. x \in ClusterRange(k) /\ ClusterRange(k) \subseteq 0 .. Size - 1 /\ k >= Start
        BY <1>2, <2>2, <3>0, <3>1 DEF ClusterRange, Intact
      <3>3. x < Size
        BY <1>2, <3>1, <3>2
      <3>4. k < c
        <4>1. CASE c <= k
          <5>1. c * ClusterSize <= k * ClusterSize
            BY <1>2, <4>1, TimesLess
          <5> QED BY <1>2, <2>1, <3>0, <3>1, <3>3, <5>1
        <4> QED BY <1>2, <4>1
      <3>5. ScannedOne(k)
        BY <1>2, <2>1, <2>2, <3>2, <3>4
      <3> QED BY <1>1, <3>5 DEF ScannedOne, ClusterRange
    <2>3. ScannedTo'
      BY <1>1, <1>2, <2>1, <2>2, DevSame DEF ScannedTo
    <2>4. Aligned'
      BY <1>1 DEF Aligned
    <2> QED BY <2>3, <2>4
  <1> QED BY <1>4, <1>5, <1>6, <1>7 DEF ScanSafe

\* The restore library reads the log; the scan is over.
LEMMA RestoreHolds ==
  ASSUME ScanSafe, processLine \/ EndOfLog \/ UNCHANGED vars
  PROVE  ScanSafe'
  <1>1. /\ UNCHANGED <<dev, pos, c, buf, cluster_ptr, file_directory_entry, subcount, log, scanned>>
        /\ \/ pc' = pc
           \/ pc \in {"restore", "done", "terminated"} /\ pc' \in {"restore", "done", "terminated"}
    BY DEF processLine, EndOfLog, vars, scan_vars
  <1>2. Found' = Found /\ At' = At /\ \A p : (Covered(p) => Covered(p)') /\ (Logged(p) => Logged(p)')
    BY <1>1, LogSame DEF At
  <1>3. Types'
    BY <1>1 DEF ScanSafe, Types
  <1>4. BuffersApart'
    BY <1>1, <1>2, DevSame DEF ScanSafe, BuffersApart
  <1>5. SetsLogged'
    BY <1>1, <1>2, ScannedKept
  <1>6. SearchedSoFar'
    <2>0. PICK a : a = At
      OBVIOUS
    <2>1. At' = a /\ dev' = dev /\ buf' = buf
      BY <1>1, <1>2, <2>0
    <2>2. CASE pc' = "search"
      <3>1. \A p \in buf[1] .. a - 1 :
              (Examined(buf, p) /\ Whole(p, buf[1] + buf[2])) => Covered(p)'
        BY <1>1, <1>2, <2>0, <2>2 DEF ScanSafe, SearchedSoFar
      <3>2. \A p \in Found' : \A k \in 1 .. Byte(p).cont :
              (p >= buf[1] /\ p + k * Entry < a) => Logged(p + k * Entry)'
        BY <1>1, <1>2, <2>0, <2>2 DEF ScanSafe, SearchedSoFar
      <3> QED BY <2>1, <3>1, <3>2, SearchedIs, Zenon
    <2> QED BY <2>2 DEF SearchedSoFar
  <1>7. SetProgress'
    BY <1>1, <1>2, DevSame DEF ScanSafe, SetProgress, InSet
  <1>8. ErrorsAtStart' => Aligned' /\ ScannedTo'
    BY <1>1, DevSame DEF ScanSafe, Aligned, ScannedTo, ScannedOne, ClusterRange
  <1> QED BY <1>3, <1>4, <1>5, <1>6, <1>7, <1>8 DEF ScanSafe

\* The program is where it read a label that is too long.
LEMMA OverrunLabelHolds ==
  ASSUME ScanSafe, OverrunLabel
  PROVE  ScanSafe'
  <1>1. /\ UNCHANGED <<dev, pos, c, buf, cluster_ptr, file_directory_entry, subcount, log, scanned>>
        /\ pc = "search" /\ pc' = "undefined"
    BY DEF OverrunLabel, Searching, scan_vars
  <1>2. Found' = Found /\ \A p : (Covered(p) => Covered(p)') /\ (Logged(p) => Logged(p)')
    BY <1>1, LogSame
  <1>3. Types'
    BY <1>1 DEF ScanSafe, Types
  <1>4. BuffersApart'
    <2>1. buf[1] \in Nat /\ buf[2] \in Nat /\ pos = buf[1] + buf[2]
      BY <1>1 DEF ScanSafe, Types, BuffersApart
    <2>2. \A s \in scanned : s[1] \in Nat /\ s[2] \in Nat
      BY DEF ScanSafe, Types
    <2>3. \A s \in scanned : s[1] + s[2] <= Size /\ s[1] + s[2] <= pos
      BY <1>1, <2>1, <2>2 DEF ScanSafe, BuffersApart
    <2>4. \A p \in Found : p < pos /\ p < Size
      BY DEF ScanSafe, BuffersApart
    <2> QED BY <1>1, <1>2, <2>3, <2>4, DevSame DEF BuffersApart
  <1>5. SetsLogged'
    BY <1>1, <1>2, ScannedKept
  <1>6. SearchedSoFar' /\ SetProgress'
    BY <1>1 DEF SearchedSoFar, SetProgress
  <1>7. ErrorsAtStart' => Aligned' /\ ScannedTo'
    BY <1>1, DevSame DEF ScanSafe, Aligned, ScannedTo, ScannedOne, ClusterRange
  <1> QED BY <1>3, <1>4, <1>5, <1>6, <1>7 DEF ScanSafe

LEMMA InitHolds == Init => ScanSafe
  <1> SUFFICES ASSUME Init PROVE ScanSafe
    OBVIOUS
  <1>1. /\ dev \in [bytes : Seq(ByteType), bad : SUBSET Nat]
        /\ pos = Start * ClusterSize /\ c = Start /\ buf = <<0, 0>> /\ cluster_ptr = 0
        /\ file_directory_entry = FALSE /\ subcount = 0 /\ log = <<>> /\ scanned = {}
        /\ pc = "read"
    BY DeviceAssumption DEF Init
  <1>2. Start \in Nat /\ Start * ClusterSize \in Nat
    BY ScanAssumption
  <1>3. Found = {}
    BY <1>1 DEF Found
  <1>4. Types
    <2>1. 0 \in Nat
      OBVIOUS
    <2>2. buf \in Nat \X Nat
      BY <1>1, <2>1, Zenon
    <2>3. log \in Seq(LineType)
      BY <1>1
    <2>4. scanned \in SUBSET (Nat \X Nat)
      BY <1>1, Zenon
    <2>5. /\ pos \in Nat /\ c \in Nat /\ cluster_ptr \in Nat /\ subcount \in Nat
          /\ file_directory_entry \in BOOLEAN
          /\ pc \in {"read", "search", "restore", "done", "terminated", "undefined"}
      BY <1>1, <1>2
    <2> QED BY <1>1, <2>2, <2>3, <2>4, <2>5 DEF Types
  <1>5. BuffersApart /\ SearchedSoFar /\ SetProgress /\ SetsLogged
    BY <1>1, <1>2, <1>3 DEF BuffersApart, SearchedSoFar, SetProgress, SetsLogged
  <1>6. Aligned /\ ScannedTo
    BY <1>1, <1>2 DEF Aligned, ScannedTo
  <1> QED BY <1>4, <1>5, <1>6 DEF ScanSafe

-----------------------------------------------------------------------------

\* The invariant of the scan, for every device, damaged or not.
THEOREM ScanSafeHolds == Spec => []ScanSafe
  <1>1. ScanSafe /\ [Next]_vars => ScanSafe'
    BY ReadClusterHolds, BadClusterHolds, EndOfDeviceHolds, FoundSetHolds, SkipByteHolds,
       NextEntryHolds, OverrunLabelHolds, EndSetHolds, EndClusterHolds, RestoreHolds DEF Next
  <1> QED BY InitHolds, <1>1, PTL DEF Spec

\* Every set in a buffer is found or overlapped by one that is, and the entries
\* of a set that is found are logged.
THEOREM SetsLoggedHolds == Spec => []SetsLogged
  <1>1. ScanSafe => SetsLogged
    BY DEF ScanSafe
  <1> QED BY <1>1, ScanSafeHolds, PTL

\* When clusters are damaged from their first byte on, every other cluster is
\* scanned.
THEOREM ScannedAfterErrorsHolds == Spec => []ScannedAfterErrors
  <1>1. ScanSafe => ScannedAfterErrors
    <2> SUFFICES ASSUME ScanSafe, pc = "restore", ErrorsAtStart,
                        NEW k \in 0 .. Size, Intact(k)
                 PROVE  ScannedOne(k)
      BY DEF ScannedAfterErrors, ScannedOne
    <2>1. k \in Nat
      BY DEF ScanSafe, Types, Size
    <2> QED BY <2>1 DEF ScanSafe, ScannedTo
  <1> QED BY <1>1, ScanSafeHolds, PTL

=============================================================================
