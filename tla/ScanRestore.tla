----------------------------- MODULE ScanRestore -----------------------------
(***************************************************************************)
(* The scan of a damaged volume for directory entries (nuked/main.c) and   *)
(* the restore library that reads its log (fsrestore.cpp).                 *)
(*                                                                         *)
(* The device is a sequence of bytes, scaled: an entry has Entry bytes and *)
(* a cluster ClusterSize.  A byte is what the code may take it for, the    *)
(* type of an entry that begins there; with it goes the byte behind it,    *)
(* which in the first entry of a set is the number of entries that follow  *)
(* and in a label its length, and whether the checksum over a whole set is *)
(* right.  Positions are numbered from 0.                                  *)
(***************************************************************************)
EXTENDS Integers, Sequences, FiniteSets

CONSTANTS
  Devices,       \* the devices: their bytes, and the bytes that cannot be read
  Entry,         \* sizeof(struct exfat_entry)
  ClusterSize,   \* cluster_size_bytes
  MaxCont,       \* the largest number of continuations, 18
  EnameMax,      \* EXFAT_ENAME_MAX, the characters a label has room for, 15
  Start,         \* start_offset_cluster, where the scan begins
  Mark           \* a progress line is written every so many clusters, 0x1000

ByteType == [type : {"FILE", "INFO", "NAME", "LABEL", "OTHER"}, cont : Nat, sum : BOOLEAN]

ASSUME DeviceAssumption == \A d \in Devices : d \in [bytes : Seq(ByteType), bad : SUBSET Nat]

ASSUME ScanAssumption ==
  /\ Entry \in Nat \ {0} /\ Mark \in Nat \ {0} /\ MaxCont \in Nat /\ Start \in Nat
  /\ ClusterSize \in Nat /\ ClusterSize > 2 * Entry /\ EnameMax \in Nat

VARIABLES
  dev,
  pos,       \* file position of the device
  c,         \* the cluster the scanner believes to be at
  buf,       \* what the last read returned: its position and length
  cluster_ptr,
  file_directory_entry,   \* whether the pointer is set
  subcount,
  log,       \* the lines; "at" is where the entry really is
  scanned,   \* history: every buffer that was searched
  line,      \* lines of the log the restore library has read
  restored,  \* offsets whose entry sets it has loaded
  pc

scan_vars == <<pos, c, buf, cluster_ptr, file_directory_entry, subcount, log, scanned>>
restore_vars == <<line, restored>>
vars == <<dev, scan_vars, restore_vars, pc>>

Size == Len(dev.bytes)
Byte(p) == dev.bytes[p + 1]
Line(kind, ofs, at) == [kind |-> kind, ofs |-> ofs, at |-> at]

Init ==
  /\ dev \in Devices
  /\ pos = Start * ClusterSize /\ c = Start /\ buf = <<0, 0>> /\ cluster_ptr = 0
  /\ file_directory_entry = FALSE /\ subcount = 0 /\ log = <<>> /\ scanned = {}
  /\ line = 0 /\ restored = {}
  /\ pc = "read"

-----------------------------------------------------------------------------
(* log_dir_entries: cluster after cluster.                                 *)

\* read(2) returns what comes before the first byte it cannot read.
Readable(p) ==
  LET stops == {q \in p .. p + ClusterSize : q >= Size \/ q \in dev.bad
                                             \/ q = p + ClusterSize}
  IN (CHOOSE q \in stops : \A r \in stops : q <= r) - p

ReadCluster ==
  /\ pc = "read" /\ Readable(pos) > 0
  /\ buf' = <<pos, Readable(pos)>> /\ pos' = pos + Readable(pos)
  /\ cluster_ptr' = 0 /\ file_directory_entry' = FALSE /\ subcount' = 0
  /\ pc' = "search"
  /\ UNCHANGED <<dev, c, log, scanned, restore_vars>>

\* mutant: the position is taken after the cluster was counted
BadClusterLater ==
  /\ pc = "read" /\ pos < Size /\ pos \in dev.bad
  /\ log' = Append(log, Line("BAD_CLUSTER", c * ClusterSize, pos))
  /\ c' = c + 1 /\ pos' = c' * ClusterSize + ClusterSize
  /\ UNCHANGED <<dev, buf, cluster_ptr, file_directory_entry, subcount, scanned,
                 restore_vars, pc>>

BadCluster ==
  /\ pc = "read" /\ pos < Size /\ pos \in dev.bad
  /\ log' = Append(log, Line("BAD_CLUSTER", c * ClusterSize, pos))
  /\ pos' = c * ClusterSize + ClusterSize
  /\ c' = c + 1
  /\ UNCHANGED <<dev, buf, cluster_ptr, file_directory_entry, subcount, scanned,
                 restore_vars, pc>>

EndOfDevice ==
  /\ pc = "read" /\ pos >= Size
  /\ pc' = "restore"
  /\ UNCHANGED <<dev, scan_vars, restore_vars>>

-----------------------------------------------------------------------------
(* cluster_search_file_directory_entries.                                  *)

More == cluster_ptr < buf[2] - 2 * Entry
At == buf[1] + cluster_ptr
cluster_ofs == (cluster_ptr - buf[2]) + c * ClusterSize

Header(p) == /\ Byte(p).type = "FILE"
             /\ Byte(p + Entry).type = "INFO"
             /\ Byte(p + 2 * Entry).type = "NAME"
Continues(p) == Byte(p).cont \in 2 .. MaxCont
SetEnd(p) == p + (Byte(p).cont + 1) * Entry
\* The checksum of a set that goes on after the buffer is taken over whatever
\* lies behind the buffer.
ChecksumsOf(p) == IF SetEnd(p) <= buf[1] + buf[2] THEN {Byte(p).sum} ELSE BOOLEAN

Searching == pc = "search" /\ More

\* mutant: the first entry is counted too
FoundSetCounted ==
  /\ Searching /\ ~file_directory_entry
  /\ Header(At) /\ Continues(At) /\ TRUE \in ChecksumsOf(At)
  /\ log' = Append(log, Line("FDE", cluster_ofs, At))
  /\ file_directory_entry' = TRUE /\ subcount' = Byte(At).cont + 1
  /\ cluster_ptr' = cluster_ptr + Entry
  /\ UNCHANGED <<dev, pos, c, buf, scanned, restore_vars, pc>>

FoundSet ==
  /\ Searching /\ ~file_directory_entry
  /\ Header(At) /\ Continues(At) /\ TRUE \in ChecksumsOf(At)
  /\ log' = Append(log, Line("FDE", cluster_ofs, At))
  /\ file_directory_entry' = TRUE /\ subcount' = Byte(At).cont
  /\ cluster_ptr' = cluster_ptr + Entry
  /\ UNCHANGED <<dev, pos, c, buf, scanned, restore_vars, pc>>

SkipByte ==
  /\ Searching /\ ~file_directory_entry
  /\ (Header(At) /\ Continues(At)) => FALSE \in ChecksumsOf(At)
  /\ cluster_ptr' = cluster_ptr + 1
  /\ UNCHANGED <<dev, pos, c, buf, file_directory_entry, subcount, log, scanned,
                 restore_vars, pc>>

\* The entries that are printed, and those that are not.
LoggedAs == [LABEL |-> "EFL", INFO |-> "EFI", NAME |-> "EFN"]
Lines(type) == IF type \in DOMAIN LoggedAs THEN <<Line(LoggedAs[type], cluster_ofs, At)>>
               ELSE <<>>

\* a label entry that claims more characters than there is room for
TooLong(p) == Byte(p).type = "LABEL" /\ Byte(p).cont > EnameMax

NextEntry ==
  /\ Searching /\ file_directory_entry /\ subcount > 0 /\ ~TooLong(At)
  /\ log' = log \o Lines(Byte(At).type)
  /\ subcount' = subcount - 1 /\ cluster_ptr' = cluster_ptr + Entry
  /\ UNCHANGED <<dev, pos, c, buf, file_directory_entry, scanned, restore_vars, pc>>

\* The length of a label is taken as it is: a longer one is copied over the end
\* of namebuf, and what the program does from there on is undefined.
OverrunLabel ==
  /\ Searching /\ file_directory_entry /\ subcount > 0 /\ TooLong(At)
  /\ pc' = "undefined"
  /\ UNCHANGED <<dev, scan_vars, restore_vars>>

\* mutant: the set is not left
EndSetStays ==
  /\ Searching /\ file_directory_entry /\ subcount = 0
  /\ UNCHANGED vars

EndSet ==
  /\ Searching /\ file_directory_entry /\ subcount = 0
  /\ file_directory_entry' = FALSE
  /\ UNCHANGED <<dev, pos, c, buf, cluster_ptr, subcount, log, scanned, restore_vars, pc>>

EndCluster ==
  /\ pc = "search" /\ ~More
  /\ log' = (IF c % Mark = 0 THEN Append(log, Line("CLUSTER", c * ClusterSize, buf[1]))
             ELSE log)
  /\ c' = c + 1 /\ scanned' = scanned \cup {buf} /\ pc' = "read"
  /\ UNCHANGED <<dev, pos, buf, cluster_ptr, file_directory_entry, subcount, restore_vars>>

-----------------------------------------------------------------------------
(* rebuildFromScanLogfile: line after line.  An exception leaves a         *)
(* function that is declared not to throw, which ends the program.         *)

NodeSize == (MaxCont + 1) * Entry   \* sizeof(struct exfat_node_entry)

\* what pread(2) of a whole entry set returns
Pread(ofs) ==
  LET stops == {q \in ofs .. ofs + NodeSize : q >= Size \/ q \in dev.bad
                                              \/ q = ofs + NodeSize}
  IN IF ofs < 0 \/ (ofs < Size /\ ofs \in dev.bad) THEN -1
     ELSE (CHOOSE q \in stops : \A r \in stops : q <= r) - ofs

Refused(l) == \/ l.kind \notin {"CLUSTER", "FDE", "EFI", "EFN"}
              \/ l.kind = "FDE" /\ Pread(l.ofs) = -1

processLine ==
  /\ pc = "restore" /\ line < Len(log)
  /\ LET l == log[line + 1] IN
     /\ pc' = IF Refused(l) THEN "terminated" ELSE "restore"
     /\ restored' = IF l.kind = "FDE" /\ Pread(l.ofs) = NodeSize
                    THEN restored \cup {l.ofs} ELSE restored
  /\ line' = line + 1
  /\ UNCHANGED <<dev, scan_vars>>

EndOfLog ==
  /\ pc = "restore" /\ line = Len(log) /\ pc' = "done"
  /\ UNCHANGED <<dev, scan_vars, restore_vars>>

Next == \/ ReadCluster \/ BadCluster \/ EndOfDevice
        \/ FoundSet \/ SkipByte \/ NextEntry \/ OverrunLabel \/ EndSet \/ EndCluster
        \/ processLine \/ EndOfLog

Spec == Init /\ [][Next]_vars /\ WF_vars(Next)

-----------------------------------------------------------------------------
(* Properties.                                                             *)

Found == {log[i].at : i \in {j \in DOMAIN log : log[j].kind = "FDE"}}
LoggedAt(p) == {log[i].kind : i \in {j \in DOMAIN log : log[j].at = p}}
\* an entry at p is examined when a buffer is searched
Examined(s, p) == s[1] <= p /\ p < s[1] + s[2] - 2 * Entry

\* a set at p is right and ends before end; it, or one that reaches over p, is
\* found; the entry at q is logged, if it is one of those that are
Whole(p, end) == SetEnd(p) <= end /\ Header(p) /\ Continues(p) /\ Byte(p).sum
Covered(p) == p \in Found \/ \E q \in Found : q < p /\ p < SetEnd(q)
Logged(q) == Byte(q).type \in DOMAIN LoggedAs => LoggedAs[Byte(q).type] \in LoggedAt(q)

\* A set that lies in one buffer, not at its very end, is found unless it
\* overlaps one that was found before it, and every entry of a set that is
\* found is logged as far as the buffer is searched.
SetsLogged ==
  \A s \in scanned :
    /\ \A p \in s[1] .. s[1] + s[2] - 1 :
         Examined(s, p) /\ Whole(p, s[1] + s[2]) => Covered(p)
    /\ \A p \in Found : \A k \in 1 .. Byte(p).cont :
         Examined(s, p) /\ Examined(s, p + k * Entry) => Logged(p + k * Entry)

ClusterRange(k) == k * ClusterSize .. (k + 1) * ClusterSize - 1
Intact(k) == /\ k >= Start /\ ClusterRange(k) \subseteq 0 .. Size - 1
             /\ ClusterRange(k) \cap dev.bad = {}

\* The device is damaged in whole clusters, or from their first byte on.
ErrorsAtStart ==
  \A p \in dev.bad : \E k \in 0 .. Size :
    p \in ClusterRange(k) /\ k * ClusterSize \in dev.bad

\* From where it begins, the scan runs through every cluster that can be read:
\* after an error it finds back to the beginning of a cluster.
ScannedAfterErrors ==
  pc = "restore" /\ ErrorsAtStart =>
    \A k \in 0 .. Size : Intact(k) =>
      \E s \in scanned : ClusterRange(k) \subseteq s[1] .. s[1] + s[2] - 1

\* The scan reaches the end of the device, whatever cannot be read, and the
\* log is read to its end or refused, unless some byte can be taken for a label
\* that is too long: then namebuf may be overrun.
LabelsFit == \A p \in 0 .. Size - 1 : ~TooLong(p)
Ends == LabelsFit => <>(pc \in {"done", "terminated"})
=============================================================================
