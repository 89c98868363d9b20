---------------------------- MODULE VolumeProofs ----------------------------
(***************************************************************************)
(* What holds of mounting, repairing and unmounting for every damaged      *)
(* volume: directories of any length and in any arrangement, cycles        *)
(* included, any names, any number of tools, kills and failures.           *)
(***************************************************************************)
EXTENDS Volume, Iteration, SequenceTheorems

-----------------------------------------------------------------------------
(* The inductive invariant.                                                *)

Key == Seq(Nat)
NodeType == [dirty : BOOLEAN, cached : BOOLEAN, parent : Key, at : Nat,
             isdir : BOOLEAN, marked : BOOLEAN, name : Names, to : Dirs]
EfType == [held : SUBSET {"dev", "zero_cluster", "upcase", "sb"},
           mode : {"RO", "RW"}, ro : {-1, 0, 1}, chunk : Key,
           orphans : SUBSET Key, cdirty : BOOLEAN]
ReadType == [node : Key, at : Nat, from : {"none", "mount", "lookup", "dirck", "fuse"}]
FrameType == [path : Seq(Names), left : Seq(Names), cur : Key, child : Key]
BudgetType == [faults : 0 .. MaxFaults, crashes : Nat, runs : Nat]

Early == {"alloc_sb", "read_sb", "oem", "sector_bits", "cluster_bits",
          "alloc_zero", "vbr", "version", "fat_count", "clusters", "alloc_root"}
Late == {"rootchain", "readdir", "upcase", "chunk", "prepare", "error", "free",
         "running", "lookup", "entries", "flush", "unmount", "bitmap", "reset",
         "finalize"}
Dead == {"bug", "overflow"}

NodeTypes == DOMAIN node \subseteq Key /\ \A k \in DOMAIN node : node[k] \in NodeType
Types ==
  /\ disk \in DiskType /\ ef \in EfType /\ tool \in ToolType /\ NodeTypes
  /\ rd \in ReadType /\ stack \in Seq(FrameType)
  /\ pc \in {"idle"} \cup Early \cup Late \cup Dead
  /\ found \in BOOLEAN /\ aborted \in BOOLEAN /\ lost \in BOOLEAN
  /\ claimed \subseteq Dirs \X Nat /\ budget \in BudgetType

\* Between prepare_super_block() and finalize_super_block().
InSession ==
  \/ pc \in {"running", "lookup", "entries", "flush", "unmount", "bitmap", "reset",
             "finalize"}
  \/ pc = "readdir" /\ rd.from # "mount"

\* What is allocated when.
Phases ==
  /\ pc = "idle" => ef.held = {} /\ ef.chunk = <<>> /\ DOMAIN node = {}
  /\ pc \in Early \cup {"rootchain"} => ef.chunk = <<>> /\ ef.orphans = {} /\ claimed = {}
  /\ pc \in Early => DOMAIN node = {}
  /\ pc \in Late => <<>> \in DOMAIN node
  /\ pc \in {"rootchain", "free", "finalize"} => DOMAIN node = {<<>>}

\* What is mounted read-only was opened so; while a volume that may be written
\* is in use it is marked; changes of the bitmap are written before the mark
\* goes.
Flags ==
  /\ ef.ro # 0 => ef.mode = "RO"
  /\ InSession /\ ef.ro = 0 => disk.mounted
  /\ NoTransferFailed =>
       /\ lost => disk.mounted
       /\ ef.cdirty /\ pc \notin Dead =>
            InSession /\ ef.ro = 0 /\ pc \notin {"reset", "finalize"}

EntryOf(k) == disk.dir[Home(k)][node[k].at]

\* The parent of k has all its nodes, so no roll-back frees k.
Safe(k) == k = <<>> \/ node[node[k].parent].cached

\* Every node is where its entry is, and belongs to a directory that was read
\* or is being read.
NodeInv(x) ==
  /\ node[x].parent \in DOMAIN node
  /\ x = Append(node[x].parent, node[x].at)
  /\ node[x].at \in 1 .. Len(disk.dir[Home(x)])
  /\ node[x].isdir => EntryOf(x).kind = "dir" /\ node[x].to = EntryOf(x).to
  /\ Safe(x) \/ (pc = "readdir" /\ node[x].parent = rd.node /\ node[x].at < rd.at)
RootInv ==
  <<>> \in DOMAIN node =>
    /\ node[<<>>].to = "root" /\ node[<<>>].isdir /\ ~node[<<>>].dirty
    /\ pc = "rootchain" => ~node[<<>>].cached
    /\ pc \in {"upcase", "chunk", "prepare"} \/ (InSession /\ pc # "finalize") =>
         node[<<>>].cached
Tree ==
  pc \notin Dead =>
    /\ RootInv
    /\ \A x \in DOMAIN node \ {<<>>} : NodeInv(x)
    /\ \A x \in DOMAIN node : node[x].cached => Safe(x)
    /\ pc = "readdir" =>
         /\ rd.node \in DOMAIN node /\ ~node[rd.node].cached
         /\ node[rd.node].isdir /\ Safe(rd.node) /\ rd.at # 0
         /\ rd.from = "mount" => rd.node = <<>>

\* A node that stays as long as the volume is mounted.
Lasting(k) == k \in DOMAIN node /\ Safe(k)
InDirck ==
  \/ pc \in {"lookup", "entries", "flush"}
  \/ pc = "readdir" /\ rd.from \in {"lookup", "dirck"}
Frames ==
  InDirck =>
    /\ stack # <<>>
    /\ \A i \in 1 .. Len(stack) : Lasting(stack[i].cur)
    /\ \A i \in 1 .. Len(stack) - 1 :
         Lasting(stack[i].child) /\ node[stack[i].cur].cached
    /\ pc \in {"entries", "flush"} => node[Top.cur].cached
    /\ pc = "flush" => Lasting(Top.child)
    /\ pc = "readdir" /\ rd.from = "dirck" => rd.node = Top.cur

\* A repaired checksum that is not written yet is in a dirty node.
Pending(c) == \E k \in DOMAIN node \ {<<>>} :
                node[k].dirty /\ Home(k) = c[1] /\ node[k].at = c[2]
Claims ==
  /\ \A c \in claimed : c[2] \in 1 .. Len(disk.dir[c[1]])
  /\ pc \notin Dead /\ NoTransferFailed /\ ~aborted /\ tool.name # "none" =>
       \A c \in claimed :
         /\ disk.dir[c[1]][c[2]].kind # "unknown"
         /\ SumRight(disk.dir[c[1]][c[2]]) \/ Pending(c)

\* One bitmap is read at most once.
Bitmaps ==
  pc \notin Dead /\ OneBitmap =>
    /\ ef.orphans = {}
    /\ ef.chunk # <<>> /\ pc = "readdir" /\ rd.node = <<>> =>
         \E j \in 1 .. Len(disk.dir["root"]) :
           j < rd.at /\ disk.dir["root"][j].kind = "bitmap"

VolumeInv == Types /\ Phases /\ Flags /\ Tree /\ Frames /\ Claims /\ Bitmaps

-----------------------------------------------------------------------------
(* The device: entries are edited one at a time.                           *)

\* dk is the device after entry i of directory d has become e.
Edited(dk, d, i, e) ==
  /\ dk \in DiskType /\ dk.mounted = disk.mounted
  /\ \A x \in Dirs : Len(dk.dir[x]) = Len(disk.dir[x])
  /\ \A x \in Dirs : \A j \in 1 .. Len(disk.dir[x]) :
       dk.dir[x][j] = IF x = d /\ j = i THEN e ELSE disk.dir[x][j]

LEMMA EditIs ==
  ASSUME disk \in DiskType, NEW d \in Dirs, NEW i \in 1 .. Len(disk.dir[d]), NEW e \in Entry
  PROVE  Edited([disk EXCEPT !.dir[d][i] = e], d, i, e)
  <1> DEFINE s == disk.dir[d]
             t == [s EXCEPT ![i] = e]
             D == [disk.dir EXCEPT ![d] = t]
             dk == [disk EXCEPT !.dir = D]
  <1>1. disk.dir \in [Dirs -> Seq(Entry)] /\ s \in Seq(Entry)
    BY DEF DiskType
  <1>2. Len(s) \in Nat /\ s \in [1 .. Len(s) -> Entry]
    BY <1>1
  <1>3. t \in [1 .. Len(s) -> Entry]
    BY <1>2
  <1>4. t \in Seq(Entry) /\ Len(t) = Len(s)
    BY <1>2, <1>3
  <1>5. \A j \in 1 .. Len(s) : t[j] = IF j = i THEN e ELSE s[j]
    BY <1>2
  <1> HIDE DEF t
  <1>6. D \in [Dirs -> Seq(Entry)]
    BY <1>1, <1>4
  <1>7. D[d] = t /\ \A x \in Dirs : x # d => D[x] = disk.dir[x]
    BY <1>1
  <1> HIDE DEF D
  <1>8. dk \in DiskType /\ dk.mounted = disk.mounted /\ dk.dir = D
    BY <1>6 DEF DiskType
  <1>9. \A x \in Dirs : Len(dk.dir[x]) = Len(disk.dir[x])
    BY <1>4, <1>7, <1>8
  <1>10. \A x \in Dirs : \A j \in 1 .. Len(disk.dir[x]) :
           dk.dir[x][j] = IF x = d /\ j = i THEN e ELSE disk.dir[x][j]
    BY <1>5, <1>7, <1>8
  <1>11. [disk EXCEPT !.dir[d][i] = e] = dk
    BY DEF D, t
  <1> HIDE DEF dk
  <1> QED BY <1>8, <1>9, <1>10, <1>11 DEF Edited

LEMMA EditField ==
  ASSUME disk \in DiskType, NEW d \in Dirs, NEW i \in 1 .. Len(disk.dir[d])
  PROVE  /\ disk.dir[d][i] \in Entry
         /\ Edited([disk EXCEPT !.dir[d][i].sum = TRUE], d, i,
                   [disk.dir[d][i] EXCEPT !.sum = TRUE])
         /\ Edited([disk EXCEPT !.dir[d][i].kind = "deleted"], d, i,
                   [disk.dir[d][i] EXCEPT !.kind = "deleted"])
  <1> DEFINE e == disk.dir[d][i]
  <1>1. e \in Entry
    BY DEF DiskType
  <1>2. [e EXCEPT !.sum = TRUE] \in Entry /\ [e EXCEPT !.kind = "deleted"] \in Entry
    BY <1>1 DEF Entry, Kinds
  <1>3. /\ [disk EXCEPT !.dir[d][i].sum = TRUE]
             = [disk EXCEPT !.dir[d][i] = [e EXCEPT !.sum = TRUE]]
        /\ [disk EXCEPT !.dir[d][i].kind = "deleted"]
             = [disk EXCEPT !.dir[d][i] = [e EXCEPT !.kind = "deleted"]]
    OBVIOUS
  <1> QED BY <1>1, <1>2, <1>3, EditIs

-----------------------------------------------------------------------------
(* The initial states.                                                     *)

LEMMA EmptyFacts ==
  /\ DOMAIN <<>> = {} /\ <<>> \in Key /\ <<>> \in Seq(FrameType)
  /\ NoRead \in ReadType /\ NoTool \in ToolType /\ NoTool.name = "none"
  /\ NoEf \in EfType /\ NoEf.ro = 0 /\ NoEf.held = {} /\ NoEf.chunk = <<>>
  /\ NoEf.orphans = {} /\ NoEf.cdirty = FALSE
  BY DEF Key, NoRead, ReadType, NoTool, ToolType, NoEf, EfType

LEMMA InitHolds == Init => VolumeInv
  <1> SUFFICES ASSUME Init PROVE VolumeInv
    OBVIOUS
  <1>1. /\ disk \in DiskType /\ ef = NoEf /\ node = <<>> /\ rd = NoRead /\ stack = <<>>
        /\ pc = "idle" /\ tool = NoTool /\ found = FALSE
        /\ claimed = {} /\ aborted = FALSE /\ lost = FALSE
        /\ budget = [faults |-> MaxFaults, crashes |-> MaxCrashes, runs |-> MaxRuns]
    BY DiskAssumption DEF Init
  <1>2. Types
    <2>1. budget \in BudgetType
      BY <1>1, BoundAssumption DEF BudgetType
    <2>2. NodeTypes
      BY <1>1, EmptyFacts DEF NodeTypes
    <2> QED BY <1>1, <2>1, <2>2, EmptyFacts DEF Types
  <1>3. Phases /\ Flags /\ Frames
    BY <1>1, EmptyFacts DEF Phases, Flags, Frames, InDirck, InSession, Early, Late
  <1>4. Tree /\ Claims /\ Bitmaps
    BY <1>1, EmptyFacts DEF Tree, RootInv, Claims, Bitmaps
  <1> QED BY <1>2, <1>3, <1>4 DEF VolumeInv

-----------------------------------------------------------------------------
(* Facts that the steps share.                                             *)

LEMMA FaultFacts ==
  ASSUME Types, Fault
  PROVE  budget' \in BudgetType /\ ~NoTransferFailed'
  <1>1. PICK f \in 0 .. MaxFaults : f = budget.faults
    BY DEF Types, BudgetType
  <1>2. f > 0 /\ budget' = [budget EXCEPT !.faults = f - 1] /\ budget \in BudgetType
    BY <1>1 DEF Fault, Types
  <1>3. f \in Nat /\ MaxFaults \in Nat /\ f - 1 \in 0 .. MaxFaults /\ f - 1 # MaxFaults
    BY <1>1, <1>2, BoundAssumption
  <1>4. budget' \in BudgetType /\ budget'.faults = f - 1
    BY <1>2, <1>3 DEF BudgetType
  <1> QED BY <1>3, <1>4 DEF NoTransferFailed

\* The directories have the entries they had, except for their checksums
\* and for unknown ones that are deleted.
SameShape ==
  /\ \A d \in Dirs : Len(disk'.dir[d]) = Len(disk.dir[d])
  /\ \A d \in Dirs : \A i \in 1 .. Len(disk.dir[d]) :
       /\ disk'.dir[d][i].to = disk.dir[d][i].to
       /\ disk'.dir[d][i].kind = disk.dir[d][i].kind
            \/ (disk.dir[d][i].kind = "unknown" /\ disk'.dir[d][i].kind = "deleted")

LEMMA DirFacts ==
  ASSUME disk \in DiskType, NEW d \in Dirs
  PROVE  /\ disk.dir[d] \in Seq(Entry) /\ Len(disk.dir[d]) \in Nat
         /\ DOMAIN disk.dir[d] = 1 .. Len(disk.dir[d])
         /\ \A i \in 1 .. Len(disk.dir[d]) : disk.dir[d][i] \in Entry
  <1>1. disk.dir[d] \in Seq(Entry)
    BY DEF DiskType
  <1> QED BY <1>1

LEMMA UnchangedShape ==
  ASSUME disk'.dir = disk.dir PROVE SameShape
  BY DEF SameShape

LEMMA ShapeBitmap ==
  ASSUME disk \in DiskType, disk' \in DiskType, SameShape
  PROVE  OneBitmap' => OneBitmap
  <1>1. \A d \in Dirs : DOMAIN disk.dir[d] = 1 .. Len(disk.dir[d])
                        /\ DOMAIN disk'.dir[d] = 1 .. Len(disk.dir[d])
    <2> SUFFICES ASSUME NEW d \in Dirs
                 PROVE  DOMAIN disk.dir[d] = 1 .. Len(disk.dir[d])
                        /\ DOMAIN disk'.dir[d] = 1 .. Len(disk.dir[d])
      OBVIOUS
    <2>1. disk.dir[d] \in Seq(Entry) /\ disk'.dir[d] \in Seq(Entry)
      BY DEF DiskType
    <2>2. Len(disk'.dir[d]) = Len(disk.dir[d])
      BY DEF SameShape
    <2> QED BY <2>1, <2>2
  <1>2. \A d \in Dirs : \A i \in DOMAIN disk.dir[d] :
          /\ i \in DOMAIN disk'.dir[d]
          /\ disk'.dir[d][i].to = disk.dir[d][i].to
          /\ disk.dir[d][i].kind = "bitmap" => disk'.dir[d][i].kind = "bitmap"
          /\ disk.dir[d][i].kind = "dir" => disk'.dir[d][i].kind = "dir"
    BY <1>1 DEF SameShape
  <1>3. "root" \in Dirs
    BY NameAssumption
  <1> SUFFICES ASSUME OneBitmap' PROVE OneBitmap
    OBVIOUS
  <1>4. /\ \A d \in Dirs : \A i \in DOMAIN disk'.dir[d] :
             /\ disk'.dir[d][i].kind = "bitmap" => d = "root"
             /\ disk'.dir[d][i].kind = "dir" => disk'.dir[d][i].to # "root"
        /\ \A i, j \in DOMAIN disk'.dir["root"] :
             disk'.dir["root"][i].kind = "bitmap" /\ disk'.dir["root"][j].kind = "bitmap"
               => i = j
    BY DEF OneBitmap, EntriesOf
  <1>5. \A d \in Dirs : \A e \in EntriesOf(d) :
          /\ e.kind = "bitmap" => d = "root"
          /\ e.kind = "dir" => e.to # "root"
    BY <1>2, <1>4 DEF EntriesOf
  <1>6. \A i, j \in DOMAIN disk.dir["root"] :
          disk.dir["root"][i].kind = "bitmap" /\ disk.dir["root"][j].kind = "bitmap"
            => i = j
    BY <1>2, <1>3, <1>4
  <1> QED BY <1>5, <1>6 DEF OneBitmap

\* A step after which no node is left.
LEMMA EmptyStep ==
  ASSUME Types', pc' \in Early \cup {"idle"}, DOMAIN node' = {}, ef'.chunk = <<>>,
         pc' = "idle" => ef'.held = {},
         pc' \in Early => ef'.orphans = {} /\ claimed' = {},
         ef'.ro # 0 => ef'.mode = "RO",
         NoTransferFailed' => ~ef'.cdirty /\ (lost' => disk'.mounted),
         OneBitmap' => ef'.orphans = {},
         \A c \in claimed' : c[2] \in 1 .. Len(disk'.dir[c[1]]),
         NoTransferFailed' /\ ~aborted' /\ tool'.name # "none" =>
           \A c \in claimed' : /\ disk'.dir[c[1]][c[2]].kind # "unknown"
                               /\ SumRight(disk'.dir[c[1]][c[2]])
  PROVE  VolumeInv'
  <1>1. pc' # "readdir" /\ pc' \notin Late
    BY DEF Early, Late
  <1>2. ~InSession' /\ ~InDirck'
    BY <1>1 DEF InSession, InDirck, Late
  <1>3. Phases'
    BY <1>1, EmptyFacts DEF Phases, Late
  <1>4. Flags' /\ Frames'
    BY <1>2 DEF Flags, Frames
  <1>5. Tree'
    BY <1>1 DEF Tree, RootInv
  <1>6. Claims' /\ Bitmaps'
    BY <1>1 DEF Claims, Bitmaps
  <1> QED BY <1>3, <1>4, <1>5, <1>6 DEF VolumeInv


-----------------------------------------------------------------------------
(* exfat_mount() before the root directory is read, and its returns.       *)

LEMMA FreeFacts ==
  ASSUME Types, exfat_free, DOMAIN node \subseteq {<<>>}
  PROVE  /\ DOMAIN node' = {} /\ NodeTypes' /\ ef' \in EfType
         /\ ef'.held = {} /\ ef'.chunk = <<>> /\ ef'.orphans = ef.orphans
         /\ ef'.cdirty = ef.cdirty /\ ef'.ro = ef.ro /\ ef'.mode = ef.mode
  <1>1. DOMAIN node' = {}
    BY DEF exfat_free, Without
  <1>2. NodeTypes'
    BY <1>1 DEF NodeTypes
  <1> DEFINE h == ef.held \ {"dev", "zero_cluster", "upcase", "sb"}
  <1>3. ef' = [ef EXCEPT !.held = h, !.chunk = <<>>]
    BY DEF exfat_free
  <1>4. ef \in EfType /\ ef.held \subseteq {"dev", "zero_cluster", "upcase", "sb"}
    BY DEF Types, EfType
  <1>5. h = {}
    BY <1>4
  <1> QED BY <1>1, <1>2, <1>3, <1>4, <1>5, EmptyFacts DEF EfType

LEMMA NothingPending ==
  ASSUME Tree, pc \notin Dead, DOMAIN node \subseteq {<<>>}, NEW c
  PROVE  ~Pending(c)
  BY DEF Pending

\* exfat_mount() gives up when there is at most the root node.
LEMMA GiveUpStep ==
  ASSUME VolumeInv, pc \in Early \cup {"rootchain", "free"}, GiveUp,
         UNCHANGED <<disk, stack, tool, History>>, rd' \in ReadType,
         budget' \in BudgetType, NoTransferFailed' => NoTransferFailed
  PROVE  VolumeInv'
  <1>1. Types /\ Phases /\ Flags /\ Tree /\ Claims /\ Bitmaps
    BY DEF VolumeInv
  <1>2. pc \notin Dead /\ pc # "idle"
    BY DEF Early, Dead
  <1>3. DOMAIN node \subseteq {<<>>}
    BY <1>1 DEF Phases
  <1>4. exfat_free /\ pc' = "idle" /\ found' = TRUE
    BY DEF GiveUp
  <1>5. /\ DOMAIN node' = {} /\ NodeTypes' /\ ef' \in EfType
        /\ ef'.held = {} /\ ef'.chunk = <<>> /\ ef'.orphans = ef.orphans
        /\ ef'.cdirty = ef.cdirty /\ ef'.ro = ef.ro /\ ef'.mode = ef.mode
    BY <1>1, <1>3, <1>4, FreeFacts
  <1>6. disk' = disk /\ stack' = stack /\ tool' = tool /\ claimed' = claimed
        /\ aborted' = aborted /\ lost' = lost
    BY DEF History
  <1>7. Types'
    BY <1>1, <1>4, <1>5, <1>6 DEF Types
  <1>8. ~InSession
    BY DEF InSession, Early
  <1>9. NoTransferFailed => ~ef.cdirty /\ (lost => disk.mounted)
    BY <1>1, <1>2, <1>8 DEF Flags
  <1>10. ef.ro # 0 => ef.mode = "RO"
    BY <1>1 DEF Flags
  <1>11. OneBitmap' => ef'.orphans = {}
    <2>1. SameShape
      BY <1>6, UnchangedShape
    <2>2. OneBitmap' => OneBitmap
      BY <1>1, <1>6, <2>1, ShapeBitmap DEF Types
    <2> QED BY <1>1, <1>2, <1>5, <2>2 DEF Bitmaps
  <1>12. \A c : ~Pending(c)
    BY <1>1, <1>2, <1>3, NothingPending
  <1>13. /\ \A c \in claimed' : c[2] \in 1 .. Len(disk'.dir[c[1]])
         /\ NoTransferFailed' /\ ~aborted' /\ tool'.name # "none" =>
              \A c \in claimed' : /\ disk'.dir[c[1]][c[2]].kind # "unknown"
                                  /\ SumRight(disk'.dir[c[1]][c[2]])
    BY <1>1, <1>2, <1>6, <1>12 DEF Claims
  <1>14. pc' \notin Early
    BY <1>4 DEF Early
  <1> QED BY <1>4, <1>5, <1>6, <1>7, <1>9, <1>10, <1>11, <1>13, <1>14, EmptyStep

\* exfat_mount() goes on.
LEMMA EarlyStep ==
  ASSUME VolumeInv, pc \in Early, pc' \in Early, UNCHANGED <<node, rd, stack, tool, History, budget>>,
         disk' \in DiskType, disk'.mounted = disk.mounted, disk'.dir = disk.dir,
         found' \in BOOLEAN, ef' \in EfType,
         ef'.chunk = ef.chunk, ef'.orphans = ef.orphans, ef'.cdirty = ef.cdirty,
         ef'.ro = ef.ro, ef'.mode = ef.mode
  PROVE  VolumeInv'
  <1>1. Types /\ Phases /\ Flags /\ Tree /\ Claims /\ Bitmaps
    BY DEF VolumeInv
  <1>2. pc \notin Dead /\ pc # "idle" /\ pc' # "idle"
    BY DEF Early, Dead
  <1>3. /\ node' = node /\ rd' = rd /\ stack' = stack /\ tool' = tool /\ budget' = budget
        /\ claimed' = claimed /\ aborted' = aborted /\ lost' = lost
    BY DEF History
  <1>4. DOMAIN node' = {} /\ ef'.chunk = <<>> /\ ef'.orphans = {} /\ claimed' = {}
    BY <1>1, <1>3 DEF Phases
  <1>5. Types'
    BY <1>1, <1>3 DEF Types, NodeTypes
  <1>6. ~InSession
    BY DEF InSession, Early
  <1>7. NoTransferFailed' => ~ef'.cdirty /\ (lost' => disk'.mounted)
    BY <1>1, <1>2, <1>3, <1>6 DEF Flags, NoTransferFailed
  <1>8. ef'.ro # 0 => ef'.mode = "RO"
    BY <1>1 DEF Flags
  <1> QED BY <1>2, <1>4, <1>5, <1>7, <1>8, EmptyStep

LEMMA FaultGivesUp ==
  ASSUME VolumeInv, pc \in Early \cup {"rootchain", "free"}, GiveUp, Fault,
         UNCHANGED <<disk, rd, stack, tool, History>>
  PROVE  VolumeInv'
  <1>1. budget' \in BudgetType /\ ~NoTransferFailed'
    BY FaultFacts DEF VolumeInv
  <1>2. rd' \in ReadType
    BY DEF VolumeInv, Types
  <1> QED BY <1>1, <1>2, GiveUpStep

LEMMA DamageGivesUp ==
  ASSUME VolumeInv, pc \in Early \cup {"rootchain", "free"}, GiveUp, UNCHANGED budget,
         UNCHANGED <<disk, rd, stack, tool, History>>
  PROVE  VolumeInv'
  <1>1. budget' \in BudgetType /\ (NoTransferFailed' => NoTransferFailed)
    BY DEF VolumeInv, Types, NoTransferFailed
  <1>2. rd' \in ReadType
    BY DEF VolumeInv, Types
  <1> QED BY <1>1, <1>2, GiveUpStep

LEMMA AllocHolds ==
  ASSUME VolumeInv, NEW here \in Early, NEW pointer \in {"zero_cluster", "sb"},
         NEW next \in Early, Alloc(here, pointer, next)
  PROVE  VolumeInv'
  <1>1. pc = here /\ Quiet
    BY DEF Alloc
  <1>2. UNCHANGED <<disk, rd, stack, tool, History>>
    BY <1>1 DEF Quiet
  <1>3. CASE /\ ef' = [ef EXCEPT !.held = ef.held \cup {pointer}] /\ pc' = next
             /\ UNCHANGED <<node, found, budget>>
    <2> DEFINE h == ef.held \cup {pointer}
    <2>1. ef \in EfType /\ found \in BOOLEAN /\ disk \in DiskType
      BY DEF VolumeInv, Types
    <2>2. h \in SUBSET {"dev", "zero_cluster", "upcase", "sb"}
      BY <2>1 DEF EfType
    <2>3. ef' = [ef EXCEPT !.held = h]
      BY <1>3
    <2> HIDE DEF h
    <2>4. /\ ef' \in EfType /\ ef'.chunk = ef.chunk /\ ef'.orphans = ef.orphans
          /\ ef'.cdirty = ef.cdirty /\ ef'.ro = ef.ro /\ ef'.mode = ef.mode
      BY <2>1, <2>2, <2>3 DEF EfType
    <2> QED BY <1>1, <1>2, <1>3, <2>1, <2>4, EarlyStep
  <1>4. CASE Fault /\ GiveUp
    BY <1>1, <1>2, <1>4, FaultGivesUp
  <1> QED BY <1>3, <1>4 DEF Alloc

LEMMA CheckHolds ==
  ASSUME VolumeInv, NEW field \in Early, NEW next \in Early, Check(field, next)
  PROVE  VolumeInv'
  <1>1. pc = field /\ UNCHANGED <<disk, rd, stack, tool, History>> /\ UNCHANGED budget
    BY DEF Check, Quiet
  <1>2. CASE field \in disk.bad /\ GiveUp
    BY <1>1, <1>2, DamageGivesUp
  <1>3. CASE pc' = next /\ UNCHANGED <<ef, node, found>>
    <2>1. ef \in EfType /\ found \in BOOLEAN /\ disk \in DiskType
      BY DEF VolumeInv, Types
    <2> QED BY <1>1, <1>3, <2>1, EarlyStep
  <1> QED BY <1>2, <1>3 DEF Check

LEMMA ReadSbHolds == VolumeInv /\ ReadSb => VolumeInv'
  <1> SUFFICES ASSUME VolumeInv, ReadSb PROVE VolumeInv'
    OBVIOUS
  <1>1. pc = "read_sb" /\ pc \in Early /\ UNCHANGED <<disk, rd, stack, tool, History>>
    BY DEF ReadSb, Quiet, Early
  <1>2. CASE pc' = "oem" /\ UNCHANGED <<ef, node, found, budget>>
    <2>1. ef \in EfType /\ found \in BOOLEAN /\ disk \in DiskType /\ pc' \in Early
      BY <1>2 DEF VolumeInv, Types, Early
    <2> QED BY <1>1, <1>2, <2>1, EarlyStep
  <1>3. CASE Fault /\ GiveUp
    BY <1>1, <1>3, FaultGivesUp
  <1> QED BY <1>2, <1>3 DEF ReadSb

LEMMA VbrHolds == VolumeInv /\ verify_vbr_checksum => VolumeInv'
  <1> SUFFICES ASSUME VolumeInv, verify_vbr_checksum PROVE VolumeInv'
    OBVIOUS
  <1>1. /\ pc = "vbr" /\ pc \in Early /\ "version" \in Early
        /\ UNCHANGED <<rd, stack, tool, History>>
    BY DEF verify_vbr_checksum, Early
  <1>2. ef \in EfType /\ found \in BOOLEAN /\ disk \in DiskType
    BY DEF VolumeInv, Types
  <1>3. CASE Fault /\ GiveUp /\ UNCHANGED disk
    BY <1>1, <1>3, FaultGivesUp
  <1>4. CASE pc' = "version" /\ UNCHANGED <<disk, ef, node, found, budget>>
    BY <1>1, <1>2, <1>4, EarlyStep
  <1>5. CASE UNCHANGED budget /\ GiveUp /\ UNCHANGED disk
    BY <1>1, <1>5, DamageGivesUp
  <1>6. CASE /\ disk' = [disk EXCEPT !.bad = disk.bad \ {"vbr"}] /\ UNCHANGED budget
             /\ found' = TRUE /\ pc' = "version" /\ UNCHANGED <<ef, node>>
    <2> DEFINE b == disk.bad \ {"vbr"}
    <2>1. b \in SUBSET Fields
      BY <1>2 DEF DiskType
    <2>2. disk' = [disk EXCEPT !.bad = b]
      BY <1>6
    <2> HIDE DEF b
    <2>3. disk' \in DiskType /\ disk'.mounted = disk.mounted /\ disk'.dir = disk.dir
      BY <1>2, <2>1, <2>2 DEF DiskType
    <2> QED BY <1>1, <1>2, <1>6, <2>3, EarlyStep
  <1> QED BY <1>3, <1>4, <1>5, <1>6 DEF verify_vbr_checksum


LEMMA OpenHolds ==
  ASSUME VolumeInv, NEW t \in Tools, exfat_open(t)
  PROVE  VolumeInv'
  <1>1. Types /\ Phases /\ Flags /\ Claims /\ pc = "idle"
    BY DEF VolumeInv, exfat_open
  <1>2. /\ tool' = t /\ claimed' = {} /\ aborted' = FALSE /\ node' = <<>>
        /\ rd' = NoRead /\ stack' = <<>> /\ disk' = disk /\ lost' = lost
    BY DEF exfat_open
  <1>3. t \in ToolType
    BY ToolAssumption
  <1>4. DOMAIN node' = {} /\ NodeTypes'
    BY <1>2, EmptyFacts DEF NodeTypes
  <1> DEFINE used == [budget EXCEPT !.runs = budget.runs - 1]
             less == [used EXCEPT !.faults = used.faults - 1]
  <1>5. used \in BudgetType /\ used.faults = budget.faults
    <2>1. PICK r \in Nat : r = budget.runs
      BY <1>1 DEF Types, BudgetType
    <2>2. r > 0 /\ used = [budget EXCEPT !.runs = r - 1] /\ budget \in BudgetType
      BY <1>1, <2>1 DEF exfat_open, Types
    <2>3. r - 1 \in Nat
      BY <2>2
    <2> QED BY <2>2, <2>3 DEF BudgetType
  <1>6. budget.faults > 0 => less \in BudgetType /\ less.faults # MaxFaults
    <2> HIDE DEF used
    <2>1. PICK f \in 0 .. MaxFaults : f = used.faults
      BY <1>5 DEF BudgetType
    <2>2. less = [used EXCEPT !.faults = f - 1]
      BY <2>1
    <2> SUFFICES ASSUME f > 0 PROVE less \in BudgetType /\ less.faults # MaxFaults
      BY <1>5, <2>1
    <2>3. f - 1 \in 0 .. MaxFaults /\ f - 1 # MaxFaults
      BY BoundAssumption
    <2> HIDE DEF less
    <2> QED BY <1>5, <2>2, <2>3 DEF BudgetType
  <1> HIDE DEF used, less
  <1>7. NoTransferFailed => (lost => disk.mounted)
    BY <1>1 DEF Flags
  <1> DEFINE m == OpenedAs(t.mode)
             r == IF m = "RW" THEN 0 ELSE IF t.mode = "ANY" THEN -1 ELSE 1
  <1>8. CASE /\ m # "none" /\ pc' = "alloc_sb" /\ found' = FALSE /\ budget' = used
             /\ ef' = [NoEf EXCEPT !.held = {"dev"}, !.mode = m, !.ro = r]
    <2>1. m \in {"RO", "RW"} /\ r \in {-1, 0, 1} /\ (r # 0 => m = "RO")
      BY <1>8 DEF OpenedAs
    <2> HIDE DEF m, r
    <2>2. /\ ef' \in EfType /\ ef'.chunk = <<>> /\ ef'.orphans = {}
          /\ ef'.cdirty = FALSE /\ ef'.ro = r /\ ef'.mode = m
      BY <1>8, <2>1, EmptyFacts DEF NoEf, EfType
    <2>3. Types'
      BY <1>1, <1>2, <1>3, <1>4, <1>5, <1>8, <2>2, EmptyFacts DEF Types, Early
    <2>4. pc' \in Early /\ pc' # "idle"
      BY <1>8 DEF Early
    <2>5. NoTransferFailed' => NoTransferFailed
      BY <1>5, <1>8 DEF NoTransferFailed
    <2> QED BY <1>2, <1>4, <1>7, <2>1, <2>2, <2>3, <2>4, <2>5, EmptyStep
  <1>9. CASE /\ ef' = NoEf /\ pc' = "idle" /\ found' = TRUE
             /\ m = "none" \/ budget.faults > 0
             /\ budget' = IF m = "none" THEN used ELSE less
    <2>1. budget' \in BudgetType /\ (NoTransferFailed' => NoTransferFailed)
      BY <1>5, <1>6, <1>9 DEF NoTransferFailed
    <2>2. Types'
      BY <1>1, <1>2, <1>3, <1>4, <1>9, <2>1, EmptyFacts DEF Types
    <2>3. pc' \notin Early
      BY <1>9 DEF Early
    <2> QED BY <1>2, <1>4, <1>7, <1>9, <2>1, <2>2, <2>3, EmptyStep, EmptyFacts
  <1> QED BY <1>8, <1>9 DEF exfat_open, used, less

\* The one node is that of the root directory.
LEMMA AllocRootHolds == VolumeInv /\ AllocRoot => VolumeInv'
  <1> SUFFICES ASSUME VolumeInv, AllocRoot PROVE VolumeInv'
    OBVIOUS
  <1>1. /\ pc = "alloc_root" /\ pc \in Early
        /\ UNCHANGED <<disk, rd, stack, tool, History>>
    BY DEF AllocRoot, Quiet, Early
  <1>2. CASE Fault /\ GiveUp
    BY <1>1, <1>2, FaultGivesUp
  <1>3. CASE /\ node' = [k \in {<<>>} |-> RootNode] /\ pc' = "rootchain"
             /\ UNCHANGED <<ef, found, budget>>
    <2>1. Types /\ Phases /\ Flags /\ Claims
      BY DEF VolumeInv
    <2>2. /\ disk' = disk /\ rd' = rd /\ stack' = stack /\ tool' = tool
          /\ claimed' = claimed /\ aborted' = aborted /\ lost' = lost
          /\ ef' = ef /\ found' = found /\ budget' = budget
      BY <1>1, <1>3 DEF History
    <2>3. ef.chunk = <<>> /\ ef.orphans = {} /\ claimed = {}
      BY <1>1, <2>1 DEF Phases
    <2>4. DOMAIN node' = {<<>>} /\ node'[<<>>] = RootNode
      BY <1>3
    <2>5. /\ RootNode \in NodeType /\ RootNode.to = "root" /\ RootNode.isdir
          /\ ~RootNode.dirty /\ ~RootNode.cached
      BY <2>1, EmptyFacts, NameAssumption DEF RootNode, NodeType, Types, DiskType
    <2>6. NodeTypes'
      BY <2>4, <2>5, EmptyFacts DEF NodeTypes
    <2>7. Types'
      BY <1>3, <2>1, <2>2, <2>6 DEF Types, Late
    <2>8. pc' = "rootchain" /\ pc' \in Late /\ pc' \notin Early /\ pc' \notin Dead
      BY <1>3 DEF Late, Early, Dead
    <2>9. ~InSession' /\ ~InDirck' /\ ~InSession /\ pc \notin Dead
      BY <1>1, <2>8 DEF InSession, InDirck, Dead
    <2>10. Phases'
      BY <2>2, <2>3, <2>4, <2>8 DEF Phases
    <2>11. Flags' /\ Frames'
      BY <2>1, <2>2, <2>9 DEF Flags, Frames, NoTransferFailed
    <2>12. Tree'
      <3>1. RootInv'
        BY <2>4, <2>5, <2>8, <2>9 DEF RootInv
      <3> QED BY <2>4, <2>5, <2>8, <3>1 DEF Tree, Safe
    <2>13. Claims' /\ Bitmaps'
      BY <2>2, <2>3, <2>8 DEF Claims, Bitmaps
    <2> QED BY <2>7, <2>10, <2>11, <2>12, <2>13 DEF VolumeInv
  <1> QED BY <1>2, <1>3 DEF AllocRoot


-----------------------------------------------------------------------------
(* Steps that free no node, allocate none and read no directory entry.     *)

\* The nodes are where they were; some may be dirty no longer.
Alike ==
  /\ DOMAIN node' = DOMAIN node
  /\ \A x \in DOMAIN node :
       /\ node'[x].parent = node[x].parent /\ node'[x].at = node[x].at
       /\ node'[x].isdir = node[x].isdir /\ node'[x].to = node[x].to
       /\ node'[x].cached = node[x].cached
       /\ node'[x].dirty => node[x].dirty

\* What was fixed is still written, or going to be.
PendKept ==
  \A c \in claimed : SumRight(disk.dir[c[1]][c[2]]) \/ Pending(c)
                       => SumRight(disk'.dir[c[1]][c[2]]) \/ Pending(c)'

\* k is a directory that may be read.
MayRead(k) ==
  k \in DOMAIN node /\ ~node[k].cached /\ node[k].isdir /\ Safe(k)

LEMMA UnchangedAlike ==
  ASSUME node' = node PROVE Alike
  BY DEF Alike

LEMMA UnchangedPend ==
  ASSUME node' = node, disk'.dir = disk.dir PROVE PendKept
  BY DEF PendKept, Pending, Home

LEMMA SafeKept ==
  ASSUME Types, Tree, pc \notin Dead, Alike, NEW k \in DOMAIN node
  PROVE  Safe(k)' <=> Safe(k)
  <1>1. k # <<>> => node[k].parent \in DOMAIN node
    BY DEF Tree, NodeInv
  <1> QED BY <1>1 DEF Alike, Safe

LEMMA LastingKept ==
  ASSUME Types, Tree, pc \notin Dead, Alike, NEW k, Lasting(k)
  PROVE  Lasting(k)' /\ (node[k].cached => node'[k].cached)
  BY SafeKept DEF Lasting, Alike

LEMMA TreeKept ==
  ASSUME Types, Types', Tree, pc \notin Dead, pc # "readdir", Alike, SameShape,
         pc' # "rootchain",
         pc' \in {"upcase", "chunk", "prepare"} \/ InSession' => node[<<>>].cached,
         pc' = "readdir" => /\ MayRead(rd'.node) /\ rd'.at # 0
                            /\ rd'.from = "mount" => rd'.node = <<>>
  PROVE  Tree'
  <1>1. RootInv'
    BY DEF Tree, RootInv, Alike
  <1>2. \A x \in DOMAIN node : Safe(x)' <=> Safe(x)
    BY SafeKept
  <1>3. ASSUME NEW x \in DOMAIN node', x # <<>> PROVE NodeInv(x)'
    <2>1. NodeInv(x) /\ x \in DOMAIN node
      BY <1>3 DEF Tree, Alike
    <2>2. node[x].parent \in DOMAIN node /\ node[x] \in NodeType
      BY <2>1 DEF NodeInv, Types, NodeTypes
    <2>3. node[node[x].parent] \in NodeType
      BY <2>2 DEF Types, NodeTypes
    <2>4. Home(x) \in Dirs /\ Home(x)' = Home(x) /\ node'[x].at = node[x].at
      BY <2>1, <2>2, <2>3 DEF Home, NodeType, Alike
    <2>5. node[x].at \in 1 .. Len(disk.dir[Home(x)])
      BY <2>1 DEF NodeInv
    <2>6. /\ Len(disk'.dir[Home(x)]) = Len(disk.dir[Home(x)])
          /\ disk'.dir[Home(x)][node[x].at].to = disk.dir[Home(x)][node[x].at].to
          /\ disk.dir[Home(x)][node[x].at].kind = "dir"
               => disk'.dir[Home(x)][node[x].at].kind = "dir"
      BY <2>4, <2>5, SMTT(60) DEF SameShape
    <2>7. /\ EntryOf(x)' = disk'.dir[Home(x)][node[x].at]
          /\ EntryOf(x) = disk.dir[Home(x)][node[x].at]
      BY <2>4 DEF EntryOf
    <2>8. node[x].isdir => EntryOf(x)'.kind = "dir" /\ node[x].to = EntryOf(x)'.to
      BY <2>1, <2>6, <2>7 DEF NodeInv
    <2>9. Safe(x)'
      BY <1>2, <2>1 DEF NodeInv
    <2>10. /\ node'[x].parent = node[x].parent /\ node'[x].isdir = node[x].isdir
           /\ node'[x].to = node[x].to /\ DOMAIN node' = DOMAIN node
      BY <2>1 DEF Alike
    <2>11. x = Append(node[x].parent, node[x].at)
      BY <2>1 DEF NodeInv
    <2>12. node'[x].at \in 1 .. Len(disk'.dir[Home(x)'])
      BY <2>4, <2>5, <2>6
    <2> QED BY <2>2, <2>4, <2>8, <2>9, <2>10, <2>11, <2>12 DEF NodeInv
  <1>4. \A x \in DOMAIN node' : node'[x].cached => Safe(x)'
    BY <1>2 DEF Tree, Alike
  <1>5. pc' = "readdir" =>
          /\ rd'.node \in DOMAIN node' /\ ~node'[rd'.node].cached
          /\ node'[rd'.node].isdir /\ Safe(rd.node)' /\ rd'.at # 0
          /\ rd'.from = "mount" => rd'.node = <<>>
    <2> SUFFICES ASSUME pc' = "readdir"
                 PROVE  /\ rd'.node \in DOMAIN node' /\ ~node'[rd'.node].cached
                        /\ node'[rd'.node].isdir /\ Safe(rd.node)'
      OBVIOUS
    <2>1. PICK k : k = rd'.node
      OBVIOUS
    <2>2. k \in DOMAIN node /\ ~node[k].cached /\ node[k].isdir /\ Safe(k)
      BY <2>1 DEF MayRead
    <2>3. k \in DOMAIN node' /\ ~node'[k].cached /\ node'[k].isdir
      BY <2>2 DEF Alike
    <2>4. k # <<>> => node[k].parent \in DOMAIN node
      BY <2>2 DEF Tree, NodeInv
    <2>5. k = <<>> \/ node'[node'[k].parent].cached
      BY <2>2, <2>4 DEF Safe, Alike
    <2> QED BY <2>1, <2>3, <2>5 DEF Safe
  <1> QED BY <1>1, <1>3, <1>4, <1>5 DEF Tree

LEMMA ClaimsKept ==
  ASSUME Types, Claims, SameShape, pc \notin Dead, NoTransferFailed' => NoTransferFailed,
         UNCHANGED <<tool, claimed, aborted>>, PendKept
  PROVE  Claims'
  <1>1. \A c \in claimed : c[1] \in Dirs /\ c[2] \in 1 .. Len(disk.dir[c[1]])
    BY DEF Types, Claims
  <1>2. \A c \in claimed' : c[2] \in 1 .. Len(disk'.dir[c[1]])
    BY <1>1 DEF SameShape
  <1>3. \A c \in claimed : disk.dir[c[1]][c[2]].kind # "unknown"
          => disk'.dir[c[1]][c[2]].kind # "unknown"
    BY <1>1 DEF SameShape
  <1> QED BY <1>2, <1>3 DEF Claims, PendKept

LEMMA KeptStep ==
  ASSUME VolumeInv, Types', pc \in Late, pc # "readdir",
         pc' \in Late \ {"rootchain", "free", "finalize"}, Alike, SameShape,
         UNCHANGED <<tool, claimed, aborted, lost>>,
         ef'.chunk = ef.chunk, ef'.orphans = ef.orphans,
         ef'.ro = ef.ro, ef'.mode = ef.mode,
         NoTransferFailed' => NoTransferFailed,
         disk.mounted => disk'.mounted,
         InSession' /\ ef.ro = 0 => disk'.mounted,
         NoTransferFailed' /\ ef'.cdirty => InSession' /\ ef.ro = 0 /\ pc' # "reset",
         pc' \in {"upcase", "chunk", "prepare"} \/ InSession' => node[<<>>].cached,
         pc' = "readdir" => /\ MayRead(rd'.node) /\ rd'.at # 0
                            /\ rd'.from = "mount" => rd'.node = <<>>
                            /\ rd'.node = <<>> => ef.chunk = <<>>,
         PendKept, Frames'
  PROVE  VolumeInv'
  <1>1. Types /\ Phases /\ Flags /\ Tree /\ Claims /\ Bitmaps
    BY DEF VolumeInv
  <1>2. pc \notin Dead /\ pc' \notin Dead /\ pc' # "idle" /\ pc' \notin Early
    BY DEF Late, Dead, Early
  <1>3. Phases'
    BY <1>1, <1>2 DEF Phases, Alike
  <1>4. Flags'
    BY <1>1 DEF Flags
  <1>5. Tree'
    BY <1>1, <1>2, TreeKept
  <1>6. Claims'
    BY <1>1, <1>2, ClaimsKept
  <1>7. Bitmaps'
    <2>1. OneBitmap' => OneBitmap
      BY <1>1, ShapeBitmap DEF Types
    <2> QED BY <1>1, <1>2, <2>1 DEF Bitmaps
  <1> QED BY <1>3, <1>4, <1>5, <1>6, <1>7 DEF VolumeInv

\* A step of a tool between prepare_super_block() and exfat_reset_cache().
Session == {"running", "lookup", "entries", "flush", "unmount", "bitmap"}
LEMMA SessionStep ==
  ASSUME VolumeInv, Types', pc \in Session, pc' \in Session \cup {"readdir", "reset"},
         Alike, SameShape, UNCHANGED <<tool, claimed, aborted, lost>>,
         ef'.chunk = ef.chunk, ef'.orphans = ef.orphans,
         ef'.ro = ef.ro, ef'.mode = ef.mode,
         NoTransferFailed' => NoTransferFailed, disk'.mounted = disk.mounted,
         NoTransferFailed' /\ ef'.cdirty => ef.ro = 0 /\ pc' # "reset",
         pc' = "readdir" => MayRead(rd'.node) /\ rd'.at # 0 /\ rd'.from # "mount",
         PendKept, Frames'
  PROVE  VolumeInv'
  <1>1. Phases /\ Flags /\ Tree
    BY DEF VolumeInv
  <1>2. InSession /\ pc \in Late /\ pc \notin Dead /\ pc # "readdir" /\ pc # "finalize"
    BY DEF Session, InSession, Late, Dead
  <1>3. InSession' /\ pc' \in Late \ {"rootchain", "free", "finalize"}
        /\ pc' \notin {"upcase", "chunk", "prepare"}
    BY DEF Session, InSession, Late
  <1>4. node[<<>>].cached
    BY <1>1, <1>2 DEF Tree, RootInv, Phases
  <1>5. ef.ro = 0 => disk'.mounted
    BY <1>1, <1>2 DEF Flags
  <1>6. pc' = "readdir" => rd'.node # <<>>
    BY <1>4 DEF MayRead
  <1> QED BY <1>2, <1>3, <1>4, <1>5, <1>6, KeptStep


\* A tool aborts, or runs out of stack.
LEMMA DeadStep ==
  ASSUME VolumeInv, Types', pc' \in Dead, UNCHANGED <<disk, ef, lost, claimed>>,
         NoTransferFailed' => NoTransferFailed
  PROVE  VolumeInv'
  <1>1. /\ pc' \notin Early /\ pc' \notin Late /\ pc' # "idle" /\ pc' # "readdir"
        /\ pc' \notin {"rootchain", "free", "finalize"}
    BY DEF Early, Late, Dead
  <1>2. ~InSession' /\ ~InDirck'
    BY <1>1 DEF InSession, InDirck, Late
  <1>3. Phases' /\ Tree' /\ Frames' /\ Bitmaps'
    BY <1>1, <1>2 DEF Phases, Tree, Frames, Bitmaps
  <1>4. Flags' /\ Claims'
    BY <1>1, <1>2 DEF Flags, Claims, VolumeInv
  <1> QED BY <1>3, <1>4 DEF VolumeInv

-----------------------------------------------------------------------------
(* exfat_mount() from the root directory on.                               *)

LEMMA RootdirSizeHolds == VolumeInv /\ rootdir_size => VolumeInv'
  <1> SUFFICES ASSUME VolumeInv, rootdir_size PROVE VolumeInv'
    OBVIOUS
  <1>1. pc = "rootchain" /\ UNCHANGED <<disk, stack, tool, History>>
    BY DEF rootdir_size
  <1>2. CASE GiveUp /\ UNCHANGED <<rd, budget>>
    BY <1>1, <1>2, DamageGivesUp
  <1>3. CASE Fault /\ GiveUp /\ UNCHANGED rd
    BY <1>1, <1>3, FaultGivesUp
  <1>4. CASE StartRead(<<>>, "mount") /\ UNCHANGED <<ef, node, found, budget>>
    <2>1. Types /\ Phases /\ Flags /\ Tree
      BY DEF VolumeInv
    <2>2. rd' = [node |-> <<>>, at |-> 1, from |-> "mount"] /\ pc' = "readdir"
      BY <1>4 DEF StartRead
    <2>3. /\ disk' = disk /\ stack' = stack /\ tool' = tool /\ claimed' = claimed
          /\ aborted' = aborted /\ lost' = lost /\ ef' = ef /\ node' = node
          /\ found' = found /\ budget' = budget
      BY <1>1, <1>4 DEF History
    <2>4. rd' \in ReadType /\ rd'.node = <<>> /\ rd'.at # 0 /\ rd'.from = "mount"
      BY <2>2, EmptyFacts DEF ReadType
    <2>5. Types'
      BY <2>1, <2>2, <2>3, <2>4 DEF Types, NodeTypes, Late
    <2>6. pc \in Late /\ pc' \in Late /\ ~InSession /\ ~InSession' /\ ~InDirck' /\ pc \notin Dead
      BY <1>1, <2>2, <2>4 DEF Late, InSession, InDirck, Dead
    <2>7. DOMAIN node = {<<>>} /\ ef.chunk = <<>>
      BY <1>1, <2>1 DEF Phases
    <2>8. <<>> \in DOMAIN node /\ ~node[<<>>].cached /\ node[<<>>].isdir /\ Safe(<<>>)
      BY <1>1, <2>1, <2>6, <2>7 DEF Tree, RootInv, Safe
    <2>9. MayRead(rd'.node)
      BY <2>4, <2>8 DEF MayRead
    <2>10. Alike /\ SameShape /\ PendKept
      BY <2>3, UnchangedAlike, UnchangedShape, UnchangedPend
    <2>11. NoTransferFailed' => NoTransferFailed /\ ~ef.cdirty
      BY <2>1, <2>3, <2>6 DEF NoTransferFailed, Flags
    <2>12. Frames'
      BY <2>6 DEF Frames
    <2> QED BY <1>1, <2>2, <2>3, <2>4, <2>5, <2>6, <2>7, <2>9, <2>10, <2>11, <2>12, KeptStep
  <1> QED BY <1>2, <1>3, <1>4 DEF rootdir_size

\* A step of exfat_mount() after the root directory was read.
LEMMA MountedStep ==
  ASSUME VolumeInv, pc \in {"upcase", "chunk", "prepare"},
         pc' \in {"chunk", "prepare", "error", "running"},
         UNCHANGED <<ef, node, rd, stack, tool, History>>, found' \in BOOLEAN,
         budget' \in BudgetType, NoTransferFailed' => NoTransferFailed,
         disk' \in DiskType, disk'.dir = disk.dir, disk.mounted => disk'.mounted,
         pc' = "running" /\ ef.ro = 0 => disk'.mounted
  PROVE  VolumeInv'
  <1>1. Types /\ Phases /\ Flags /\ Tree
    BY DEF VolumeInv
  <1>2. /\ claimed' = claimed /\ aborted' = aborted /\ lost' = lost /\ tool' = tool
        /\ ef' = ef /\ node' = node /\ rd' = rd /\ stack' = stack
    BY DEF History
  <1>3. /\ pc \in Late /\ pc' \in Late \ {"rootchain", "free", "finalize", "readdir", "reset"}
        /\ pc \notin Dead /\ ~InSession /\ ~InDirck' /\ (InSession' => pc' = "running")
        /\ pc # "readdir"
    BY DEF Late, Dead, InSession, InDirck
  <1>4. Types'
    BY <1>1, <1>2, <1>3 DEF Types, NodeTypes
  <1>5. node[<<>>].cached
    BY <1>1, <1>3 DEF Tree, RootInv, Phases
  <1>6. NoTransferFailed' => ~ef'.cdirty
    BY <1>1, <1>2, <1>3 DEF Flags
  <1>7. Alike /\ SameShape /\ PendKept
    BY <1>2, UnchangedAlike, UnchangedShape, UnchangedPend
  <1>8. Frames'
    BY <1>3 DEF Frames
  <1> QED BY <1>2, <1>3, <1>4, <1>5, <1>6, <1>7, <1>8, KeptStep

LEMMA FindHolds == VolumeInv /\ (FindUpcase \/ FindChunk) => VolumeInv'
  <1> SUFFICES ASSUME VolumeInv, FindUpcase \/ FindChunk PROVE VolumeInv'
    OBVIOUS
  <1>1. /\ pc \in {"upcase", "chunk"} /\ pc' \in {"chunk", "prepare", "error"}
        /\ UNCHANGED <<disk, ef, node, rd, stack, tool, History, budget>>
        /\ found' = found \/ found' = TRUE
    BY DEF FindUpcase, FindChunk, Quiet
  <1>2. disk \in DiskType /\ found \in BOOLEAN /\ budget \in BudgetType
    BY DEF VolumeInv, Types
  <1> QED BY <1>1, <1>2, MountedStep DEF NoTransferFailed

LEMMA PrepareHolds == VolumeInv /\ prepare_super_block => VolumeInv'
  <1> SUFFICES ASSUME VolumeInv, prepare_super_block PROVE VolumeInv'
    OBVIOUS
  <1>1. pc = "prepare" /\ UNCHANGED <<ef, node, rd, stack, tool, History>>
    BY DEF prepare_super_block
  <1>2. disk \in DiskType /\ found \in BOOLEAN /\ budget \in BudgetType
    BY DEF VolumeInv, Types
  <1>3. \A b \in BOOLEAN : LET dk == [disk EXCEPT !.mounted = b]
                           IN dk \in DiskType /\ dk.dir = disk.dir /\ dk.mounted = b
    BY <1>2 DEF DiskType
  <1>4. CASE /\ pc' = "running" /\ UNCHANGED <<found, budget>>
             /\ disk' = IF ef.ro # 0 THEN disk ELSE [disk EXCEPT !.mounted = TRUE]
    BY <1>1, <1>2, <1>3, <1>4, MountedStep DEF NoTransferFailed
  <1>5. CASE /\ ef.ro = 0 /\ Fault /\ found' = TRUE /\ pc' = "error"
             /\ \E b \in {disk.mounted, TRUE} : disk' = [disk EXCEPT !.mounted = b]
    <2>1. PICK b \in {disk.mounted, TRUE} : disk' = [disk EXCEPT !.mounted = b]
      BY <1>5
    <2>2. b \in BOOLEAN /\ (disk.mounted => b)
      BY <1>2 DEF DiskType
    <2>3. budget' \in BudgetType /\ ~NoTransferFailed'
      BY <1>5, FaultFacts DEF VolumeInv
    <2> QED BY <1>1, <1>3, <1>5, <2>1, <2>2, <2>3, MountedStep
  <1> QED BY <1>4, <1>5 DEF prepare_super_block

LEMMA ResetHolds ==
  ASSUME VolumeInv,
         exfat_reset_cache("error", "free") \/ exfat_reset_cache("reset", "finalize")
  PROVE  VolumeInv'
  <1>1. /\ pc \in {"error", "reset"} /\ UNCHANGED <<disk, rd, stack, tool, ef, found, budget>>
        /\ claimed' = claimed /\ aborted' = aborted /\ lost' = lost
    BY DEF exfat_reset_cache, Quiet, History
  <1>2. Types /\ Phases /\ Flags /\ Tree /\ Claims /\ Bitmaps
    BY DEF VolumeInv
  <1>3. NoTransferFailed' <=> NoTransferFailed
    BY <1>1 DEF NoTransferFailed
  <1>4. CASE exfat_bug /\ UNCHANGED node
    <2>1. pc' = "bug" /\ pc' \in Dead
      BY <1>4 DEF exfat_bug, Dead
    <2>2. Types'
      BY <1>1, <1>2, <1>4, <2>1 DEF Types, NodeTypes
    <2> QED BY <1>1, <1>3, <2>1, <2>2, DeadStep
  <1>5. CASE /\ Dirty = {} /\ node' = Only({<<>>}) /\ pc' \in {"free", "finalize"}
             /\ pc' = "finalize" => pc = "reset"
    <2>1. /\ pc \in Late /\ pc \notin Dead /\ pc' \in Late /\ pc' \notin Dead
          /\ pc' # "idle" /\ pc' \notin Early /\ pc' # "rootchain" /\ pc' # "readdir"
          /\ pc # "readdir" /\ (InSession' => InSession) /\ ~InDirck'
          /\ InSession' => pc' = "finalize"
      BY <1>1, <1>5 DEF Late, Dead, Early, InSession, InDirck
    <2>2. <<>> \in DOMAIN node
      BY <1>2, <2>1 DEF Phases
    <2>3. DOMAIN node' = {<<>>} /\ node'[<<>>] = node[<<>>]
      BY <1>5, <2>2 DEF Only
    <2>4. NodeTypes'
      BY <1>2, <2>2, <2>3 DEF Types, NodeTypes
    <2>5. Types'
      BY <1>1, <1>2, <2>1, <2>4 DEF Types
    <2>6. Phases' /\ Frames'
      BY <2>1, <2>3 DEF Phases, Frames
    <2>7. Flags'
      <3>1. NoTransferFailed => ~ef.cdirty
        BY <1>1, <1>2, <2>1 DEF Flags, InSession
      <3> QED BY <1>1, <1>2, <1>3, <2>1, <3>1 DEF Flags
    <2>8. Tree'
      <3>1. RootInv'
        BY <1>2, <1>5, <2>1, <2>2, <2>3 DEF Tree, RootInv
      <3>2. DOMAIN node' \ {<<>>} = {} /\ \A x \in DOMAIN node' : x = <<>>
        BY <2>3
      <3>3. \A x \in DOMAIN node' : node'[x].cached => Safe(x)'
        BY <3>2 DEF Safe
      <3> QED BY <2>1, <3>1, <3>2, <3>3 DEF Tree
    <2>9. \A c : ~Pending(c)
      BY <1>5 DEF Pending, Dirty
    <2>10. Claims'
      BY <1>1, <1>2, <1>3, <2>1, <2>9 DEF Claims
    <2>11. Bitmaps'
      BY <1>1, <1>2, <2>1, UnchangedShape, ShapeBitmap DEF Bitmaps, Types
    <2> QED BY <2>5, <2>6, <2>7, <2>8, <2>10, <2>11 DEF VolumeInv
  <1> QED BY <1>4, <1>5 DEF exfat_reset_cache

LEMMA MountFreeHolds == VolumeInv /\ MountFree => VolumeInv'
  <1> SUFFICES ASSUME VolumeInv, MountFree PROVE VolumeInv'
    OBVIOUS
  <1>1. pc = "free" /\ GiveUp /\ UNCHANGED budget /\ UNCHANGED <<disk, rd, stack, tool, History>>
    BY DEF MountFree, Quiet
  <1> QED BY <1>1, DamageGivesUp


-----------------------------------------------------------------------------
(* readdir(): the steps that go on to the next entry.                      *)

LEMMA ReadingFacts ==
  ASSUME VolumeInv, pc = "readdir"
  PROVE  /\ rd.node \in DOMAIN node /\ ~node[rd.node].cached /\ Safe(rd.node)
         /\ node[rd.node].isdir /\ rd.at \in Nat /\ rd.at >= 1 /\ rd.node \in Key
         /\ ReadingDir \in Dirs /\ rd \in ReadType
         /\ AtEntry => rd.at \in 1 .. Len(disk.dir[ReadingDir]) /\ Reading \in Entry
         /\ pc \in Late /\ pc \notin Dead /\ Append(rd.node, rd.at) \in Key
         /\ Append(rd.node, rd.at) # <<>>
  <1>1. pc \notin Dead /\ pc \in Late
    BY DEF Dead, Late
  <1>2. /\ rd.node \in DOMAIN node /\ ~node[rd.node].cached /\ Safe(rd.node)
        /\ node[rd.node].isdir /\ rd.at # 0
    BY <1>1 DEF VolumeInv, Tree
  <1>3. rd.at \in Nat /\ rd.node \in Key /\ rd \in ReadType
    BY DEF VolumeInv, Types, ReadType
  <1>4. ReadingDir \in Dirs
    BY <1>2 DEF VolumeInv, Types, NodeTypes, NodeType, ReadingDir
  <1>5. rd.at >= 1
    BY <1>2, <1>3
  <1>6. AtEntry => rd.at \in 1 .. Len(disk.dir[ReadingDir]) /\ Reading \in Entry
    <2>1. Len(disk.dir[ReadingDir]) \in Nat
          /\ \A i \in 1 .. Len(disk.dir[ReadingDir]) : disk.dir[ReadingDir][i] \in Entry
      BY <1>4, DirFacts DEF VolumeInv, Types
    <2>2. AtEntry => rd.at \in 1 .. Len(disk.dir[ReadingDir])
      BY <1>3, <1>5, <2>1 DEF AtEntry
    <2> QED BY <2>1, <2>2 DEF Reading
  <1>7. Append(rd.node, rd.at) \in Key /\ Append(rd.node, rd.at) # <<>>
    BY <1>3, AppendProperties DEF Key
  <1> QED BY <1>1, <1>2, <1>3, <1>4, <1>5, <1>6, <1>7

\* An entry that is still to be read has no node.
LEMMA FreshKey ==
  ASSUME VolumeInv, pc = "readdir"
  PROVE  Append(rd.node, rd.at) \notin DOMAIN node
  <1> DEFINE X == Append(rd.node, rd.at)
  <1>1. /\ rd.node \in Key /\ rd.at \in Nat /\ X # <<>> /\ pc \notin Dead
        /\ ~node[rd.node].cached
    BY ReadingFacts
  <1> SUFFICES ASSUME X \in DOMAIN node PROVE FALSE
    OBVIOUS
  <1>2. NodeInv(X)
    BY <1>1 DEF VolumeInv, Tree
  <1> HIDE DEF X
  <1>3. node[X].parent \in Key /\ node[X].at \in Nat
    BY DEF VolumeInv, Types, NodeTypes, NodeType
  <1>4. X = Append(node[X].parent, node[X].at)
    BY <1>2 DEF NodeInv
  <1>5. Append(rd.node, rd.at) = Append(node[X].parent, node[X].at)
    BY <1>4 DEF X
  <1>6. node[X].parent = rd.node /\ node[X].at = rd.at
    <2>1. \A s, t \in Seq(Nat) : \A e, f \in Nat :
            Append(s, e) = Append(t, f) => s = t /\ e = f
      BY AppendInjective
    <2>2. PICK s \in Seq(Nat), e \in Nat : s = node[X].parent /\ e = node[X].at
      BY <1>3 DEF Key
    <2>3. PICK t \in Seq(Nat), f \in Nat : t = rd.node /\ f = rd.at
      BY <1>1 DEF Key
    <2>4. Append(t, f) = Append(s, e)
      BY <1>5, <2>2, <2>3, Zenon
    <2>5. t = s /\ f = e
      BY <2>4, AppendInjective
    <2> QED BY <2>2, <2>3, <2>5
  <1>7. Safe(X) \/ node[X].at < rd.at
    BY <1>2 DEF NodeInv
  <1> QED BY <1>1, <1>6, <1>7 DEF Safe

\* Nodes are added for the entry that is read.
Grown ==
  /\ DOMAIN node \subseteq DOMAIN node'
  /\ \A x \in DOMAIN node : node'[x] = node[x]
  /\ \A x \in DOMAIN node' \ DOMAIN node :
       /\ x = Append(rd.node, rd.at) /\ node'[x].parent = rd.node
       /\ node'[x].at = rd.at /\ ~node'[x].cached
       /\ node'[x].isdir => Reading.kind = "dir" /\ node'[x].to = Reading.to

SumKept ==
  \A d \in Dirs : \A i \in 1 .. Len(disk.dir[d]) :
    SumRight(disk.dir[d][i]) => SumRight(disk'.dir[d][i])

LEMMA GrownPend ==
  ASSUME Types, Tree, Claims, pc \notin Dead, Grown, SumKept
  PROVE  PendKept
  <1> SUFFICES ASSUME NEW c \in claimed, SumRight(disk.dir[c[1]][c[2]]) \/ Pending(c)
               PROVE  SumRight(disk'.dir[c[1]][c[2]]) \/ Pending(c)'
    BY DEF PendKept
  <1>1. c[1] \in Dirs /\ c[2] \in 1 .. Len(disk.dir[c[1]])
    BY DEF Types, Claims
  <1>2. CASE SumRight(disk.dir[c[1]][c[2]])
    BY <1>1, <1>2 DEF SumKept
  <1>3. CASE Pending(c)
    <2>1. PICK k \in DOMAIN node \ {<<>>} :
            node[k].dirty /\ Home(k) = c[1] /\ node[k].at = c[2]
      BY <1>3 DEF Pending
    <2>2. node[k].parent \in DOMAIN node
      BY <2>1 DEF Tree, NodeInv
    <2>3. k \in DOMAIN node' \ {<<>>} /\ node'[k] = node[k] /\ Home(k)' = Home(k)
      BY <2>1, <2>2 DEF Grown, Home
    <2> QED BY <2>1, <2>3 DEF Pending
  <1> QED BY <1>2, <1>3

LEMMA GrownSafe ==
  ASSUME Types, Tree, pc \notin Dead, Grown, NEW k \in DOMAIN node
  PROVE  Safe(k)' <=> Safe(k)
  <1>1. k # <<>> => node[k].parent \in DOMAIN node
    BY DEF Tree, NodeInv
  <1> QED BY <1>1 DEF Grown, Safe

LEMMA AdvanceTree ==
  ASSUME VolumeInv, Types', AtEntry, Advance, Grown, SameShape
  PROVE  Tree'
  <1>1. Types /\ Phases /\ Tree /\ pc = "readdir"
    BY DEF VolumeInv, AtEntry
  <1>2. /\ rd.node \in DOMAIN node /\ ~node[rd.node].cached /\ Safe(rd.node)
        /\ node[rd.node].isdir /\ rd.at \in Nat /\ rd.at >= 1 /\ rd.node \in Key
        /\ ReadingDir \in Dirs /\ rd \in ReadType
        /\ rd.at \in 1 .. Len(disk.dir[ReadingDir])
        /\ pc \notin Dead /\ Append(rd.node, rd.at) # <<>>
    BY <1>1, ReadingFacts
  <1>3. /\ pc' = "readdir" /\ rd'.node = rd.node /\ rd'.at = rd.at + 1
        /\ rd'.from = rd.from
    <2>1. rd' = [rd EXCEPT !.at = rd.at + 1]
      BY DEF Advance
    <2> QED BY <1>1, <1>2, <2>1 DEF Advance, ReadType
  <1>4. \A x \in DOMAIN node : Safe(x)' <=> Safe(x)
    BY <1>1, <1>2, GrownSafe
  <1>5. RootInv'
    <2>1. InSession' <=> InSession
      BY <1>1, <1>3 DEF InSession
    <2>2. <<>> \in DOMAIN node' => <<>> \in DOMAIN node /\ node'[<<>>] = node[<<>>]
      BY <1>2 DEF Grown
    <2> QED BY <1>1, <1>2, <1>3, <2>1, <2>2 DEF Tree, RootInv
  <1>6. ASSUME NEW x \in DOMAIN node, x # <<>> PROVE NodeInv(x)'
    <2>1. NodeInv(x)
      BY <1>1, <1>2, <1>6 DEF Tree
    <2>2. node[x].parent \in DOMAIN node /\ node[x] \in NodeType
      BY <1>1, <2>1 DEF NodeInv, Types, NodeTypes
    <2>3. node[node[x].parent] \in NodeType
      BY <1>1, <2>2 DEF Types, NodeTypes
    <2>4. node'[x] = node[x] /\ Home(x)' = Home(x) /\ Home(x) \in Dirs
          /\ x \in DOMAIN node' /\ node[x].parent \in DOMAIN node'
      BY <2>2, <2>3 DEF Home, NodeType, Grown
    <2>5. node[x].at \in 1 .. Len(disk.dir[Home(x)]) /\ node[x].at \in Nat
      BY <2>1, <2>2 DEF NodeInv, NodeType
    <2>6. /\ Len(disk'.dir[Home(x)]) = Len(disk.dir[Home(x)])
          /\ disk'.dir[Home(x)][node[x].at].to = disk.dir[Home(x)][node[x].at].to
          /\ disk.dir[Home(x)][node[x].at].kind = "dir"
               => disk'.dir[Home(x)][node[x].at].kind = "dir"
      BY <2>4, <2>5 DEF SameShape
    <2>7. EntryOf(x)' = disk'.dir[Home(x)][node[x].at]
          /\ EntryOf(x) = disk.dir[Home(x)][node[x].at]
      BY <2>4 DEF EntryOf
    <2>8. node[x].isdir => EntryOf(x)'.kind = "dir" /\ node[x].to = EntryOf(x)'.to
      BY <2>1, <2>6, <2>7 DEF NodeInv
    <2>9. Safe(x)' \/ (node[x].parent = rd'.node /\ node[x].at < rd'.at)
      <3>1. CASE Safe(x)
        BY <1>4, <3>1
      <3>2. CASE node[x].parent = rd.node /\ node[x].at < rd.at
        BY <1>2, <1>3, <2>5, <3>2
      <3> QED BY <2>1, <3>1, <3>2 DEF NodeInv
    <2>10. x = Append(node[x].parent, node[x].at)
      BY <2>1 DEF NodeInv
    <2>11. node'[x].at \in 1 .. Len(disk'.dir[Home(x)'])
      BY <2>4, <2>5, <2>6
    <2> QED BY <1>3, <2>4, <2>8, <2>9, <2>10, <2>11 DEF NodeInv
  <1>7. ASSUME NEW x \in DOMAIN node' \ DOMAIN node PROVE NodeInv(x)' /\ ~node'[x].cached
    <2>1. /\ x = Append(rd.node, rd.at) /\ node'[x].parent = rd.node
          /\ node'[x].at = rd.at /\ ~node'[x].cached
          /\ node'[x].isdir => Reading.kind = "dir" /\ node'[x].to = Reading.to
      BY DEF Grown
    <2>2. Home(x)' = ReadingDir /\ rd.node \in DOMAIN node'
      BY <1>2, <2>1 DEF Home, ReadingDir, Grown
    <2>3. /\ Len(disk'.dir[ReadingDir]) = Len(disk.dir[ReadingDir])
          /\ disk'.dir[ReadingDir][rd.at].to = Reading.to
          /\ Reading.kind = "dir" => disk'.dir[ReadingDir][rd.at].kind = "dir"
      BY <1>2 DEF SameShape, Reading
    <2>4. EntryOf(x)' = disk'.dir[ReadingDir][rd.at]
      BY <2>1, <2>2 DEF EntryOf
    <2>5. node'[x].isdir => EntryOf(x)'.kind = "dir" /\ node'[x].to = EntryOf(x)'.to
      BY <2>1, <2>3, <2>4
    <2>6. node'[x].at \in 1 .. Len(disk'.dir[Home(x)'])
      BY <1>2, <2>1, <2>2, <2>3
    <2>7. node'[x].parent = rd'.node /\ node'[x].at < rd'.at
      BY <1>2, <1>3, <2>1
    <2> QED BY <1>3, <2>1, <2>2, <2>5, <2>6, <2>7 DEF NodeInv
  <1>8. \A x \in DOMAIN node' \ {<<>>} : NodeInv(x)'
    BY <1>6, <1>7
  <1>9. \A x \in DOMAIN node' : node'[x].cached => Safe(x)'
    BY <1>1, <1>2, <1>4, <1>7 DEF Tree, Grown
  <1>10. /\ rd'.node \in DOMAIN node' /\ ~node'[rd'.node].cached
         /\ node'[rd'.node].isdir /\ Safe(rd.node)' /\ rd'.at # 0
         /\ rd'.from = "mount" => rd'.node = <<>>
    <2>1. PICK k \in DOMAIN node : k = rd.node
      BY <1>2
    <2>2. /\ k \in DOMAIN node' /\ ~node'[k].cached /\ node'[k].isdir
          /\ k = <<>> \/ node'[node'[k].parent].cached
      BY <1>2, <1>4, <2>1 DEF Grown, Safe
    <2>3. rd'.node = k
      BY <1>3, <2>1
    <2>4. Safe(rd.node)'
      BY <2>2, <2>3 DEF Safe
    <2>5. rd.from = "mount" => rd.node = <<>>
      BY <1>1, <1>2 DEF Tree
    <2>6. rd'.at # 0
      BY <1>2, <1>3
    <2> QED BY <1>3, <2>1, <2>2, <2>3, <2>4, <2>5, <2>6
  <1> QED BY <1>5, <1>8, <1>9, <1>10 DEF Tree


\* The nodes that last stay, and what was read of them.
Stays == \A k : Lasting(k) => Lasting(k)' /\ (node[k].cached => node'[k].cached)

LEMMA GrownStays ==
  ASSUME Types, Tree, pc \notin Dead, Grown PROVE Stays
  BY GrownSafe DEF Stays, Lasting, Grown

LEMMA AdvanceStep ==
  ASSUME VolumeInv, Types', AtEntry, Advance, Grown, SameShape,
         UNCHANGED <<tool, lost, budget>>, disk'.mounted = disk.mounted,
         ef'.ro = ef.ro, ef'.mode = ef.mode, ef'.cdirty = ef.cdirty, Claims', Bitmaps'
  PROVE  VolumeInv'
  <1>1. Types /\ Phases /\ Flags /\ Tree /\ Frames
    BY DEF VolumeInv
  <1>2. pc = "readdir" /\ pc' = "readdir" /\ stack' = stack
    BY DEF AtEntry, Advance
  <1>3. rd'.node = rd.node /\ rd'.from = rd.from
    <2>1. rd' = [rd EXCEPT !.at = rd.at + 1] /\ rd \in ReadType
      BY <1>1 DEF Advance, Types
    <2> QED BY <2>1 DEF ReadType
  <1>4. pc \notin Dead /\ pc \in Late /\ pc \notin Early /\ pc # "idle"
        /\ pc \notin {"rootchain", "free", "finalize"}
    BY <1>2 DEF Dead, Late, Early
  <1>5. (InSession' <=> InSession) /\ (InDirck' <=> InDirck)
    BY <1>2, <1>3 DEF InSession, InDirck
  <1>6. Phases'
    BY <1>1, <1>2, <1>4 DEF Phases, Grown
  <1>7. Flags'
    BY <1>1, <1>2, <1>4, <1>5 DEF Flags, NoTransferFailed
  <1>8. Frames'
    <2>1. Stays
      BY <1>1, <1>4, GrownStays
    <2>2. Top' = Top
      BY <1>2 DEF Top
    <2>3. Len(stack) \in Nat
      BY <1>1 DEF Types
    <2>4. \A i \in 1 .. Len(stack) - 1 : i \in 1 .. Len(stack)
      BY <2>3
    <2> QED BY <1>1, <1>2, <1>3, <1>5, <2>1, <2>2, <2>4 DEF Frames, Stays
  <1>9. Tree'
    BY AdvanceTree
  <1> QED BY <1>6, <1>7, <1>8, <1>9 DEF VolumeInv

LEMMA AdvanceRd ==
  ASSUME VolumeInv, AtEntry, Advance
  PROVE  /\ rd' \in ReadType /\ rd'.node = rd.node /\ rd'.at = rd.at + 1
         /\ rd'.from = rd.from /\ pc' = "readdir" /\ stack' = stack
  <1>1. pc = "readdir" /\ rd' = [rd EXCEPT !.at = rd.at + 1] /\ pc' = pc /\ stack' = stack
    BY DEF AtEntry, Advance
  <1>2. rd \in ReadType /\ rd.at \in Nat
    BY <1>1, ReadingFacts
  <1> QED BY <1>1, <1>2 DEF ReadType

\* Bitmaps read before are still before.
LEMMA BitmapsKept ==
  ASSUME VolumeInv, Types', AtEntry, Advance, SameShape,
         ef'.chunk = ef.chunk, ef'.orphans = ef.orphans
  PROVE  Bitmaps'
  <1>1. pc = "readdir" /\ pc \notin Dead /\ Bitmaps /\ Types
    BY DEF AtEntry, Dead, VolumeInv
  <1>2. rd'.node = rd.node /\ rd'.at = rd.at + 1 /\ pc' = "readdir" /\ rd.at \in Nat
    BY <1>1, AdvanceRd, ReadingFacts
  <1>3. OneBitmap' => OneBitmap
    BY <1>1, ShapeBitmap DEF Types
  <1>4. "root" \in Dirs
    BY NameAssumption
  <1>5. Len(disk.dir["root"]) \in Nat
    BY <1>1, <1>4, DirFacts DEF Types
  <1>6. ASSUME NEW j \in 1 .. Len(disk.dir["root"]),
               j < rd.at, disk.dir["root"][j].kind = "bitmap"
        PROVE  j \in 1 .. Len(disk'.dir["root"]) /\ j < rd'.at
               /\ disk'.dir["root"][j].kind = "bitmap"
    <2>1. j \in 1 .. Len(disk'.dir["root"]) /\ disk'.dir["root"][j].kind = "bitmap"
      BY <1>4, <1>6 DEF SameShape
    <2>2. j < rd'.at
      BY <1>2, <1>5, <1>6
    <2> QED BY <2>1, <2>2
  <1> QED BY <1>1, <1>2, <1>3, <1>6 DEF Bitmaps

\* The bitmap is read while there is none.
LEMMA BitmapIsFirst ==
  ASSUME VolumeInv, AtEntry, Reading.kind = "bitmap", OneBitmap
  PROVE  rd.node = <<>> /\ ef.chunk = <<>> /\ ReadingDir = "root"
  <1>1. pc = "readdir" /\ pc \notin Dead /\ Bitmaps /\ Tree /\ Types
    BY DEF AtEntry, Dead, VolumeInv
  <1>2. /\ rd.node \in DOMAIN node /\ node[rd.node].isdir /\ ReadingDir \in Dirs
        /\ rd.at \in 1 .. Len(disk.dir[ReadingDir]) /\ rd.at \in Nat
    BY <1>1, ReadingFacts
  <1>3. /\ \A d \in Dirs : \A i \in 1 .. Len(disk.dir[d]) :
             /\ disk.dir[d][i].kind = "bitmap" => d = "root"
             /\ disk.dir[d][i].kind = "dir" => disk.dir[d][i].to # "root"
        /\ \A i, j \in 1 .. Len(disk.dir["root"]) :
             disk.dir["root"][i].kind = "bitmap" /\ disk.dir["root"][j].kind = "bitmap"
               => i = j
    <2>1. \A d \in Dirs : DOMAIN disk.dir[d] = 1 .. Len(disk.dir[d])
      BY <1>1, DirFacts DEF Types
    <2>2. "root" \in Dirs
      BY NameAssumption
    <2> QED BY <2>1, <2>2 DEF OneBitmap, EntriesOf
  <1>4. ReadingDir = "root"
    BY <1>2, <1>3 DEF Reading
  <1>5. rd.node = <<>>
    <2> SUFFICES ASSUME rd.node # <<>> PROVE FALSE
      OBVIOUS
    <2>1. NodeInv(rd.node)
      BY <1>1, <1>2 DEF Tree
    <2>2. node[rd.node].parent \in DOMAIN node
      BY <2>1 DEF NodeInv
    <2>3. Home(rd.node) \in Dirs
      BY <1>1, <2>2 DEF Home, Types, NodeTypes, NodeType
    <2>4. /\ node[rd.node].at \in 1 .. Len(disk.dir[Home(rd.node)])
          /\ EntryOf(rd.node).kind = "dir" /\ EntryOf(rd.node).to = node[rd.node].to
      BY <1>2, <2>1 DEF NodeInv
    <2>5. node[rd.node].to = "root"
      BY <1>4 DEF ReadingDir
    <2> QED BY <1>3, <2>3, <2>4, <2>5 DEF EntryOf
  <1>6. ef.chunk = <<>>
    <2> SUFFICES ASSUME ef.chunk # <<>> PROVE FALSE
      OBVIOUS
    <2>1. PICK j \in 1 .. Len(disk.dir["root"]) :
            j < rd.at /\ disk.dir["root"][j].kind = "bitmap"
      BY <1>1, <1>5 DEF Bitmaps
    <2>2. j = rd.at
      BY <1>2, <1>3, <1>4, <2>1 DEF Reading
    <2> QED BY <1>2, <2>1, <2>2
  <1> QED BY <1>4, <1>5, <1>6


LEMMA TableAdvances ==
  ASSUME VolumeInv, AtEntry, Advance, UNCHANGED <<disk, tool, claimed, lost, budget, node, found, aborted>>,
         ef' = ef \/ (ef' = [ef EXCEPT !.held = ef.held \cup {"upcase"}])
  PROVE  VolumeInv'
  <1>1. Types /\ Claims /\ Tree /\ pc = "readdir" /\ pc \notin Dead
    BY DEF VolumeInv, AtEntry, Dead
  <1>2. /\ ef' \in EfType /\ ef'.chunk = ef.chunk /\ ef'.orphans = ef.orphans
        /\ ef'.ro = ef.ro /\ ef'.mode = ef.mode /\ ef'.cdirty = ef.cdirty
    <2> DEFINE h == ef.held \cup {"upcase"}
    <2>1. ef \in EfType /\ h \in SUBSET {"dev", "zero_cluster", "upcase", "sb"}
      BY <1>1 DEF Types, EfType
    <2>2. ef' = ef \/ ef' = [ef EXCEPT !.held = h]
      OBVIOUS
    <2> HIDE DEF h
    <2> QED BY <2>1, <2>2 DEF EfType
  <1>3. rd' \in ReadType /\ pc' = "readdir" /\ stack' = stack
    BY AdvanceRd
  <1>4. Types'
    BY <1>1, <1>2, <1>3 DEF Types, NodeTypes
  <1>5. Grown /\ SameShape /\ SumKept
    BY UnchangedShape DEF Grown, SumKept
  <1>6. Claims'
    BY <1>1, <1>5, GrownPend, ClaimsKept DEF NoTransferFailed
  <1>7. Bitmaps'
    BY <1>2, <1>4, <1>5, BitmapsKept
  <1> QED BY <1>2, <1>4, <1>5, <1>6, <1>7, AdvanceStep

LEMMA ChunkFacts ==
  ASSUME Types, NEW c \in Key,
         ef' = [ef EXCEPT !.chunk = c, !.orphans = ef.orphans \cup ({ef.chunk} \ {<<>>})]
  PROVE  /\ ef' \in EfType /\ ef'.chunk = c /\ ef'.ro = ef.ro /\ ef'.mode = ef.mode
         /\ ef'.cdirty = ef.cdirty /\ ef'.held = ef.held
         /\ ef'.orphans = ef.orphans \cup ({ef.chunk} \ {<<>>})
  <1> DEFINE o == ef.orphans \cup ({ef.chunk} \ {<<>>})
  <1>1. ef \in EfType /\ o \in SUBSET Key
    BY DEF Types, EfType
  <1>2. ef' = [ef EXCEPT !.chunk = c, !.orphans = o]
    OBVIOUS
  <1>3. o = ef.orphans \cup ({ef.chunk} \ {<<>>})
    OBVIOUS
  <1> HIDE DEF o
  <1>4. /\ ef' \in EfType /\ ef'.chunk = c /\ ef'.ro = ef.ro /\ ef'.mode = ef.mode
        /\ ef'.cdirty = ef.cdirty /\ ef'.held = ef.held /\ ef'.orphans = o
    BY <1>1, <1>2 DEF EfType
  <1> QED BY <1>3, <1>4

LEMMA BitmapAdvances ==
  ASSUME VolumeInv, AtEntry, Advance, UNCHANGED <<disk, tool, claimed, lost, budget, node, found, aborted>>,
         Reading.kind = "bitmap",
         ef' = [ef EXCEPT !.chunk = Append(rd.node, rd.at),
                          !.orphans = ef.orphans \cup ({ef.chunk} \ {<<>>})]
  PROVE  VolumeInv'
  <1>1. Types /\ Claims /\ Tree /\ Bitmaps /\ pc = "readdir" /\ pc \notin Dead
    BY DEF VolumeInv, AtEntry, Dead
  <1>2. /\ ef' \in EfType /\ ef'.ro = ef.ro /\ ef'.mode = ef.mode /\ ef'.cdirty = ef.cdirty
        /\ ef'.orphans = ef.orphans \cup ({ef.chunk} \ {<<>>})
    BY <1>1, ReadingFacts, ChunkFacts
  <1>3. /\ rd' \in ReadType /\ pc' = "readdir" /\ stack' = stack /\ rd'.node = rd.node
        /\ rd'.at = rd.at + 1 /\ rd.at \in Nat /\ rd.at \in 1 .. Len(disk.dir[ReadingDir])
    BY <1>1, AdvanceRd, ReadingFacts
  <1>4. Types'
    BY <1>1, <1>2, <1>3 DEF Types, NodeTypes
  <1>5. Grown /\ SameShape /\ SumKept
    BY UnchangedShape DEF Grown, SumKept
  <1>6. Claims'
    BY <1>1, <1>5, GrownPend, ClaimsKept DEF NoTransferFailed
  <1>7. Bitmaps'
    <2> SUFFICES ASSUME OneBitmap'
                 PROVE  /\ ef'.orphans = {}
                        /\ \E j \in 1 .. Len(disk'.dir["root"]) :
                             j < rd'.at /\ disk'.dir["root"][j].kind = "bitmap"
      BY DEF Bitmaps
    <2>1. OneBitmap
      BY <1>1, <1>4, <1>5, ShapeBitmap DEF Types
    <2>2. ef.chunk = <<>> /\ ReadingDir = "root"
      BY <2>1, BitmapIsFirst
    <2>3. ef'.orphans = {}
      BY <1>1, <1>2, <2>1, <2>2 DEF Bitmaps
    <2>4. rd.at < rd'.at
      BY <1>3
    <2>5. rd.at \in 1 .. Len(disk'.dir["root"]) /\ disk'.dir["root"][rd.at].kind = "bitmap"
      BY <1>3, <2>2 DEF Reading
    <2> QED BY <2>3, <2>4, <2>5
  <1> QED BY <1>2, <1>4, <1>5, <1>6, <1>7, AdvanceStep

\* The node of the entry, clean or dirty.
LEMMA FreshFacts ==
  ASSUME VolumeInv, AtEntry, NEW b \in BOOLEAN, Reading.kind \in {"file", "dir"},
         node' = [k \in DOMAIN node \cup {Append(rd.node, rd.at)} |->
                    IF k = Append(rd.node, rd.at)
                    THEN NodeOf(Reading, rd.node, rd.at, b) ELSE node[k]]
  PROVE  /\ Grown /\ NodeTypes' /\ Append(rd.node, rd.at) \in DOMAIN node' \ {<<>>}
         /\ node'[Append(rd.node, rd.at)] = NodeOf(Reading, rd.node, rd.at, b)
  <1>1. pc = "readdir" /\ Types
    BY DEF AtEntry, VolumeInv
  <1> DEFINE X == Append(rd.node, rd.at)
             n == NodeOf(Reading, rd.node, rd.at, b)
  <1>2. X \in Key /\ X # <<>> /\ rd.node \in Key /\ rd.at \in Nat /\ Reading \in Entry
    BY <1>1, ReadingFacts
  <1>3. X \notin DOMAIN node
    BY <1>1, FreshKey
  <1>4. /\ n \in NodeType /\ n.parent = rd.node /\ n.at = rd.at /\ n.cached = FALSE
        /\ n.isdir = (Reading.kind = "dir") /\ n.to = Reading.to
    BY <1>2 DEF NodeOf, NodeType, Entry
  <1> HIDE DEF X, n
  <1>5. node' = [k \in DOMAIN node \cup {X} |-> IF k = X THEN n ELSE node[k]]
    BY DEF X, n
  <1>6. /\ DOMAIN node' = DOMAIN node \cup {X} /\ node'[X] = n
        /\ \A x \in DOMAIN node : node'[x] = node[x]
    BY <1>3, <1>5
  <1>7. NodeTypes'
    BY <1>1, <1>2, <1>4, <1>6 DEF Types, NodeTypes
  <1>8. \A x \in DOMAIN node' \ DOMAIN node : x = X
    BY <1>6
  <1>9. Grown
    BY <1>4, <1>6, <1>8 DEF Grown, X
  <1> QED BY <1>2, <1>6, <1>7, <1>9 DEF X, n

LEMMA FileAdvances ==
  ASSUME VolumeInv, AtEntry, Advance, NEW b \in BOOLEAN, Reading.kind \in {"file", "dir"},
         UNCHANGED <<disk, ef, tool, lost, budget, aborted>>, found' \in BOOLEAN,
         (claimed' = claimed) \/ (b /\ Claim),
         node' = [k \in DOMAIN node \cup {Append(rd.node, rd.at)} |->
                    IF k = Append(rd.node, rd.at)
                    THEN NodeOf(Reading, rd.node, rd.at, b) ELSE node[k]]
  PROVE  VolumeInv'
  <1>0. PICK X : X = Append(rd.node, rd.at)
    OBVIOUS
  <1>1. Types /\ Claims /\ Tree /\ pc = "readdir" /\ pc \notin Dead
    BY DEF VolumeInv, AtEntry, Dead
  <1>2. Grown /\ NodeTypes' /\ X \in DOMAIN node' \ {<<>>}
        /\ node'[X] = NodeOf(Reading, rd.node, rd.at, b)
    BY <1>0, FreshFacts
  <1>3. /\ rd' \in ReadType /\ pc' = "readdir" /\ stack' = stack
        /\ rd.at \in 1 .. Len(disk.dir[ReadingDir]) /\ rd.at \in Nat
        /\ ReadingDir \in Dirs /\ rd.node \in DOMAIN node
    BY <1>1, AdvanceRd, ReadingFacts
  <1>4. claimed' \subseteq Dirs \X Nat
    BY <1>1, <1>3 DEF Types, Claim
  <1>5. Types'
    BY <1>1, <1>2, <1>3, <1>4 DEF Types
  <1>6. SameShape /\ SumKept
    BY UnchangedShape DEF SumKept
  <1>7. PendKept
    BY <1>1, <1>2, <1>6, GrownPend
  <1>8. Claims'
    <2>1. CASE claimed' = claimed
      BY <1>1, <1>6, <1>7, <2>1, ClaimsKept DEF NoTransferFailed
    <2>2. CASE b /\ Claim
      <3>0. PICK e : e = <<ReadingDir, rd.at>>
        OBVIOUS
      <3>1. claimed' = claimed \cup {e} /\ e[1] = ReadingDir /\ e[2] = rd.at
        BY <2>2, <3>0 DEF Claim
      <3>2. disk.dir[e[1]][e[2]] = Reading
        BY <3>1 DEF Reading
      <3>3. Pending(e)'
        <4>1. node'[X].dirty /\ node'[X].parent = rd.node /\ node'[X].at = rd.at
          BY <1>2, <2>2 DEF NodeOf
        <4>2. node'[rd.node] = node[rd.node]
          BY <1>2, <1>3 DEF Grown
        <4>3. Home(X)' = ReadingDir
          BY <4>1, <4>2 DEF Home, ReadingDir
        <4>4. \E k \in DOMAIN node' \ {<<>>} :
                node'[k].dirty /\ node'[node'[k].parent].to = e[1] /\ node'[k].at = e[2]
          BY <1>2, <3>1, <4>1, <4>3 DEF Home
        <4> QED BY <4>4 DEF Pending, Home
      <3>4. e[2] \in 1 .. Len(disk'.dir[e[1]])
        BY <1>3, <3>1
      <3>5. disk'.dir[e[1]][e[2]].kind # "unknown"
        BY <3>2
      <3>6. \A c \in claimed : c[2] \in 1 .. Len(disk'.dir[c[1]])
        BY <1>1 DEF Claims
      <3>7. NoTransferFailed' /\ ~aborted' /\ tool'.name # "none" =>
              \A c \in claimed : /\ disk'.dir[c[1]][c[2]].kind # "unknown"
                                 /\ SumRight(disk'.dir[c[1]][c[2]]) \/ Pending(c)'
        BY <1>1, <1>7 DEF Claims, PendKept, NoTransferFailed
      <3> QED BY <3>1, <3>3, <3>4, <3>5, <3>6, <3>7 DEF Claims
    <2> QED BY <2>1, <2>2
  <1>9. Bitmaps'
    BY <1>5, <1>6, BitmapsKept
  <1> QED BY <1>2, <1>5, <1>6, <1>8, <1>9, AdvanceStep


LEMMA UnknownAdvances ==
  ASSUME VolumeInv, AtEntry, Advance, Reading.kind = "unknown", Claim, found' = TRUE,
         UNCHANGED <<ef, tool, lost, budget, node, aborted>>,
         disk' = [disk EXCEPT !.dir[ReadingDir][rd.at].kind = "deleted"]
  PROVE  VolumeInv'
  <1>1. Types /\ Claims /\ Tree /\ pc = "readdir" /\ pc \notin Dead
    BY DEF VolumeInv, AtEntry, Dead
  <1>2. /\ rd' \in ReadType /\ pc' = "readdir" /\ stack' = stack
        /\ rd.at \in 1 .. Len(disk.dir[ReadingDir]) /\ rd.at \in Nat
        /\ ReadingDir \in Dirs
    BY <1>1, AdvanceRd, ReadingFacts
  <1>3. PICK d \in Dirs : d = ReadingDir
    BY <1>2
  <1>4. PICK i \in 1 .. Len(disk.dir[d]) : i = rd.at
    BY <1>2, <1>3
  <1>5. PICK e : e = [disk.dir[d][i] EXCEPT !.kind = "deleted"]
    OBVIOUS
  <1>6. Edited(disk', d, i, e) /\ disk.dir[d][i] \in Entry
    BY <1>1, <1>3, <1>4, <1>5, EditField DEF Types
  <1>7. e.kind = "deleted" /\ e.to = disk.dir[d][i].to /\ SumRight(e)
    BY <1>5, <1>6 DEF Entry, SumRight, IsFile
  <1>8. disk.dir[d][i].kind = "unknown"
    BY <1>3, <1>4 DEF Reading
  <1>9. SameShape /\ SumKept /\ disk' \in DiskType /\ disk'.mounted = disk.mounted
    BY <1>6, <1>7, <1>8 DEF Edited, SameShape, SumKept
  <1>10. Grown
    BY DEF Grown
  <1>11. PendKept
    BY <1>1, <1>9, <1>10, GrownPend
  <1>12. PICK c \in Dirs \X Nat : c = <<ReadingDir, rd.at>>
    BY <1>2
  <1>13. claimed' = claimed \cup {c} /\ c[1] = d /\ c[2] = i
    BY <1>3, <1>4, <1>12 DEF Claim
  <1>14. Types'
    BY <1>1, <1>2, <1>9, <1>13 DEF Types, NodeTypes
  <1>15. Claims'
    <2>1. \A x \in claimed : x[1] \in Dirs /\ x[2] \in 1 .. Len(disk.dir[x[1]])
      BY <1>1 DEF Types, Claims
    <2>2. \A x \in claimed : x[2] \in 1 .. Len(disk'.dir[x[1]])
      BY <1>9, <2>1 DEF SameShape
    <2>3. \A x \in claimed : disk.dir[x[1]][x[2]].kind # "unknown"
            => disk'.dir[x[1]][x[2]].kind # "unknown"
      BY <1>9, <2>1 DEF SameShape
    <2>4. NoTransferFailed' /\ ~aborted' /\ tool'.name # "none" =>
            \A x \in claimed : /\ disk'.dir[x[1]][x[2]].kind # "unknown"
                               /\ SumRight(disk'.dir[x[1]][x[2]]) \/ Pending(x)'
      BY <1>1, <1>11, <2>3 DEF Claims, PendKept, NoTransferFailed
    <2>5. disk'.dir[c[1]][c[2]] = e
      BY <1>6, <1>13 DEF Edited
    <2>6. c[2] \in 1 .. Len(disk'.dir[c[1]])
      BY <1>6, <1>13 DEF Edited
    <2> QED BY <1>7, <1>13, <2>2, <2>4, <2>5, <2>6 DEF Claims
  <1>16. Bitmaps'
    BY <1>9, <1>14, BitmapsKept
  <1> QED BY <1>9, <1>10, <1>14, <1>15, <1>16, AdvanceStep

-----------------------------------------------------------------------------
(* exfat_cache_directory() returns.                                        *)

LEMMA PopFacts ==
  ASSUME Types, stack # <<>>, Pop
  PROVE  /\ stack' \in Seq(FrameType) /\ Len(stack') = Len(stack) - 1 /\ Len(stack) \in Nat
         /\ \A i \in 1 .. Len(stack') : i \in 1 .. Len(stack) - 1 /\ stack'[i] = stack[i]
         /\ pc' = "unmount" \/ (pc' = "flush" /\ Len(stack') > 0)
         /\ Len(stack) >= 1
  <1>1. stack \in Seq(FrameType) /\ Len(stack) \in Nat
    BY DEF Types
  <1>2. Len(stack) > 0
    BY <1>1
  <1>3. PICK n \in Nat : n = Len(stack) - 1
    BY <1>1, <1>2
  <1>4. stack' = SubSeq(stack, 1, n)
    BY <1>3 DEF Pop
  <1>5. stack' \in Seq(FrameType) /\ Len(stack') = n /\ \A i \in 1 .. n : stack'[i] = stack[i]
    BY <1>1, <1>3, <1>4
  <1>6. pc' = "unmount" \/ (pc' = "flush" /\ n > 0)
    BY <1>1, <1>3 DEF Pop
  <1> QED BY <1>1, <1>2, <1>3, <1>5, <1>6

LEMMA PopFrames ==
  ASSUME Types, Frames, InDirck, Pop, Stays
  PROVE  Frames'
  <1>1. /\ stack' \in Seq(FrameType) /\ Len(stack') = Len(stack) - 1 /\ Len(stack) \in Nat
        /\ \A i \in 1 .. Len(stack') : i \in 1 .. Len(stack) - 1 /\ stack'[i] = stack[i]
        /\ pc' = "unmount" \/ (pc' = "flush" /\ Len(stack') > 0)
        /\ Len(stack) >= 1
    BY PopFacts DEF Frames
  <1>2. CASE pc' = "unmount"
    BY <1>2 DEF Frames, InDirck
  <1>3. CASE pc' = "flush" /\ Len(stack') > 0
    <2>1. \A i \in 1 .. Len(stack') :
            /\ Lasting(stack'[i].cur) /\ Lasting(stack'[i].child)
            /\ node[stack'[i].cur].cached
      <3>1. \A i \in 1 .. Len(stack) - 1 : i \in 1 .. Len(stack)
        BY <1>1
      <3> QED BY <1>1, <3>1 DEF Frames
    <2>2. \A i \in 1 .. Len(stack') :
            /\ Lasting(stack[i].cur)' /\ Lasting(stack[i].child)'
            /\ node'[stack'[i].cur].cached
      <3> TAKE i \in 1 .. Len(stack')
      <3>1. PICK a, b : a = stack'[i].cur /\ b = stack'[i].child
        OBVIOUS
      <3>2. Lasting(a) /\ Lasting(b) /\ node[a].cached
        BY <2>1, <3>1
      <3>3. Lasting(a)' /\ Lasting(b)' /\ node'[a].cached
        BY <3>2 DEF Stays
      <3> QED BY <3>1, <3>3 DEF Lasting, Safe
    <2>3. Len(stack') \in 1 .. Len(stack') /\ stack' # <<>>
      BY <1>1, <1>3
    <2>4. \A i \in 1 .. Len(stack') - 1 : i \in 1 .. Len(stack')
      BY <1>1
    <2>5. Top' = stack'[Len(stack')]
      BY DEF Top
    <2>6. Lasting(Top.child)' /\ node'[Top'.cur].cached
      BY <2>2, <2>3, <2>5
    <2> QED BY <1>3, <2>2, <2>3, <2>4, <2>6 DEF Frames
  <1> QED BY <1>1, <1>2, <1>3


\* How exfat_cache_directory() leaves the control state.
LEMMA ReturnFacts ==
  ASSUME VolumeInv, pc = "readdir", NEW ok \in BOOLEAN, CacheReturns(ok)
  PROVE  /\ rd' \in ReadType /\ stack' \in Seq(FrameType)
         /\ \/ /\ rd.from = "mount" /\ ~InSession /\ stack' = stack
               /\ pc' = IF ok THEN "upcase" ELSE "error"
            \/ /\ rd.from = "lookup" /\ InSession /\ InDirck /\ stack' = stack
               /\ pc' = IF ok THEN "lookup" ELSE "bug"
            \/ /\ rd.from = "dirck" /\ InSession /\ InDirck /\ ok
               /\ pc' = "entries" /\ stack' = stack
            \/ rd.from = "dirck" /\ InSession /\ InDirck /\ ~ok /\ Pop
            \/ rd.from = "fuse" /\ InSession /\ pc' = "running" /\ stack' = stack
  <1>1. Types /\ Frames
    BY DEF VolumeInv
  <1>2. rd' \in ReadType
    BY EmptyFacts DEF CacheReturns
  <1>3. (rd.from # "mount" <=> InSession) /\ (rd.from \in {"lookup", "dirck"} <=> InDirck)
    BY DEF InSession, InDirck
  <1>4. stack' \in Seq(FrameType)
    <2>1. CASE stack' = stack
      BY <1>1, <2>1 DEF Types
    <2>2. CASE rd.from = "dirck" /\ Pop
      <3>1. stack # <<>>
        BY <1>1, <1>3, <2>2 DEF Frames
      <3> QED BY <1>1, <2>2, <3>1, PopFacts
    <2> QED BY <2>1, <2>2 DEF CacheReturns
  <1>5. CASE rd.from = "mount" /\ pc' = (IF ok THEN "upcase" ELSE "error") /\ UNCHANGED stack
    BY <1>2, <1>3, <1>4, <1>5
  <1>6. CASE rd.from = "lookup" /\ UNCHANGED stack /\ pc' = (IF ok THEN "lookup" ELSE "bug")
    BY <1>2, <1>3, <1>4, <1>6
  <1>7. CASE rd.from = "dirck" /\ IF ok THEN pc' = "entries" /\ UNCHANGED stack ELSE Pop
    BY <1>2, <1>3, <1>4, <1>7
  <1>8. CASE rd.from = "fuse" /\ pc' = "running" /\ UNCHANGED stack
    BY <1>2, <1>3, <1>4, <1>8
  <1> QED BY <1>5, <1>6, <1>7, <1>8 DEF CacheReturns, exfat_bug

LEMMA RollbackNodes ==
  ASSUME VolumeInv, pc = "readdir", Rollback
  PROVE  /\ NodeTypes' /\ Stays /\ DOMAIN node' \subseteq DOMAIN node
         /\ \A x \in DOMAIN node' : node'[x] = node[x]
         /\ \A x \in DOMAIN node' \ {<<>>} : node[x].parent \in DOMAIN node' /\ Safe(x)
         /\ \A x \in DOMAIN node' : Safe(x)'
  <1>1. Types /\ Tree /\ pc \notin Dead
    BY DEF VolumeInv, Dead
  <1>2. PICK r : r = rd.node /\ r \in DOMAIN node /\ ~node[r].cached
    BY ReadingFacts
  <1>3. /\ DOMAIN node' = {x \in DOMAIN node : x = <<>> \/ node[x].parent # r}
        /\ \A x \in DOMAIN node' : node'[x] = node[x]
    BY <1>2 DEF Rollback, Without, Kids
  <1>4. NodeTypes'
    BY <1>1, <1>3 DEF Types, NodeTypes
  <1>5. \A x \in DOMAIN node : Safe(x) => x \in DOMAIN node'
    BY <1>2, <1>3 DEF Safe
  <1>6. \A x \in DOMAIN node' \ {<<>>} : node[x].parent \in DOMAIN node' /\ Safe(x)
    <2> TAKE x \in DOMAIN node' \ {<<>>}
    <2>1. NodeInv(x) /\ node[x].parent # r
      BY <1>1, <1>3 DEF Tree
    <2>2. Safe(x) /\ node[x].parent \in DOMAIN node
      BY <1>2, <2>1 DEF NodeInv
    <2>3. node[node[x].parent].cached
      BY <2>2 DEF Safe
    <2>4. Safe(node[x].parent)
      BY <1>1, <2>2, <2>3 DEF Tree
    <2> QED BY <1>5, <2>2, <2>4
  <1>7. \A x \in DOMAIN node' : Safe(x)'
    BY <1>3, <1>6 DEF Safe
  <1>8. Stays
    BY <1>3, <1>5, <1>7 DEF Stays, Lasting
  <1> QED BY <1>3, <1>4, <1>6, <1>7, <1>8

LEMMA RollbackStep ==
  ASSUME VolumeInv, pc = "readdir", Rollback, UNCHANGED <<disk, tool, lost>>,
         claimed' = claimed \/ (AtEntry /\ Claim),
         budget' \in BudgetType, NoTransferFailed' => NoTransferFailed,
         ef' \in EfType, ef'.ro = ef.ro, ef'.mode = ef.mode, ef'.cdirty = ef.cdirty,
         OneBitmap => ef'.orphans = {}
  PROVE  VolumeInv'
  <1>1. Types /\ Phases /\ Flags /\ Tree /\ Frames /\ Claims /\ pc \notin Dead /\ pc \in Late
    BY DEF VolumeInv, Dead, Late
  <1>2. found' = TRUE /\ aborted' = TRUE /\ CacheReturns(FALSE)
    BY DEF Rollback
  <1>3. /\ NodeTypes' /\ Stays /\ DOMAIN node' \subseteq DOMAIN node
        /\ \A x \in DOMAIN node' : node'[x] = node[x]
        /\ \A x \in DOMAIN node' \ {<<>>} : node[x].parent \in DOMAIN node' /\ Safe(x)
        /\ \A x \in DOMAIN node' : Safe(x)'
    BY RollbackNodes
  <1>4. /\ rd' \in ReadType /\ stack' \in Seq(FrameType)
        /\ \/ rd.from = "mount" /\ ~InSession /\ pc' = "error"
           \/ rd.from = "lookup" /\ InSession /\ pc' = "bug"
           \/ rd.from = "dirck" /\ InSession /\ InDirck /\ Pop
           \/ rd.from = "fuse" /\ InSession /\ pc' = "running"
    BY <1>2, ReturnFacts
  <1>5. rd.from = "dirck" /\ InDirck /\ Pop => pc' \in {"unmount", "flush"}
    BY DEF Pop
  <1>6. /\ pc' \in {"error", "bug", "unmount", "flush", "running"}
        /\ InSession => InSession' \/ pc' = "bug"
    BY <1>4, <1>5 DEF InSession
  <1>7. ~InSession => ~InSession'
    BY <1>4, <1>5 DEF InSession
  <1>8. /\ pc' # "idle" /\ pc' \notin Early /\ pc' # "readdir" /\ pc' \in Late \cup Dead
        /\ pc' \notin {"rootchain", "free", "finalize", "upcase", "chunk", "prepare", "reset"}
        /\ pc' = "bug" => pc' \in Dead /\ pc' \notin Late
    BY <1>6 DEF Early, Late, Dead
  <1>9. claimed' \subseteq Dirs \X Nat
        /\ \A c \in claimed' : c[2] \in 1 .. Len(disk'.dir[c[1]])
    <2>1. CASE claimed' = claimed
      BY <1>1, <2>1 DEF Types, Claims
    <2>2. CASE AtEntry /\ Claim
      <3>1. /\ ReadingDir \in Dirs /\ rd.at \in Nat
            /\ rd.at \in 1 .. Len(disk.dir[ReadingDir])
        BY <2>2, ReadingFacts
      <3>2. claimed' = claimed \cup {<<ReadingDir, rd.at>>}
        BY <2>2 DEF Claim
      <3> QED BY <1>1, <3>1, <3>2 DEF Types, Claims
    <2> QED BY <2>1, <2>2
  <1>10. Types'
    BY <1>1, <1>2, <1>3, <1>4, <1>8, <1>9 DEF Types
  <1>11. <<>> \in DOMAIN node /\ <<>> \in DOMAIN node'
    BY <1>1, <1>3 DEF Phases, Stays, Lasting, Safe
  <1>12. Phases'
    BY <1>8, <1>11 DEF Phases
  <1>13. Flags'
    <2>1. ef'.ro # 0 => ef'.mode = "RO"
      BY <1>1 DEF Flags
    <2>2. InSession' /\ ef'.ro = 0 => disk'.mounted
      BY <1>1, <1>7 DEF Flags
    <2>3. NoTransferFailed' =>
            /\ lost' => disk'.mounted
            /\ ef'.cdirty => InSession /\ ef.ro = 0
      BY <1>1 DEF Flags
    <2>4. InSession /\ pc' \notin Dead => InSession'
      BY <1>6, <1>8
    <2> QED BY <1>8, <2>1, <2>2, <2>3, <2>4 DEF Flags
  <1>14. RootInv'
    <2>1. InSession => node[<<>>].cached
      BY <1>1, <1>11 DEF Tree, RootInv
    <2>2. node'[<<>>] = node[<<>>]
      BY <1>3, <1>11
    <2> QED BY <1>1, <1>7, <1>8, <1>11, <2>1, <2>2 DEF Tree, RootInv
  <1>15. ASSUME NEW x \in DOMAIN node' \ {<<>>} PROVE NodeInv(x)'
    <2>1. NodeInv(x)
      BY <1>1, <1>3 DEF Tree
    <2>2. node'[x] = node[x] /\ node[x].parent \in DOMAIN node' /\ Safe(x)'
      BY <1>3
    <2>3. node'[node[x].parent] = node[node[x].parent]
      BY <1>3, <2>2
    <2>4. Home(x)' = Home(x) /\ EntryOf(x)' = EntryOf(x)
      BY <2>2, <2>3 DEF Home, EntryOf
    <2> QED BY <2>1, <2>2, <2>4 DEF NodeInv
  <1>16. Tree'
    BY <1>3, <1>8, <1>14, <1>15 DEF Tree
  <1>17. Frames'
    <2>1. CASE InDirck /\ Pop
      BY <1>1, <1>3, <2>1, PopFrames
    <2>2. CASE pc' \in {"error", "bug", "running"}
      BY <2>2 DEF Frames, InDirck
    <2> QED BY <1>4, <2>1, <2>2
  <1>18. Claims'
    BY <1>2, <1>9 DEF Claims
  <1>19. Bitmaps'
    <2>1. OneBitmap' => OneBitmap
      BY <1>1, <1>10, UnchangedShape, ShapeBitmap DEF Types
    <2> QED BY <1>8, <2>1 DEF Bitmaps
  <1> QED BY <1>10, <1>12, <1>13, <1>16, <1>17, <1>18, <1>19 DEF VolumeInv


LEMMA ReadEndNodes ==
  ASSUME VolumeInv, pc = "readdir", node' = [node EXCEPT ![rd.node].cached = TRUE]
  PROVE  /\ DOMAIN node' = DOMAIN node /\ NodeTypes' /\ node'[rd.node].cached
         /\ \A x \in DOMAIN node :
              /\ node'[x].parent = node[x].parent /\ node'[x].at = node[x].at
              /\ node'[x].isdir = node[x].isdir /\ node'[x].to = node[x].to
              /\ node'[x].dirty = node[x].dirty
              /\ node[x].cached => node'[x].cached
              /\ node'[x].cached => node[x].cached \/ x = rd.node
         /\ Stays /\ \A x \in DOMAIN node : Safe(x)'
  <1>1. Types /\ Tree /\ pc \notin Dead
    BY DEF VolumeInv, Dead
  <1>2. PICK r \in DOMAIN node : r = rd.node
    BY ReadingFacts
  <1>3. PICK n : n = [node[r] EXCEPT !.cached = TRUE]
    OBVIOUS
  <1>4. node[r] \in NodeType
    BY <1>1 DEF Types, NodeTypes
  <1>5. /\ n \in NodeType /\ n.cached = TRUE /\ n.parent = node[r].parent /\ n.at = node[r].at
        /\ n.isdir = node[r].isdir /\ n.to = node[r].to /\ n.dirty = node[r].dirty
    BY <1>3, <1>4 DEF NodeType
  <1>6. node' = [node EXCEPT ![r] = n]
    BY <1>2, <1>3
  <1>7. DOMAIN node' = DOMAIN node /\ node'[r] = n
        /\ \A x \in DOMAIN node : x # r => node'[x] = node[x]
    BY <1>6
  <1>8. NodeTypes'
    BY <1>1, <1>5, <1>7 DEF Types, NodeTypes
  <1>9. \A x \in DOMAIN node :
          /\ node'[x].parent = node[x].parent /\ node'[x].at = node[x].at
          /\ node'[x].isdir = node[x].isdir /\ node'[x].to = node[x].to
          /\ node'[x].dirty = node[x].dirty
          /\ node[x].cached => node'[x].cached
          /\ node'[x].cached => node[x].cached \/ x = r
    BY <1>5, <1>7
  <1>10. node'[r].cached
    BY <1>5, <1>7
  <1>11. \A x \in DOMAIN node : Safe(x)'
    <2> TAKE x \in DOMAIN node
    <2>1. CASE x = <<>>
      BY <2>1 DEF Safe
    <2>2. CASE x # <<>>
      <3>1. NodeInv(x)
        BY <1>1, <2>2 DEF Tree
      <3>2. node[x].parent \in DOMAIN node
            /\ (node[node[x].parent].cached \/ node[x].parent = r)
        BY <1>2, <2>2, <3>1 DEF NodeInv, Safe
      <3>3. node'[node'[x].parent].cached
        BY <1>9, <1>10, <3>2
      <3> QED BY <3>3 DEF Safe
    <2> QED BY <2>1, <2>2
  <1>12. Stays
    BY <1>7, <1>9, <1>11 DEF Stays, Lasting
  <1> QED BY <1>2, <1>7, <1>8, <1>9, <1>10, <1>11, <1>12

LEMMA ReadEndHolds == VolumeInv /\ ReadEnd => VolumeInv'
  <1> SUFFICES ASSUME VolumeInv, ReadEnd PROVE VolumeInv'
    OBVIOUS
  <1>1. Types /\ Phases /\ Flags /\ Tree /\ Frames /\ Claims /\ Bitmaps
    BY DEF VolumeInv
  <1>2. /\ pc = "readdir" /\ pc \notin Dead /\ pc \in Late /\ CacheReturns(TRUE)
        /\ node' = [node EXCEPT ![rd.node].cached = TRUE]
        /\ disk' = disk /\ ef' = ef /\ tool' = tool /\ found' = found /\ budget' = budget
        /\ claimed' = claimed /\ aborted' = aborted /\ lost' = lost
    BY DEF ReadEnd, History, Dead, Late
  <1>3. /\ DOMAIN node' = DOMAIN node /\ NodeTypes' /\ node'[rd.node].cached
        /\ \A x \in DOMAIN node :
             /\ node'[x].parent = node[x].parent /\ node'[x].at = node[x].at
             /\ node'[x].isdir = node[x].isdir /\ node'[x].to = node[x].to
             /\ node'[x].dirty = node[x].dirty
             /\ node[x].cached => node'[x].cached
             /\ node'[x].cached => node[x].cached \/ x = rd.node
        /\ Stays /\ \A x \in DOMAIN node : Safe(x)'
    BY <1>2, ReadEndNodes
  <1>4. /\ rd' \in ReadType /\ stack' \in Seq(FrameType) /\ stack' = stack
        /\ \/ rd.from = "mount" /\ ~InSession /\ pc' = "upcase"
           \/ rd.from = "lookup" /\ InSession /\ InDirck /\ pc' = "lookup"
           \/ rd.from = "dirck" /\ InSession /\ InDirck /\ pc' = "entries"
           \/ rd.from = "fuse" /\ InSession /\ pc' = "running"
    BY <1>2, ReturnFacts
  <1>5. /\ InSession' <=> InSession
        /\ pc' \in {"upcase", "lookup", "entries", "running"}
    BY <1>4 DEF InSession
  <1>6. /\ pc' # "idle" /\ pc' \notin Early /\ pc' # "readdir" /\ pc' \in Late
        /\ pc' \notin {"rootchain", "free", "finalize", "reset"} /\ pc' \notin Dead
    BY <1>5 DEF Early, Late, Dead
  <1>7. Types'
    BY <1>1, <1>2, <1>3, <1>4, <1>6 DEF Types
  <1>8. Phases'
    BY <1>1, <1>2, <1>3, <1>6 DEF Phases
  <1>9. Flags'
    BY <1>1, <1>2, <1>5, <1>6 DEF Flags, NoTransferFailed
  <1>10. <<>> \in DOMAIN node
    BY <1>1, <1>2 DEF Phases
  <1>11. RootInv'
    <2>1. InSession => node[<<>>].cached
      BY <1>1, <1>2, <1>10 DEF Tree, RootInv
    <2>2. rd.from = "mount" => rd.node = <<>>
      BY <1>1, <1>2 DEF Tree
    <2>3. node'[<<>>].cached
      BY <1>3, <1>4, <1>10, <2>1, <2>2
    <2> QED BY <1>1, <1>2, <1>3, <1>6, <1>10, <2>3 DEF Tree, RootInv
  <1>12. ASSUME NEW x \in DOMAIN node' \ {<<>>} PROVE NodeInv(x)'
    <2>1. NodeInv(x) /\ x \in DOMAIN node
      BY <1>1, <1>2, <1>3 DEF Tree
    <2>2. /\ node'[x].parent = node[x].parent /\ node'[x].at = node[x].at
          /\ node'[x].isdir = node[x].isdir /\ node'[x].to = node[x].to
          /\ node[x].parent \in DOMAIN node /\ Safe(x)'
      BY <1>3, <2>1 DEF NodeInv
    <2>3. node'[node[x].parent].to = node[node[x].parent].to
      BY <1>3, <2>2
    <2>4. Home(x)' = Home(x) /\ EntryOf(x)' = EntryOf(x)
      BY <1>2, <2>2, <2>3 DEF Home, EntryOf
    <2> QED BY <1>2, <1>3, <2>1, <2>2, <2>4 DEF NodeInv
  <1>13. Tree'
    BY <1>3, <1>6, <1>11, <1>12 DEF Tree
  <1>14. Frames'
    <2>1. CASE InDirck
      <3>1. Top' = Top /\ Len(stack) \in Nat
        BY <1>1, <1>4 DEF Top, Types
      <3>2. \A i \in 1 .. Len(stack) - 1 : i \in 1 .. Len(stack)
        BY <3>1
      <3>3. pc' \in {"entries", "flush"} => node'[Top.cur].cached
        <4> SUFFICES ASSUME pc' \in {"entries", "flush"} PROVE node'[Top.cur].cached
          OBVIOUS
        <4>1. rd.from = "dirck"
          BY <1>4, <2>1
        <4>2. rd.node = Top.cur
          BY <1>1, <1>2, <2>1, <4>1 DEF Frames
        <4> QED BY <1>3, <4>2
      <3> QED BY <1>1, <1>3, <1>4, <1>5, <2>1, <3>1, <3>2, <3>3 DEF Frames, Stays
    <2>2. CASE pc' \in {"upcase", "running"}
      BY <2>2 DEF Frames, InDirck
    <2> QED BY <1>4, <2>1, <2>2
  <1>15. Claims'
    <2>1. PendKept
      <3> SUFFICES ASSUME NEW c \in claimed, Pending(c) PROVE Pending(c)'
        BY <1>2 DEF PendKept
      <3>1. PICK k \in DOMAIN node \ {<<>>} :
              node[k].dirty /\ Home(k) = c[1] /\ node[k].at = c[2]
        BY DEF Pending
      <3>2. node[k].parent \in DOMAIN node
        BY <1>1, <1>2, <3>1 DEF Tree, NodeInv
      <3>3. /\ k \in DOMAIN node' \ {<<>>} /\ node'[k].dirty /\ Home(k)' = Home(k)
            /\ node'[k].at = node[k].at
        BY <1>3, <3>1, <3>2 DEF Home
      <3> QED BY <3>1, <3>3 DEF Pending
    <2> QED BY <1>1, <1>2, <2>1, UnchangedShape, ClaimsKept DEF NoTransferFailed
  <1>16. Bitmaps'
    <2>1. OneBitmap' => OneBitmap
      BY <1>1, <1>2, <1>7, UnchangedShape, ShapeBitmap DEF Types
    <2> QED BY <1>1, <1>2, <1>6, <2>1 DEF Bitmaps
  <1> QED BY <1>7, <1>8, <1>9, <1>13, <1>14, <1>15, <1>16 DEF VolumeInv

\* A roll-back without a change of the memory, when transfers succeed.
LEMMA PlainRollback ==
  ASSUME VolumeInv, pc = "readdir", Rollback, UNCHANGED <<disk, ef, tool, lost, budget>>,
         claimed' = claimed \/ (AtEntry /\ Claim)
  PROVE  VolumeInv'
  <1>1. budget' \in BudgetType /\ ef' \in EfType /\ (NoTransferFailed' => NoTransferFailed)
    BY DEF VolumeInv, Types, NoTransferFailed
  <1>2. OneBitmap => ef'.orphans = {}
    BY DEF VolumeInv, Bitmaps, Dead
  <1> QED BY <1>1, <1>2, RollbackStep

LEMMA ReadFailsHolds == VolumeInv /\ ReadFails => VolumeInv'
  <1> SUFFICES ASSUME VolumeInv, ReadFails PROVE VolumeInv'
    OBVIOUS
  <1>1. /\ pc = "readdir" /\ Fault /\ Rollback /\ pc \notin Dead
        /\ UNCHANGED <<disk, tool, claimed, lost>>
    BY DEF ReadFails, Dead
  <1>2. budget' \in BudgetType /\ ~NoTransferFailed' /\ Types
    BY <1>1, FaultFacts DEF VolumeInv
  <1>3. OneBitmap => ef.orphans = {}
    BY <1>1 DEF VolumeInv, Bitmaps
  <1>4. CASE UNCHANGED ef
    BY <1>1, <1>2, <1>3, <1>4, RollbackStep DEF Types
  <1>5. CASE /\ AtEntry /\ Reading.kind = "bitmap"
             /\ \E c \in {<<>>, Append(rd.node, rd.at)} :
                  ef' = [ef EXCEPT !.chunk = c,
                                   !.orphans = ef.orphans \cup ({ef.chunk} \ {<<>>})]
    <2>1. PICK c \in {<<>>, Append(rd.node, rd.at)} :
            ef' = [ef EXCEPT !.chunk = c, !.orphans = ef.orphans \cup ({ef.chunk} \ {<<>>})]
      BY <1>5
    <2>2. c \in Key
      BY <1>1, ReadingFacts, EmptyFacts
    <2>3. /\ ef' \in EfType /\ ef'.ro = ef.ro /\ ef'.mode = ef.mode /\ ef'.cdirty = ef.cdirty
          /\ ef'.orphans = ef.orphans \cup ({ef.chunk} \ {<<>>})
      BY <1>2, <2>1, <2>2, ChunkFacts
    <2>4. OneBitmap => ef'.orphans = {}
      BY <1>3, <1>5, <2>3, BitmapIsFirst
    <2> QED BY <1>1, <1>2, <2>3, <2>4, RollbackStep
  <1> QED BY <1>4, <1>5 DEF ReadFails

LEMMA ParseHolds == VolumeInv /\ parse_file_entry => VolumeInv'
  <1> SUFFICES ASSUME VolumeInv, parse_file_entry PROVE VolumeInv'
    OBVIOUS
  <1> DEFINE fresh(b) ==
               node' = [k \in DOMAIN node \cup {Append(rd.node, rd.at)} |->
                          IF k = Append(rd.node, rd.at)
                          THEN NodeOf(Reading, rd.node, rd.at, b) ELSE node[k]]
             fixed(y) == ~Reading.sum /\ exfat_ask_to_fix(y)
  <1>1. AtEntry /\ pc = "readdir" /\ UNCHANGED <<disk, ef, tool, lost, budget>>
    BY DEF parse_file_entry, AtEntry
  <1>2. found \in BOOLEAN /\ Types
    BY DEF VolumeInv, Types
  <1>3. CASE Rollback /\ UNCHANGED claimed
    BY <1>1, <1>3, PlainRollback
  <1>4. CASE /\ Reading.kind \in {"file", "dir"} /\ fresh(FALSE) /\ Advance
             /\ UNCHANGED <<found, claimed, aborted>>
    BY <1>1, <1>2, <1>4, FileAdvances
  <1>5. CASE exfat_bug /\ UNCHANGED <<node, rd, stack, found, claimed, aborted>>
    <2>1. pc' = "bug" /\ pc' \in Dead
      BY <1>5 DEF exfat_bug, Dead
    <2>2. Types'
      BY <1>1, <1>2, <1>5, <2>1 DEF Types, NodeTypes
    <2> QED BY <1>1, <1>5, <2>1, <2>2, DeadStep DEF NoTransferFailed
  <1>6. ASSUME NEW y \in BOOLEAN, Reading.kind \in {"file", "dir"},
               IF fixed(y) THEN Claim ELSE UNCHANGED claimed,
               IF fixed(y) /\ Reading.fit
               THEN fresh(TRUE) /\ Advance /\ found' = TRUE /\ UNCHANGED aborted
               ELSE Rollback
        PROVE  VolumeInv'
    <2>1. CASE fixed(y) /\ Reading.fit
      BY <1>1, <1>6, <2>1, FileAdvances
    <2>2. CASE ~(fixed(y) /\ Reading.fit)
      BY <1>1, <1>6, <2>2, PlainRollback
    <2> QED BY <2>1, <2>2
  <1> QED BY <1>3, <1>4, <1>5, <1>6 DEF parse_file_entry

LEMMA ReadTableHolds == VolumeInv /\ ReadTable => VolumeInv'
  <1> SUFFICES ASSUME VolumeInv, ReadTable PROVE VolumeInv'
    OBVIOUS
  <1>1. AtEntry /\ pc = "readdir" /\ UNCHANGED <<disk, tool, claimed, lost, budget>>
    BY DEF ReadTable, AtEntry
  <1>2. CASE /\ ef' = [ef EXCEPT !.held = ef.held \cup {"upcase"}]
             /\ Advance /\ UNCHANGED <<node, found, aborted>>
    BY <1>1, <1>2, TableAdvances
  <1>3. CASE /\ Reading.kind = "bitmap"
             /\ ef' = [ef EXCEPT !.chunk = Append(rd.node, rd.at),
                                 !.orphans = ef.orphans \cup ({ef.chunk} \ {<<>>})]
             /\ Advance /\ UNCHANGED <<node, found, aborted>>
    BY <1>1, <1>3, BitmapAdvances
  <1>4. CASE Advance /\ UNCHANGED <<ef, node, found, aborted>>
    BY <1>1, <1>4, TableAdvances
  <1>5. CASE Rollback /\ UNCHANGED ef
    BY <1>1, <1>5, PlainRollback
  <1> QED BY <1>2, <1>3, <1>4, <1>5 DEF ReadTable

LEMMA ReadUnknownHolds == VolumeInv /\ ReadUnknown => VolumeInv'
  <1> SUFFICES ASSUME VolumeInv, ReadUnknown PROVE VolumeInv'
    OBVIOUS
  <1>1. /\ AtEntry /\ pc = "readdir" /\ Reading.kind = "unknown"
        /\ UNCHANGED <<ef, tool, lost, budget>>
    BY DEF ReadUnknown, AtEntry
  <1>2. CASE /\ disk' = [disk EXCEPT !.dir[ReadingDir][rd.at].kind = "deleted"]
             /\ Claim /\ Advance /\ found' = TRUE /\ UNCHANGED <<node, aborted>>
    BY <1>1, <1>2, UnknownAdvances
  <1>3. CASE Rollback /\ UNCHANGED <<disk, claimed>>
    BY <1>1, <1>3, PlainRollback
  <1> QED BY <1>2, <1>3 DEF ReadUnknown


-----------------------------------------------------------------------------
(* What the tools do: steps that move the control only.                    *)

LEMMA AllSafe ==
  ASSUME VolumeInv, pc \notin Dead, pc # "readdir", NEW x \in DOMAIN node
  PROVE  Safe(x)
  BY DEF VolumeInv, Tree, NodeInv, Safe

LEMMA ControlStep ==
  ASSUME VolumeInv, pc \in Session, pc' \in Session \cup {"readdir"},
         UNCHANGED <<disk, ef, node, tool, History>>,
         stack' \in Seq(FrameType), rd' \in ReadType, found' \in BOOLEAN,
         budget' \in BudgetType, NoTransferFailed' => NoTransferFailed,
         pc' = "readdir" => MayRead(rd'.node) /\ rd'.at # 0 /\ rd'.from # "mount",
         Frames'
  PROVE  VolumeInv'
  <1>1. Types /\ Flags /\ pc \notin Dead
    BY DEF VolumeInv, Dead, Session
  <1>2. /\ disk' = disk /\ ef' = ef /\ node' = node /\ tool' = tool
        /\ claimed' = claimed /\ aborted' = aborted /\ lost' = lost
    BY DEF History
  <1>3. pc' \in Late /\ pc' # "reset"
    BY DEF Session, Late
  <1>4. Types'
    BY <1>1, <1>2, <1>3 DEF Types, NodeTypes
  <1>5. Alike /\ SameShape /\ PendKept
    BY <1>2, UnchangedAlike, UnchangedShape, UnchangedPend
  <1>6. NoTransferFailed' /\ ef'.cdirty => ef.ro = 0
    BY <1>1, <1>2 DEF Flags
  <1> QED BY <1>2, <1>3, <1>4, <1>5, <1>6, SessionStep

LEMMA BugStep ==
  ASSUME VolumeInv, exfat_bug, UNCHANGED <<disk, ef, node, rd, stack, tool, found, History, budget>>
  PROVE  VolumeInv'
  <1>1. pc' = "bug" /\ pc' \in Dead
    BY DEF exfat_bug, Dead
  <1>2. Types'
    BY <1>1 DEF VolumeInv, Types, NodeTypes, History
  <1> QED BY <1>1, <1>2, DeadStep DEF NoTransferFailed, History

\* exfat_cache_directory() is called for a directory that was not read yet.
LEMMA StartStep ==
  ASSUME VolumeInv, pc \in Session, NEW k \in DOMAIN node, ~node[k].cached, node[k].isdir,
         NEW from \in {"lookup", "dirck", "fuse"}, StartRead(k, from),
         from # "fuse" => pc = "lookup",
         from = "dirck" => k = Top.cur,
         UNCHANGED <<disk, ef, node, stack, tool, found, History, budget>>
  PROVE  VolumeInv'
  <1>1. Types /\ Frames /\ pc \notin Dead /\ pc # "readdir"
    BY DEF VolumeInv, Dead, Session
  <1>2. k \in Key
    BY <1>1 DEF Types, NodeTypes
  <1>3. rd' = [node |-> k, at |-> 1, from |-> from] /\ pc' = "readdir"
    BY DEF StartRead
  <1>4. rd' \in ReadType /\ rd'.node = k /\ rd'.at # 0 /\ rd'.from = from
    BY <1>2, <1>3 DEF ReadType
  <1>5. MayRead(k)
    BY <1>1, AllSafe DEF MayRead
  <1>6. Frames'
    <2>1. CASE from = "fuse"
      BY <1>3, <1>4, <2>1 DEF Frames, InDirck
    <2>2. CASE pc = "lookup"
      <3>1. InDirck /\ Top' = Top
        BY <2>2 DEF InDirck, Top
      <3> QED BY <1>1, <1>3, <1>4, <3>1 DEF Frames, Lasting, Safe
    <2> QED BY <2>1, <2>2
  <1>7. Types /\ (NoTransferFailed' => NoTransferFailed)
    BY <1>1 DEF NoTransferFailed
  <1> QED BY <1>3, <1>4, <1>5, <1>6, <1>7, ControlStep DEF Types

LEMMA FuseOpendirHolds ==
  ASSUME VolumeInv, NEW k \in DOMAIN node, FuseOpendir(k)
  PROVE  VolumeInv'
  BY StartStep DEF FuseOpendir, Session

LEMMA FuseReaddirHolds ==
  ASSUME VolumeInv, NEW k \in DOMAIN node, FuseReaddir(k)
  PROVE  VolumeInv'
  BY BugStep DEF FuseReaddir

LEMMA LeaveHolds == VolumeInv /\ (FuseDestroy \/ UseLabel) => VolumeInv'
  <1> SUFFICES ASSUME VolumeInv, FuseDestroy \/ UseLabel PROVE VolumeInv'
    OBVIOUS
  <1>1. /\ pc = "running" /\ pc' = "unmount"
        /\ UNCHANGED <<disk, ef, node, rd, stack, tool, found, History, budget>>
    BY DEF FuseDestroy, UseLabel
  <1>2. Frames' /\ pc \in Session /\ pc' \in Session /\ pc' # "readdir"
    BY <1>1 DEF Frames, InDirck, Session
  <1>3. Types /\ (NoTransferFailed' => NoTransferFailed)
    BY <1>1 DEF NoTransferFailed, VolumeInv
  <1> QED BY <1>1, <1>2, <1>3, ControlStep DEF Types

LEMMA FuseWorkHolds == VolumeInv /\ FuseWork => VolumeInv'
  <1> SUFFICES ASSUME VolumeInv, FuseWork PROVE VolumeInv'
    OBVIOUS
  <1>1. /\ pc = "running" /\ pc' = "running" /\ ef.ro = 0
        /\ ef' = [ef EXCEPT !.cdirty = TRUE] /\ node' = node /\ disk' = disk
        /\ UNCHANGED <<rd, stack, tool, found, budget>>
        /\ claimed' = claimed /\ aborted' = aborted /\ lost' = lost
    BY DEF FuseWork, History
  <1>2. Types
    BY DEF VolumeInv
  <1>3. /\ ef' \in EfType /\ ef'.chunk = ef.chunk /\ ef'.orphans = ef.orphans
        /\ ef'.ro = ef.ro /\ ef'.mode = ef.mode
    BY <1>1, <1>2 DEF Types, EfType
  <1>4. Types'
    BY <1>1, <1>2, <1>3 DEF Types, NodeTypes
  <1>5. Alike /\ SameShape /\ PendKept
    BY <1>1, UnchangedAlike, UnchangedShape, UnchangedPend
  <1>6. Frames' /\ pc \in Session /\ pc' \in Session /\ pc' # "readdir" /\ pc' # "reset"
    BY <1>1 DEF Frames, InDirck, Session
  <1>7. NoTransferFailed' => NoTransferFailed
    BY <1>1 DEF NoTransferFailed
  <1> QED BY <1>1, <1>3, <1>4, <1>5, <1>6, <1>7, SessionStep

-----------------------------------------------------------------------------
(* dirck()                                                                 *)

LEMMA TopFacts ==
  ASSUME VolumeInv, pc \in {"lookup", "entries", "flush"}
  PROVE  /\ stack \in Seq(FrameType) /\ Len(stack) \in Nat /\ Len(stack) >= 1
         /\ Len(stack) \in 1 .. Len(stack) /\ Top \in FrameType /\ Lasting(Top.cur)
         /\ pc \in {"entries", "flush"} => node[Top.cur].cached
         /\ pc = "flush" => Lasting(Top.child)
         /\ InDirck /\ pc \in Session /\ pc \notin Dead /\ pc # "readdir"
  <1>1. InDirck /\ pc \in Session /\ pc \notin Dead /\ pc # "readdir"
    BY DEF InDirck, Session, Dead
  <1>2. stack \in Seq(FrameType) /\ stack # <<>> /\ Frames
    BY <1>1 DEF VolumeInv, Types, Frames
  <1>3. Len(stack) \in Nat /\ Len(stack) >= 1
    BY <1>2
  <1>4. Len(stack) \in 1 .. Len(stack)
    BY <1>3
  <1>5. Top \in FrameType
    BY <1>2, <1>4 DEF Top
  <1> QED BY <1>1, <1>2, <1>3, <1>4, <1>5 DEF Frames, Top

LEMMA FirstFacts ==
  ASSUME Types, NEW K \in SUBSET DOMAIN node, K # {}
  PROVE  First(K) \in K
  <1> DEFINE T == {node[k].at : k \in K}
  <1>1. T \subseteq Nat /\ T # {}
    BY DEF Types, NodeTypes, NodeType
  <1>2. PICK n \in T : \A y \in T : n <= y
    BY <1>1, LeastNatural
  <1>3. \E k \in K : \A x \in K : node[k].at <= node[x].at
    BY <1>2
  <1> QED BY <1>3 DEF First

LEMMA KidFacts ==
  ASSUME VolumeInv, pc \in {"lookup", "entries"}, NEW k \in Kids(Top.cur)
  PROVE  Lasting(k) /\ k \in Key /\ node[k] \in NodeType
  <1>1. k \in DOMAIN node /\ pc \notin Dead /\ pc # "readdir"
    BY DEF Kids, Dead
  <1> QED BY <1>1, AllSafe DEF Lasting, VolumeInv, Types, NodeTypes

LEMMA SetTopFacts ==
  ASSUME VolumeInv, pc \in {"lookup", "entries"}, NEW f \in FrameType
  PROVE  /\ SetTop(f) \in Seq(FrameType) /\ Len(SetTop(f)) = Len(stack)
         /\ SetTop(f)[Len(stack)] = f
         /\ \A i \in 1 .. Len(stack) - 1 : SetTop(f)[i] = stack[i]
  <1>1. stack \in Seq(FrameType) /\ Len(stack) \in Nat /\ Len(stack) \in 1 .. Len(stack)
    BY TopFacts
  <1>2. PICK n \in Nat : n = Len(stack)
    BY <1>1
  <1>3. SetTop(f) = [stack EXCEPT ![n] = f] /\ n \in 1 .. Len(stack)
    BY <1>1, <1>2 DEF SetTop
  <1>4. \A i \in 1 .. n - 1 : i # n /\ i \in 1 .. n
    BY <1>2
  <1> QED BY <1>1, <1>2, <1>3, <1>4

\* The top frame is replaced.
LEMMA TopStep ==
  ASSUME VolumeInv, pc \in {"lookup", "entries"}, pc' \in {"lookup", "flush"},
         NEW f \in FrameType, stack' = SetTop(f), Lasting(f.cur),
         pc' = "flush" => node[f.cur].cached /\ Lasting(f.child),
         UNCHANGED <<disk, ef, node, rd, tool, History>>, found' \in BOOLEAN,
         budget' \in BudgetType, NoTransferFailed' => NoTransferFailed
  PROVE  VolumeInv'
  <1>1. /\ Len(stack) \in Nat /\ Len(stack) >= 1 /\ InDirck /\ pc \in Session
        /\ Len(stack) \in 1 .. Len(stack)
    BY TopFacts
  <1>2. /\ stack' \in Seq(FrameType) /\ Len(stack') = Len(stack)
        /\ stack'[Len(stack)] = f /\ \A i \in 1 .. Len(stack) - 1 : stack'[i] = stack[i]
    BY SetTopFacts
  <1>3. Types /\ Frames
    BY DEF VolumeInv
  <1>4. \A k : Lasting(k)' <=> Lasting(k)
    BY DEF Lasting, Safe
  <1>5. \A i \in 1 .. Len(stack) : i = Len(stack) \/ i \in 1 .. Len(stack) - 1
    BY <1>1
  <1>6. \A i \in 1 .. Len(stack) - 1 : i \in 1 .. Len(stack)
    BY <1>1
  <1>7. \A i \in 1 .. Len(stack') : Lasting(stack'[i].cur)
    BY <1>1, <1>2, <1>3, <1>5, <1>6 DEF Frames
  <1>8. \A i \in 1 .. Len(stack') - 1 :
          Lasting(stack'[i].child) /\ node[stack'[i].cur].cached
    BY <1>1, <1>2, <1>3 DEF Frames
  <1>9. Top' = f
    BY <1>2 DEF Top
  <1>10. stack' # <<>>
    BY <1>1, <1>2
  <1>11. Frames'
    BY <1>4, <1>7, <1>8, <1>9, <1>10 DEF Frames, Lasting, Safe
  <1>12. pc' \in Session /\ pc' # "readdir"
    BY DEF Session
  <1> QED BY <1>1, <1>2, <1>3, <1>11, <1>12, ControlStep DEF Types

\* dirck() is called by calls that wait for it.
LEMMA CallStep ==
  ASSUME VolumeInv, pc \in Session, NEW below \in Seq(FrameType), NEW path \in Seq(Names),
         Call(below, path), UNCHANGED <<disk, ef, node, rd, tool, found, History, budget>>,
         \A i \in 1 .. Len(below) :
           Lasting(below[i].cur) /\ Lasting(below[i].child) /\ node[below[i].cur].cached
  PROVE  VolumeInv'
  <1>1. Types /\ Phases /\ pc \in Late /\ pc # "readdir" /\ pc \notin Dead
    BY DEF VolumeInv, Session, Late, Dead
  <1>2. CASE stack' = below /\ pc' = "overflow"
    <2>1. pc' \in Dead
      BY <1>2 DEF Dead
    <2>2. Types'
      BY <1>1, <1>2, <2>1 DEF Types, NodeTypes, History
    <2> QED BY <2>1, <2>2, DeadStep DEF NoTransferFailed, History
  <1>3. CASE stack' = Append(below, Frame(path)) /\ pc' = "lookup"
    <2>1. PICK f : f = Frame(path)
      OBVIOUS
    <2>2. f \in FrameType /\ f.cur = <<>>
      BY <2>1, EmptyFacts DEF Frame, FrameType
    <2>3. PICK n \in Nat : n = Len(below)
      OBVIOUS
    <2>4. stack' = Append(below, f)
      BY <1>3, <2>1
    <2>5. /\ stack' \in Seq(FrameType) /\ Len(stack') = n + 1 /\ stack'[n + 1] = f
          /\ \A i \in 1 .. n : stack'[i] = below[i]
      BY <2>2, <2>3, <2>4, AppendProperties
    <2>6. Lasting(<<>>)
      BY <1>1 DEF Phases, Lasting, Safe
    <2>7. \A i \in 1 .. n + 1 : i = n + 1 \/ i \in 1 .. n
      OBVIOUS
    <2>8. \A i \in 1 .. Len(stack') : Lasting(stack'[i].cur)
      BY <2>2, <2>3, <2>5, <2>6, <2>7
    <2>9. Len(stack') - 1 = n
      BY <2>5
    <2>10. \A i \in 1 .. Len(stack') - 1 :
             Lasting(stack'[i].child) /\ node[stack'[i].cur].cached
      BY <2>3, <2>5, <2>9
    <2>11. stack' # <<>>
      BY <2>5
    <2>12. Frames'
      BY <1>3, <2>8, <2>10, <2>11 DEF Frames, Lasting, Safe
    <2>13. pc' \in Session /\ pc' # "readdir"
      BY <1>3 DEF Session
    <2> QED BY <1>1, <2>5, <2>12, <2>13, ControlStep DEF Types, NoTransferFailed
  <1> QED BY <1>2, <1>3 DEF Call


LEMMA FsckHolds == VolumeInv /\ fsck => VolumeInv'
  <1> SUFFICES ASSUME VolumeInv, fsck PROVE VolumeInv'
    OBVIOUS
  <1>1. /\ pc \in Session /\ Call(<<>>, <<>>)
        /\ UNCHANGED <<disk, ef, node, rd, tool, found, History, budget>>
    BY DEF fsck, Session
  <1>2. <<>> \in Seq(FrameType) /\ <<>> \in Seq(Names) /\ 1 .. Len(<<>>) = {}
    BY EmptyFacts
  <1> QED BY <1>1, <1>2, CallStep

LEMMA LookupHolds == VolumeInv /\ lookup_name => VolumeInv'
  <1> SUFFICES ASSUME VolumeInv, lookup_name PROVE VolumeInv'
    OBVIOUS
  <1>1. /\ pc = "lookup" /\ Top.left # <<>>
        /\ UNCHANGED <<disk, ef, node, tool, found, History, budget>>
    BY DEF lookup_name
  <1>2. Types /\ Top \in FrameType /\ Lasting(Top.cur) /\ pc \in Session
    BY <1>1, TopFacts DEF VolumeInv
  <1>3. CASE exfat_bug /\ UNCHANGED <<rd, stack>>
    BY <1>1, <1>3, BugStep
  <1>4. CASE /\ node[Top.cur].isdir /\ ~node[Top.cur].cached
             /\ StartRead(Top.cur, "lookup") /\ UNCHANGED stack
    BY <1>1, <1>2, <1>4, StartStep DEF Lasting
  <1>5. CASE /\ Matches # {} /\ UNCHANGED <<pc, rd>>
             /\ stack' = SetTop([Top EXCEPT !.left = Tail(Top.left), !.cur = First(Matches)])
    <2>1. Matches \subseteq Kids(Top.cur) /\ Matches \subseteq DOMAIN node
      BY DEF Matches, Kids
    <2>2. First(Matches) \in Kids(Top.cur)
      BY <1>2, <1>5, <2>1, FirstFacts
    <2>3. PICK m : m = First(Matches) /\ m \in Key /\ Lasting(m)
      BY <1>1, <2>2, KidFacts
    <2>4. PICK t : t = Tail(Top.left)
      OBVIOUS
    <2>5. Top.left \in Seq(Names)
      BY <1>2 DEF FrameType
    <2>6. t \in Seq(Names)
      BY <1>1, <2>4, <2>5, HeadTailProperties
    <2>7. PICK f : f = [Top EXCEPT !.left = t, !.cur = m]
      OBVIOUS
    <2>8. f \in FrameType /\ f.cur = m
      BY <1>2, <2>3, <2>6, <2>7 DEF FrameType
    <2>9. stack' = SetTop(f)
      BY <1>5, <2>3, <2>4, <2>7
    <2>10. pc' = "lookup" /\ (NoTransferFailed' => NoTransferFailed)
      BY <1>1, <1>5 DEF NoTransferFailed
    <2> QED BY <1>1, <1>2, <1>5, <2>3, <2>8, <2>9, <2>10, TopStep DEF Types
  <1> QED BY <1>3, <1>4, <1>5 DEF lookup_name

LEMMA PopStep ==
  ASSUME VolumeInv, pc \in {"lookup", "entries"}, Pop, Alike, SameShape, PendKept,
         UNCHANGED <<rd, tool, History>>, disk' \in DiskType, disk'.mounted = disk.mounted,
         NodeTypes', ef' \in EfType, ef'.chunk = ef.chunk, ef'.orphans = ef.orphans,
         ef'.ro = ef.ro, ef'.mode = ef.mode, ef'.cdirty => ef.cdirty,
         found' \in BOOLEAN, budget' \in BudgetType, NoTransferFailed' => NoTransferFailed
  PROVE  VolumeInv'
  <1>1. /\ InDirck /\ pc \in Session /\ Types /\ Tree /\ Flags /\ Frames /\ stack # <<>>
        /\ pc \notin Dead
    BY TopFacts DEF VolumeInv, Frames
  <1>2. stack' \in Seq(FrameType) /\ pc' \in {"unmount", "flush"}
    BY <1>1, PopFacts
  <1>3. Stays
    BY <1>1, LastingKept DEF Stays
  <1>4. Frames'
    BY <1>1, <1>3, PopFrames
  <1>5. pc' \in Session /\ pc' # "readdir" /\ pc' \in Late /\ pc' # "reset"
    BY <1>2 DEF Session, Late
  <1>6. Types'
    BY <1>1, <1>2, <1>5 DEF Types, History
  <1>7. NoTransferFailed' /\ ef'.cdirty => ef.ro = 0
    BY <1>1 DEF Flags
  <1> QED BY <1>1, <1>4, <1>5, <1>6, <1>7, SessionStep DEF History

LEMMA DirckOpenHolds == VolumeInv /\ DirckOpen => VolumeInv'
  <1> SUFFICES ASSUME VolumeInv, DirckOpen PROVE VolumeInv'
    OBVIOUS
  <1> DEFINE d == node[Top.cur]
  <1>1. pc = "lookup" /\ UNCHANGED <<disk, ef, node, tool, History>>
    BY DEF DirckOpen
  <1>2. /\ Types /\ Top \in FrameType /\ Lasting(Top.cur) /\ pc \in Session /\ Frames
        /\ InDirck
    BY <1>1, TopFacts DEF VolumeInv
  <1>3. CASE exfat_bug /\ UNCHANGED <<rd, stack, found, budget>>
    BY <1>1, <1>3, BugStep
  <1>4. CASE /\ found' = TRUE /\ Pop /\ UNCHANGED rd
             /\ IF d.marked THEN Fault ELSE UNCHANGED budget
    <2>1. budget' \in BudgetType /\ (NoTransferFailed' => NoTransferFailed)
      BY <1>2, <1>4, FaultFacts DEF Types, NoTransferFailed
    <2>2. Alike /\ SameShape /\ PendKept
      BY <1>1, UnchangedAlike, UnchangedShape, UnchangedPend
    <2>3. NodeTypes' /\ disk' \in DiskType /\ ef' \in EfType
      BY <1>1, <1>2 DEF Types, NodeTypes
    <2> QED BY <1>1, <1>4, <2>1, <2>2, <2>3, PopStep
  <1>5. CASE /\ d.cached /\ pc' = "entries" /\ UNCHANGED <<rd, stack, found, budget>>
    <2>1. Frames'
      <3>1. Top' = Top
        BY <1>5 DEF Top
      <3> QED BY <1>1, <1>2, <1>5, <3>1 DEF Frames, Lasting, Safe
    <2>2. pc' \in Session /\ pc' # "readdir"
      BY <1>5 DEF Session
    <2> QED BY <1>1, <1>2, <1>5, <2>1, <2>2, ControlStep DEF Types, NoTransferFailed
  <1>6. CASE /\ d.isdir /\ ~d.cached /\ StartRead(Top.cur, "dirck")
             /\ UNCHANGED <<stack, found, budget>>
    BY <1>1, <1>2, <1>6, StartStep DEF Lasting
  <1> QED BY <1>3, <1>4, <1>5, <1>6 DEF DirckOpen

LEMMA NextFacts ==
  ASSUME VolumeInv, DirckNext
  PROVE  /\ First(Later) \in Key /\ Lasting(First(Later)) /\ node[First(Later)] \in NodeType
         /\ pc = "entries" /\ UNCHANGED <<disk, ef, node, rd, tool, History>>
  <1>1. pc = "entries" /\ Later # {} /\ UNCHANGED <<disk, ef, node, rd, tool, History>>
    BY DEF DirckNext
  <1>2. Later \subseteq Kids(Top.cur) /\ Later \subseteq DOMAIN node
    BY DEF Later, Kids
  <1>3. First(Later) \in Kids(Top.cur)
    BY <1>1, <1>2, FirstFacts DEF VolumeInv
  <1> QED BY <1>1, <1>3, KidFacts

LEMMA DirckDirHolds == VolumeInv /\ DirckDir => VolumeInv'
  <1> SUFFICES ASSUME VolumeInv, DirckDir PROVE VolumeInv'
    OBVIOUS
  <1>1. PICK k : k = First(Later)
    OBVIOUS
  <1>2. /\ DirckNext /\ UNCHANGED <<found, budget>>
        /\ Call(SetTop([Top EXCEPT !.child = k]), Top.path \o Comps[node[k].name])
    BY <1>1 DEF DirckDir
  <1>3. /\ k \in Key /\ Lasting(k) /\ node[k] \in NodeType
        /\ pc = "entries" /\ UNCHANGED <<disk, ef, node, rd, tool, History>>
    BY <1>1, <1>2, NextFacts
  <1>4. /\ Top \in FrameType /\ Lasting(Top.cur) /\ node[Top.cur].cached /\ pc \in Session
        /\ Len(stack) \in Nat /\ Len(stack) >= 1 /\ InDirck
    BY <1>3, TopFacts
  <1>5. PICK f : f = [Top EXCEPT !.child = k]
    OBVIOUS
  <1>6. f \in FrameType /\ f.cur = Top.cur /\ f.child = k
    BY <1>3, <1>4, <1>5 DEF FrameType
  <1>7. PICK s : s = SetTop(f)
    OBVIOUS
  <1>8. /\ s \in Seq(FrameType) /\ Len(s) = Len(stack) /\ s[Len(stack)] = f
        /\ \A i \in 1 .. Len(stack) - 1 : s[i] = stack[i]
    BY <1>3, <1>6, <1>7, SetTopFacts
  <1>9. \A i \in 1 .. Len(stack) : i = Len(stack) \/ i \in 1 .. Len(stack) - 1
    BY <1>4
  <1>10. \A i \in 1 .. Len(stack) - 1 : i \in 1 .. Len(stack)
    BY <1>4
  <1>11. \A i \in 1 .. Len(s) :
           Lasting(s[i].cur) /\ Lasting(s[i].child) /\ node[s[i].cur].cached
    <2>1. Frames
      BY DEF VolumeInv
    <2> QED BY <1>3, <1>4, <1>6, <1>8, <1>9, <1>10, <2>1 DEF Frames
  <1>12. PICK p : p = Top.path \o Comps[node[k].name]
    OBVIOUS
  <1>13. p \in Seq(Names)
    <2>1. Top.path \in Seq(Names) /\ Comps[node[k].name] \in Seq(Names)
      BY <1>3, <1>4, NameAssumption DEF FrameType, NodeType
    <2> QED BY <1>12, <2>1, ConcatProperties
  <1>14. Call(s, p)
    BY <1>2, <1>5, <1>7, <1>12
  <1> QED BY <1>2, <1>3, <1>4, <1>8, <1>11, <1>13, <1>14, CallStep

LEMMA DirckFileHolds == VolumeInv /\ (DirckName \/ DirckFile) => VolumeInv'
  <1> SUFFICES ASSUME VolumeInv, DirckName \/ DirckFile PROVE VolumeInv'
    OBVIOUS
  <1>1. PICK k : k = First(Later)
    OBVIOUS
  <1>2. DirckNext
    BY DEF DirckName, DirckFile
  <1>3. /\ k \in Key /\ Lasting(k) /\ node[k] \in NodeType
        /\ pc = "entries" /\ UNCHANGED <<disk, ef, node, rd, tool, History>>
    BY <1>1, <1>2, NextFacts
  <1>4. CASE exfat_bug /\ UNCHANGED <<stack, found, budget>>
    BY <1>3, <1>4, BugStep
  <1>5. CASE /\ stack' = SetTop([Top EXCEPT !.child = k]) /\ pc' = "flush"
             /\ \/ found' = (found \/ ~node[k].marked) /\ UNCHANGED budget
                \/ found' = TRUE /\ Fault
    <2>1. Top \in FrameType /\ Lasting(Top.cur) /\ node[Top.cur].cached /\ Types
      BY <1>3, TopFacts DEF VolumeInv
    <2>2. PICK f : f = [Top EXCEPT !.child = k]
      OBVIOUS
    <2>3. f \in FrameType /\ f.cur = Top.cur /\ f.child = k
      BY <1>3, <2>1, <2>2 DEF FrameType
    <2>4. /\ budget' \in BudgetType /\ (NoTransferFailed' => NoTransferFailed)
      BY <1>5, <2>1, FaultFacts DEF Types, NoTransferFailed
    <2>5. found' \in BOOLEAN
      BY <1>5, <2>1 DEF Types
    <2> QED BY <1>3, <1>5, <2>1, <2>2, <2>3, <2>4, <2>5, TopStep
  <1> QED BY <1>1, <1>4, <1>5 DEF DirckName, DirckFile

-----------------------------------------------------------------------------
(* exfat_flush_node() and exfat_unmount()                                  *)

LEMMA WrittenFacts ==
  ASSUME VolumeInv, pc \notin Dead, NEW k \in DOMAIN node, node[k].dirty,
         disk' = Written(k), node' = [node EXCEPT ![k].dirty = FALSE]
  PROVE  /\ Alike /\ SameShape /\ PendKept /\ NodeTypes'
         /\ disk' \in DiskType /\ disk'.mounted = disk.mounted
  <1>1. Types /\ Tree /\ Claims
    BY DEF VolumeInv
  <1>2. k # <<>>
    BY <1>1 DEF Tree, RootInv
  <1>3. NodeInv(k) /\ node[k] \in NodeType
    BY <1>1, <1>2 DEF Tree, Types, NodeTypes
  <1>4. node[k].parent \in DOMAIN node
    BY <1>3 DEF NodeInv
  <1>5. Home(k) \in Dirs
    BY <1>1, <1>4 DEF Home, Types, NodeTypes, NodeType
  <1>6. PICK d \in Dirs : d = Home(k)
    BY <1>5
  <1>7. PICK i \in 1 .. Len(disk.dir[d]) : i = node[k].at
    BY <1>3, <1>6 DEF NodeInv
  <1>8. PICK e : e = [disk.dir[d][i] EXCEPT !.sum = TRUE]
    OBVIOUS
  <1>9. Edited(disk', d, i, e) /\ disk.dir[d][i] \in Entry
    <2>1. disk' = [disk EXCEPT !.dir[d][i].sum = TRUE]
      BY <1>6, <1>7 DEF Written
    <2> QED BY <1>1, <1>8, <2>1, EditField DEF Types
  <1>10. e.kind = disk.dir[d][i].kind /\ e.to = disk.dir[d][i].to /\ SumRight(e)
    BY <1>8, <1>9 DEF Entry, SumRight
  <1>11. SameShape /\ SumKept /\ disk' \in DiskType /\ disk'.mounted = disk.mounted
    BY <1>9, <1>10 DEF Edited, SameShape, SumKept
  <1>12. SumRight(disk'.dir[d][i])
    BY <1>9, <1>10 DEF Edited
  <1>13. PICK n : n = [node[k] EXCEPT !.dirty = FALSE]
    OBVIOUS
  <1>14. /\ n \in NodeType /\ n.dirty = FALSE /\ n.cached = node[k].cached
         /\ n.parent = node[k].parent /\ n.at = node[k].at
         /\ n.isdir = node[k].isdir /\ n.to = node[k].to
    BY <1>3, <1>13 DEF NodeType
  <1>15. node' = [node EXCEPT ![k] = n]
    BY <1>13
  <1>16. DOMAIN node' = DOMAIN node /\ node'[k] = n
         /\ \A x \in DOMAIN node : x # k => node'[x] = node[x]
    BY <1>15
  <1>17. NodeTypes'
    BY <1>1, <1>14, <1>16 DEF Types, NodeTypes
  <1>18. Alike
    BY <1>14, <1>16 DEF Alike
  <1>19. PendKept
    <2> SUFFICES ASSUME NEW c \in claimed, SumRight(disk.dir[c[1]][c[2]]) \/ Pending(c)
                 PROVE  SumRight(disk'.dir[c[1]][c[2]]) \/ Pending(c)'
      BY DEF PendKept
    <2>1. c[1] \in Dirs /\ c[2] \in 1 .. Len(disk.dir[c[1]])
      BY <1>1 DEF Types, Claims
    <2>2. CASE SumRight(disk.dir[c[1]][c[2]])
      BY <1>11, <2>1, <2>2 DEF SumKept
    <2>3. CASE Pending(c)
      <3>1. PICK x \in DOMAIN node \ {<<>>} :
              node[x].dirty /\ Home(x) = c[1] /\ node[x].at = c[2]
        BY <2>3 DEF Pending
      <3>2. CASE x = k
        BY <1>6, <1>7, <1>12, <3>1, <3>2
      <3>3. CASE x # k
        <4>1. node'[x] = node[x] /\ x \in DOMAIN node' \ {<<>>}
          BY <1>16, <3>1, <3>3
        <4>2. node[x].parent \in DOMAIN node
          BY <1>1, <3>1 DEF Tree, NodeInv
        <4>3. Home(x)' = Home(x)
          BY <1>18, <4>1, <4>2 DEF Home, Alike
        <4> QED BY <3>1, <4>1, <4>3 DEF Pending
      <3> QED BY <3>2, <3>3
    <2> QED BY <2>2, <2>3
  <1> QED BY <1>11, <1>17, <1>18, <1>19

\* What exfat_flush_node() does, successful or not.
LEMMA FlushFacts ==
  ASSUME VolumeInv, pc \notin Dead, NEW k \in DOMAIN node, FlushSucceeds(k) \/ FlushFails(k)
  PROVE  /\ Alike /\ SameShape /\ PendKept /\ NodeTypes'
         /\ disk' \in DiskType /\ disk'.mounted = disk.mounted
         /\ ef' \in EfType /\ ef'.chunk = ef.chunk /\ ef'.orphans = ef.orphans
         /\ ef'.ro = ef.ro /\ ef'.mode = ef.mode /\ (ef'.cdirty => ef.cdirty)
         /\ found' \in BOOLEAN /\ budget' \in BudgetType
         /\ NoTransferFailed' => NoTransferFailed
  <1>1. Types
    BY DEF VolumeInv
  <1>2. /\ found' \in BOOLEAN /\ budget' \in BudgetType
        /\ NoTransferFailed' => NoTransferFailed
    <2>1. CASE UNCHANGED <<found, budget>>
      BY <1>1, <2>1 DEF Types, NoTransferFailed
    <2>2. CASE Fault /\ found' = TRUE
      BY <1>1, <2>2, FaultFacts
    <2> QED BY <2>1, <2>2 DEF FlushSucceeds, FlushFails
  <1>3. /\ ef' \in EfType /\ ef'.chunk = ef.chunk /\ ef'.orphans = ef.orphans
        /\ ef'.ro = ef.ro /\ ef'.mode = ef.mode /\ (ef'.cdirty => ef.cdirty)
    <2>1. ef' = ef \/ ef' = [ef EXCEPT !.cdirty = FALSE]
      BY DEF FlushSucceeds, FlushFails
    <2> QED BY <1>1, <2>1 DEF Types, EfType
  <1>4. CASE disk' = disk /\ node' = node
    <2>1. Alike /\ SameShape /\ PendKept
      BY <1>4, UnchangedAlike, UnchangedShape, UnchangedPend
    <2>2. NodeTypes' /\ disk' \in DiskType /\ disk'.mounted = disk.mounted
      BY <1>1, <1>4 DEF Types, NodeTypes
    <2> QED BY <1>2, <1>3, <2>1, <2>2
  <1>5. CASE node[k].dirty /\ disk' = Written(k) /\ node' = [node EXCEPT ![k].dirty = FALSE]
    BY <1>2, <1>3, <1>5, WrittenFacts
  <1> QED BY <1>4, <1>5 DEF FlushSucceeds, FlushFails

LEMMA DirckFlushHolds == VolumeInv /\ DirckFlush => VolumeInv'
  <1> SUFFICES ASSUME VolumeInv, DirckFlush PROVE VolumeInv'
    OBVIOUS
  <1>1. pc = "flush" /\ UNCHANGED <<rd, stack, tool, History>>
    BY DEF DirckFlush
  <1>2. /\ Lasting(Top.child) /\ Types /\ Tree /\ Flags /\ Frames /\ pc \in Session
        /\ pc \notin Dead /\ InDirck /\ Len(stack) \in Nat
    BY <1>1, TopFacts DEF VolumeInv
  <1>3. CASE exfat_bug /\ UNCHANGED <<disk, ef, node, found, budget>>
    BY <1>1, <1>3, BugStep
  <1>4. CASE (FlushSucceeds(Top.child) \/ FlushFails(Top.child)) /\ pc' = "entries"
    <2>1. Top.child \in DOMAIN node
      BY <1>2 DEF Lasting
    <2>2. /\ Alike /\ SameShape /\ PendKept /\ NodeTypes'
          /\ disk' \in DiskType /\ disk'.mounted = disk.mounted
          /\ ef' \in EfType /\ ef'.chunk = ef.chunk /\ ef'.orphans = ef.orphans
          /\ ef'.ro = ef.ro /\ ef'.mode = ef.mode /\ (ef'.cdirty => ef.cdirty)
          /\ found' \in BOOLEAN /\ budget' \in BudgetType
          /\ NoTransferFailed' => NoTransferFailed
      BY <1>2, <1>4, <2>1, FlushFacts
    <2>3. Stays
      BY <1>2, <2>2, LastingKept DEF Stays
    <2>4. Top' = Top /\ \A i \in 1 .. Len(stack) - 1 : i \in 1 .. Len(stack)
      BY <1>1, <1>2 DEF Top
    <2>5. node'[Top.cur].cached
      <3>1. Lasting(Top.cur) /\ node[Top.cur].cached
        BY <1>1, TopFacts
      <3> QED BY <2>3, <3>1 DEF Stays
    <2>6. \A i \in 1 .. Len(stack) : Lasting(stack[i].cur)'
      BY <1>1, <1>2, <2>3 DEF Frames, Stays, Lasting, Safe
    <2>7. \A i \in 1 .. Len(stack) - 1 : Lasting(stack[i].child)' /\ node'[stack[i].cur].cached
      BY <1>1, <1>2, <2>3, <2>4 DEF Frames, Stays, Lasting, Safe
    <2>8. Frames'
      BY <1>1, <1>2, <1>4, <2>4, <2>5, <2>6, <2>7 DEF Frames
    <2>9. pc' \in Session /\ pc' # "readdir" /\ pc' \in Late /\ pc' # "reset"
      BY <1>4 DEF Session, Late
    <2>10. Types'
      BY <1>1, <1>2, <2>2, <2>9 DEF Types, History
    <2>11. NoTransferFailed' /\ ef'.cdirty => ef.ro = 0
      BY <1>2, <2>2 DEF Flags
    <2> QED BY <1>1, <1>2, <2>2, <2>8, <2>9, <2>10, <2>11, SessionStep DEF History
  <1> QED BY <1>3, <1>4 DEF DirckFlush

LEMMA DirckCloseHolds == VolumeInv /\ DirckClose => VolumeInv'
  <1> SUFFICES ASSUME VolumeInv, DirckClose PROVE VolumeInv'
    OBVIOUS
  <1>1. pc = "entries" /\ UNCHANGED <<rd, tool, History>>
    BY DEF DirckClose
  <1>2. CASE exfat_bug /\ UNCHANGED <<disk, ef, node, stack, found, budget>>
    BY <1>1, <1>2, BugStep
  <1>3. CASE (FlushSucceeds(Top.cur) \/ FlushFails(Top.cur)) /\ Pop
    <2>1. Top.cur \in DOMAIN node /\ pc \notin Dead
      BY <1>1, TopFacts DEF Lasting
    <2>2. /\ Alike /\ SameShape /\ PendKept /\ NodeTypes'
          /\ disk' \in DiskType /\ disk'.mounted = disk.mounted
          /\ ef' \in EfType /\ ef'.chunk = ef.chunk /\ ef'.orphans = ef.orphans
          /\ ef'.ro = ef.ro /\ ef'.mode = ef.mode /\ (ef'.cdirty => ef.cdirty)
          /\ found' \in BOOLEAN /\ budget' \in BudgetType
          /\ NoTransferFailed' => NoTransferFailed
      BY <1>3, <2>1, FlushFacts
    <2> QED BY <1>1, <1>3, <2>2, PopStep
  <1> QED BY <1>2, <1>3 DEF DirckClose


LEMMA UnmountNodesHolds == VolumeInv /\ UnmountNodes => VolumeInv'
  <1> SUFFICES ASSUME VolumeInv, UnmountNodes PROVE VolumeInv'
    OBVIOUS
  <1>1. pc = "unmount" /\ UNCHANGED <<rd, stack, tool, History>> /\ pc \in Session
        /\ pc \notin Dead
    BY DEF UnmountNodes, Session, Dead
  <1>2. Types /\ Flags
    BY DEF VolumeInv
  <1>3. CASE pc' = "bitmap" /\ UNCHANGED <<disk, ef, node, found, budget>>
    <2>1. Frames' /\ pc' \in Session /\ pc' # "readdir"
      BY <1>3 DEF Frames, InDirck, Session
    <2> QED BY <1>1, <1>2, <1>3, <2>1, ControlStep DEF Types, NoTransferFailed
  <1>4. CASE exfat_bug /\ UNCHANGED <<disk, ef, node, found, budget>>
    BY <1>1, <1>4, BugStep
  <1>5. ASSUME NEW k \in Dirty, FlushSucceeds(k) \/ FlushFails(k), pc' \in {"unmount", "bitmap"}
        PROVE  VolumeInv'
    <2>1. k \in DOMAIN node
      BY DEF Dirty
    <2>2. /\ Alike /\ SameShape /\ PendKept /\ NodeTypes'
          /\ disk' \in DiskType /\ disk'.mounted = disk.mounted
          /\ ef' \in EfType /\ ef'.chunk = ef.chunk /\ ef'.orphans = ef.orphans
          /\ ef'.ro = ef.ro /\ ef'.mode = ef.mode /\ (ef'.cdirty => ef.cdirty)
          /\ found' \in BOOLEAN /\ budget' \in BudgetType
          /\ NoTransferFailed' => NoTransferFailed
      BY <1>1, <1>5, <2>1, FlushFacts
    <2>3. /\ Frames' /\ pc' \in Session /\ pc' # "readdir" /\ pc' # "reset" /\ pc' \in Late
      BY <1>5 DEF Frames, InDirck, Session, Late
    <2>4. Types'
      BY <1>1, <1>2, <2>2, <2>3 DEF Types, History
    <2>5. NoTransferFailed' /\ ef'.cdirty => ef.ro = 0
      BY <1>1, <1>2, <2>2 DEF Flags
    <2> QED BY <1>1, <2>2, <2>3, <2>4, <2>5, SessionStep DEF History
  <1> QED BY <1>1, <1>3, <1>4, <1>5 DEF UnmountNodes

LEMMA UnmountBitmapHolds == VolumeInv /\ UnmountBitmap => VolumeInv'
  <1> SUFFICES ASSUME VolumeInv, UnmountBitmap PROVE VolumeInv'
    OBVIOUS
  <1>1. /\ pc = "bitmap" /\ pc' = "reset" /\ UNCHANGED <<disk, rd, stack, tool>> /\ UNCHANGED node
        /\ claimed' = claimed /\ aborted' = aborted /\ lost' = lost
    BY DEF UnmountBitmap, Quiet, History
  <1>2. Types
    BY DEF VolumeInv
  <1>3. /\ ef' \in EfType /\ ef'.chunk = ef.chunk /\ ef'.orphans = ef.orphans
        /\ ef'.ro = ef.ro /\ ef'.mode = ef.mode
    <2>1. ef' = ef \/ ef' = [ef EXCEPT !.cdirty = FALSE]
      BY DEF UnmountBitmap
    <2> QED BY <1>2, <2>1 DEF Types, EfType
  <1>4. /\ found' \in BOOLEAN /\ budget' \in BudgetType
        /\ NoTransferFailed' => NoTransferFailed /\ ~ef'.cdirty
    <2>1. CASE ef' = [ef EXCEPT !.cdirty = FALSE] /\ UNCHANGED <<found, budget>>
      <3>1. ef'.cdirty = FALSE
        BY <1>2, <2>1 DEF Types, EfType
      <3> QED BY <1>2, <2>1, <3>1 DEF Types, NoTransferFailed
    <2>2. CASE Fault /\ found' = TRUE
      BY <1>2, <2>2, FaultFacts
    <2> QED BY <2>1, <2>2 DEF UnmountBitmap
  <1>5. /\ Frames' /\ pc \in Session /\ pc' \in {"reset"} /\ pc' # "readdir" /\ pc' \in Late
    BY <1>1 DEF Frames, InDirck, Session, Late
  <1>6. Types'
    BY <1>1, <1>2, <1>3, <1>4, <1>5 DEF Types, NodeTypes
  <1>7. Alike /\ SameShape /\ PendKept
    BY <1>1, UnchangedAlike, UnchangedShape, UnchangedPend
  <1> QED BY <1>1, <1>3, <1>4, <1>5, <1>6, <1>7, SessionStep

LEMMA UnmountFinishHolds == VolumeInv /\ UnmountFinish => VolumeInv'
  <1> SUFFICES ASSUME VolumeInv, UnmountFinish PROVE VolumeInv'
    OBVIOUS
  <1>1. /\ pc = "finalize" /\ exfat_free /\ pc' = "idle"
        /\ lost' = (ef.cdirty \/ (lost /\ ef.ro # 0))
        /\ UNCHANGED <<rd, stack, tool, claimed, aborted>> /\ pc \notin Dead
    BY DEF UnmountFinish, Dead
  <1>2. Types /\ Phases /\ Flags /\ Tree /\ Claims /\ Bitmaps
    BY DEF VolumeInv
  <1>3. DOMAIN node \subseteq {<<>>}
    BY <1>1, <1>2 DEF Phases
  <1>4. /\ DOMAIN node' = {} /\ NodeTypes' /\ ef' \in EfType
        /\ ef'.held = {} /\ ef'.chunk = <<>> /\ ef'.orphans = ef.orphans
        /\ ef'.cdirty = ef.cdirty /\ ef'.ro = ef.ro /\ ef'.mode = ef.mode
    BY <1>1, <1>2, <1>3, FreeFacts
  <1>5. /\ disk' \in DiskType /\ disk'.dir = disk.dir /\ found' \in BOOLEAN
        /\ budget' \in BudgetType /\ (NoTransferFailed' => NoTransferFailed)
        /\ ef.ro # 0 => disk' = disk
    <2>1. CASE UNCHANGED <<found, budget>>
               /\ disk' = IF finalize_super_block THEN [disk EXCEPT !.mounted = FALSE] ELSE disk
      BY <1>2, <2>1 DEF Types, DiskType, NoTransferFailed, finalize_super_block
    <2>2. CASE ef.ro = 0 /\ Fault /\ found' = TRUE /\ UNCHANGED disk
      BY <1>2, <2>2, FaultFacts DEF Types
    <2> QED BY <2>1, <2>2 DEF UnmountFinish
  <1>6. NoTransferFailed => ~ef.cdirty /\ (lost => disk.mounted)
    BY <1>1, <1>2 DEF Flags
  <1>7. lost' \in BOOLEAN /\ (NoTransferFailed' => (lost' => disk'.mounted))
    <2>1. ef.cdirty \in BOOLEAN /\ lost \in BOOLEAN
      BY <1>2 DEF Types, EfType
    <2> QED BY <1>1, <1>5, <1>6, <2>1
  <1>8. Types'
    BY <1>1, <1>2, <1>4, <1>5, <1>7 DEF Types
  <1>9. OneBitmap' => ef'.orphans = {}
    <2>1. OneBitmap' => OneBitmap
      BY <1>2, <1>5, UnchangedShape, ShapeBitmap DEF Types
    <2> QED BY <1>1, <1>2, <1>4, <2>1 DEF Bitmaps
  <1>10. \A c : ~Pending(c)
    BY <1>1, <1>2, <1>3, NothingPending
  <1>11. /\ \A c \in claimed' : c[2] \in 1 .. Len(disk'.dir[c[1]])
         /\ NoTransferFailed' /\ ~aborted' /\ tool'.name # "none" =>
              \A c \in claimed' : /\ disk'.dir[c[1]][c[2]].kind # "unknown"
                                  /\ SumRight(disk'.dir[c[1]][c[2]])
    BY <1>1, <1>2, <1>5, <1>10 DEF Claims
  <1>12. pc' \notin Early /\ (ef'.ro # 0 => ef'.mode = "RO")
    BY <1>1, <1>2, <1>4 DEF Early, Flags
  <1> QED BY <1>1, <1>4, <1>5, <1>6, <1>7, <1>8, <1>9, <1>11, <1>12, EmptyStep

LEMMA CrashHolds == VolumeInv /\ Crash => VolumeInv'
  <1> SUFFICES ASSUME VolumeInv, Crash PROVE VolumeInv'
    OBVIOUS
  <1>1. /\ pc \notin {"idle", "bug", "overflow"} /\ pc \notin Dead
        /\ budget' = [budget EXCEPT !.crashes = budget.crashes - 1] /\ budget.crashes > 0
        /\ lost' = (lost \/ ef.cdirty) /\ tool' = NoTool
        /\ ef' = NoEf /\ node' = <<>> /\ rd' = NoRead /\ stack' = <<>> /\ pc' = "idle"
        /\ UNCHANGED <<disk, found, claimed, aborted>>
    BY DEF Crash, Dead
  <1>2. Types /\ Flags /\ Claims
    BY DEF VolumeInv
  <1>3. budget' \in BudgetType /\ (NoTransferFailed' => NoTransferFailed)
    <2>1. PICK n \in Nat : n = budget.crashes
      BY <1>2 DEF Types, BudgetType
    <2>2. n - 1 \in Nat /\ budget' = [budget EXCEPT !.crashes = n - 1] /\ budget \in BudgetType
      BY <1>1, <1>2, <2>1 DEF Types
    <2>3. budget' \in BudgetType /\ budget'.faults = budget.faults
      BY <2>2 DEF BudgetType
    <2> QED BY <2>3 DEF NoTransferFailed
  <1>4. DOMAIN node' = {} /\ NodeTypes'
    BY <1>1, EmptyFacts DEF NodeTypes
  <1>5. NoTransferFailed => (lost => disk.mounted) /\ (ef.cdirty => disk.mounted)
    BY <1>1, <1>2 DEF Flags
  <1>6. lost' \in BOOLEAN
    BY <1>1, <1>2 DEF Types, EfType
  <1>7. Types'
    BY <1>1, <1>2, <1>3, <1>4, <1>6, EmptyFacts DEF Types
  <1>8. \A c \in claimed' : c[2] \in 1 .. Len(disk'.dir[c[1]])
    BY <1>1, <1>2 DEF Claims
  <1>9. pc' \notin Early
    BY <1>1 DEF Early
  <1> QED BY <1>1, <1>3, <1>4, <1>5, <1>7, <1>8, <1>9, EmptyFacts, EmptyStep

-----------------------------------------------------------------------------
(* The theorems.                                                           *)

LEMMA MountingHolds == VolumeInv /\ Mounting => VolumeInv'
  <1> SUFFICES ASSUME VolumeInv, Mounting PROVE VolumeInv'
    OBVIOUS
  <1>1. CASE AllocSb \/ AllocZeroCluster
    BY <1>1, AllocHolds DEF AllocSb, AllocZeroCluster, Early
  <1>2. CASE CheckOem \/ CheckSectorBits \/ CheckClusterBits
    BY <1>2, CheckHolds DEF CheckOem, CheckSectorBits, CheckClusterBits, Early
  <1>3. CASE CheckVersion \/ CheckFatCount \/ CheckClusters
    BY <1>3, CheckHolds DEF CheckVersion, CheckFatCount, CheckClusters, Early
  <1>4. CASE MountError
    BY <1>4, ResetHolds DEF MountError
  <1> QED BY <1>1, <1>2, <1>3, <1>4, ReadSbHolds, VbrHolds, AllocRootHolds, RootdirSizeHolds,
             FindHolds, PrepareHolds, MountFreeHolds DEF Mounting

LEMMA StepHolds == VolumeInv /\ [Next]_vars => VolumeInv'
  <1> SUFFICES ASSUME VolumeInv, [Next]_vars PROVE VolumeInv'
    OBVIOUS
  <1>1. CASE UNCHANGED vars
    <2>1. /\ disk' = disk /\ ef' = ef /\ node' = node /\ rd' = rd /\ stack' = stack /\ pc' = pc
          /\ tool' = tool /\ found' = found /\ claimed' = claimed /\ aborted' = aborted
          /\ lost' = lost /\ budget' = budget
      BY <1>1 DEF vars
    <2>2. Types' /\ Phases' /\ Flags'
      BY <2>1 DEF VolumeInv, Types, NodeTypes, Phases, Flags, InSession, NoTransferFailed
    <2>3. Tree'
      BY <2>1 DEF VolumeInv, Tree, RootInv, InSession, NodeInv, Home, EntryOf, Safe
    <2>4. Frames'
      BY <2>1 DEF VolumeInv, Frames, InDirck, Lasting, Safe, Top
    <2>5. Claims'
      BY <2>1 DEF VolumeInv, Claims, NoTransferFailed, Pending, Home
    <2>6. Bitmaps'
      BY <2>1 DEF VolumeInv, Bitmaps, OneBitmap, EntriesOf
    <2> QED BY <2>2, <2>3, <2>4, <2>5, <2>6 DEF VolumeInv
  <1>2. CASE \E t \in Tools : exfat_open(t)
    BY <1>2, OpenHolds
  <1>3. CASE Mounting
    BY <1>3, MountingHolds
  <1>4. CASE CacheDirectory
    BY <1>4, ReadEndHolds, ReadFailsHolds, ParseHolds, ReadTableHolds, ReadUnknownHolds
       DEF CacheDirectory
  <1>5. CASE Dirck
    BY <1>5, FsckHolds, LookupHolds, DirckOpenHolds, DirckDirHolds, DirckFileHolds,
       DirckFlushHolds, DirckCloseHolds DEF Dirck
  <1>6. CASE Unmounting
    BY <1>6, UnmountNodesHolds, UnmountBitmapHolds, ResetHolds, UnmountFinishHolds
       DEF Unmounting, UnmountReset
  <1>7. CASE UseLabel \/ FuseDestroy
    BY <1>7, LeaveHolds
  <1>8. CASE FuseWork
    BY <1>8, FuseWorkHolds
  <1>9. CASE Crash
    BY <1>9, CrashHolds
  <1>10. CASE \E k \in DOMAIN node : FuseOpendir(k) \/ FuseReaddir(k)
    BY <1>10, FuseOpendirHolds, FuseReaddirHolds
  <1> QED BY <1>1, <1>2, <1>3, <1>4, <1>5, <1>6, <1>7, <1>8, <1>9, <1>10 DEF Next, Working

\* The invariant holds in every state: whatever is damaged, however the
\* directories are arranged, and however many tools run, are killed or fail
\* to read.
THEOREM VolumeInvHolds == Spec => []VolumeInv
  BY InitHolds, StepHolds, PTL DEF Spec

\* Every return of exfat_mount(), wherever it gives up, and exfat_unmount()
\* leave no device open, no node and no block allocated, but for the bitmaps
\* that a second bitmap entry replaced.
THEOREM ReleasedHolds == Spec => []Released
  <1>1. VolumeInv => Released
    <2> SUFFICES ASSUME VolumeInv, pc = "idle"
                 PROVE  /\ ef.held = {} /\ ef.chunk = <<>> /\ DOMAIN node = {}
                        /\ OneBitmap => ef.orphans = {}
      BY DEF Released
    <2>1. pc \notin Dead
      BY DEF Dead
    <2> QED BY <2>1 DEF VolumeInv, Phases, Bitmaps
  <1> QED BY <1>1, VolumeInvHolds, PTL

\* A session that lost bitmap changes leaves the volume marked as mounted.
THEOREM LostIsFlaggedHolds == Spec => []LostIsFlagged
  <1>1. VolumeInv => LostIsFlagged
    BY DEF VolumeInv, Flags, LostIsFlagged
  <1> QED BY <1>1, VolumeInvHolds, PTL

\* What exfatfsck counts as fixed is right on the device when it ends.
THEOREM FixedIsWrittenHolds == Spec => []FixedIsWritten
  <1>1. VolumeInv => FixedIsWritten
    <2> SUFFICES ASSUME VolumeInv, pc = "idle", tool.name # "none", ~aborted, NoTransferFailed,
                        NEW c \in claimed
                 PROVE  SumRight(disk.dir[c[1]][c[2]]) /\ disk.dir[c[1]][c[2]].kind # "unknown"
      BY DEF FixedIsWritten
    <2>1. DOMAIN node = {} /\ pc \notin Dead
      BY DEF VolumeInv, Phases, Dead
    <2>2. ~Pending(c)
      BY <2>1 DEF Pending
    <2> QED BY <2>1, <2>2 DEF VolumeInv, Claims
  <1> QED BY <1>1, VolumeInvHolds, PTL

\* No step writes to a volume that was opened read-only.
THEOREM ReadOnlyKeepsHolds == Spec => ReadOnlyKeeps
  <1>1. VolumeInv /\ [Next]_vars => [ef.ro # 0 => disk' = disk]_vars
    <2> SUFFICES ASSUME VolumeInv, Next, ef.ro # 0 PROVE disk' = disk
      BY DEF vars
    <2>1. ef.mode = "RO"
      BY DEF VolumeInv, Flags
    <2>2. \A k : FlushSucceeds(k) \/ FlushFails(k) => disk' = disk
      BY DEF FlushSucceeds, FlushFails, FlushAborts
    <2>3. CASE \E t \in Tools : exfat_open(t)
      BY <2>3 DEF exfat_open
    <2>4. CASE Mounting
      <3>1. CASE verify_vbr_checksum
        BY <2>1, <3>1 DEF verify_vbr_checksum
      <3>2. CASE prepare_super_block
        BY <3>2 DEF prepare_super_block
      <3>3. CASE AllocSb \/ ReadSb \/ CheckOem \/ CheckSectorBits \/ CheckClusterBits
                 \/ AllocZeroCluster \/ CheckVersion \/ CheckFatCount \/ CheckClusters
        BY <3>3 DEF AllocSb, ReadSb, CheckOem, CheckSectorBits, CheckClusterBits,
             AllocZeroCluster, CheckVersion, CheckFatCount, CheckClusters, Alloc, Check, Quiet
      <3>4. CASE AllocRoot \/ rootdir_size \/ FindUpcase \/ FindChunk \/ MountError \/ MountFree
        BY <3>4 DEF AllocRoot, rootdir_size, FindUpcase, FindChunk, MountError,
             exfat_reset_cache, MountFree, Quiet
      <3> QED BY <2>4, <3>1, <3>2, <3>3, <3>4 DEF Mounting
    <2>5. CASE CacheDirectory
      BY <2>1, <2>5 DEF CacheDirectory, ReadEnd, ReadFails, parse_file_entry, ReadTable,
                        ReadUnknown
    <2>6. CASE Dirck
      <3>1. CASE DirckFlush \/ DirckClose
        BY <2>2, <3>1 DEF DirckFlush, DirckClose
      <3> QED BY <2>6, <3>1 DEF Dirck, fsck, lookup_name, DirckOpen, DirckName, DirckDir,
                                DirckFile, DirckNext
    <2>7. CASE Unmounting
      BY <2>2, <2>7 DEF Unmounting, UnmountNodes, UnmountBitmap, UnmountReset, UnmountFinish,
                        exfat_reset_cache, finalize_super_block, Quiet
    <2>8. CASE \/ UseLabel \/ FuseWork \/ FuseDestroy \/ Crash
               \/ \E k \in DOMAIN node : FuseOpendir(k) \/ FuseReaddir(k)
      BY <2>8 DEF UseLabel, FuseWork, FuseDestroy, Crash, FuseOpendir, FuseReaddir
    <2> QED BY <2>3, <2>4, <2>5, <2>6, <2>7, <2>8 DEF Next, Working
  <1> QED BY <1>1, VolumeInvHolds, PTL DEF Spec, ReadOnlyKeeps

=============================================================================
