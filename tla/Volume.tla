------------------------------- MODULE Volume -------------------------------
(***************************************************************************)
(* Mounting, checking, repairing and unmounting a volume (mount.c, io.c,   *)
(* repair.c, the directory parser of node.c, lookup.c, fsck/main.c): the   *)
(* tools run one after another on the same device, and each goes through   *)
(* exfat_mount() and exfat_unmount().                                      *)
(*                                                                         *)
(* The super block is the set of its fields that are wrong; a directory is *)
(* the sequence of its entries, where the entries of a file are one:       *)
(*   kind    file, dir; broken is a set that fails a check before its name *)
(*           is read; unknown is a valid entry of an unknown type; upcase, *)
(*           bitmap, label; badupcase, and badtable for a wrong bitmap or  *)
(*           label; deleted                                                *)
(*   sum     whether the checksum of the set is right                      *)
(*   fit     whether it passes the other checks of check_node()            *)
(*   marked  whether the bitmap marks its clusters and its chain is valid  *)
(*   name    its name; names that differ in case only are one              *)
(*   to      the directory its clusters hold, if kind is dir               *)
(* A struct exfat_node is known by the indices of the entries that lead to *)
(* it from the root directory, whose node is <<>>.                         *)
(***************************************************************************)
EXTENDS Integers, Sequences, FiniteSets

CONSTANTS
  Dirs,       \* the directories of the volume
  Names,      \* the names of files
  Comps,      \* [Names -> Seq(Names)]: the components of the path that a name
              \* is to exfat_lookup(): none for "" and ".", more with a '/'
  Lone,       \* the names with a lone surrogate, which are not converted
  Tools,      \* the tools that are run: [name, mode, repair]
  InitDisks,  \* the volumes a behaviour may begin with
  MaxFaults,  \* transfers and allocations that fail
  MaxCrashes, \* processes killed
  MaxRuns,    \* tools started
  MaxDepth    \* calls of dirck() the stack has room for

VARIABLES
  disk,    \* [bad, mounted, wp, rootmarked, dir]: the device
  ef,      \* struct exfat: the pointers that are not NULL, mode, ro, cmap
  node,    \* the struct exfat_node's that are allocated
  rd,      \* readdir(): the node whose directory is read, the next entry,
           \* and who called exfat_cache_directory()
  stack,   \* the calls of dirck()
  pc, tool,
  found,   \* exfat_errors # 0
  claimed, \* entries counted in exfat_errors_fixed, as <<directory, index>>
  aborted, \* whether a directory of this run could not be read
  lost,    \* whether bitmap changes never reached the device, and no session
           \* that may write has ended since
  budget   \* [faults, crashes, runs] left

vars == <<disk, ef, node, rd, stack, pc, tool, found, claimed, aborted, lost, budget>>

Fields == {"oem", "sector_bits", "cluster_bits", "vbr", "version", "fat_count",
           "clusters", "rootchain"}
Kinds == {"file", "dir", "broken", "unknown", "upcase", "bitmap", "label",
          "badupcase", "badtable", "deleted"}
Entry == [kind : Kinds, sum : BOOLEAN, fit : BOOLEAN, marked : BOOLEAN,
          name : Names, to : Dirs]
DiskType == [bad : SUBSET Fields, mounted : BOOLEAN, wp : BOOLEAN,
             rootmarked : BOOLEAN, dir : [Dirs -> Seq(Entry)]]
ToolType == [name : {"none", "fuse", "fsck", "label"}, mode : {"RO", "RW", "ANY"},
             repair : {"NO", "ASK", "YES"}]

ASSUME NameAssumption ==
  /\ "root" \in Dirs /\ "" \in Names
  /\ Comps \in [Names -> Seq(Names)]
ASSUME DiskAssumption == \A d \in InitDisks : d \in DiskType
ASSUME ToolAssumption == \A t \in Tools : t \in ToolType
ASSUME BoundAssumption ==
  MaxFaults \in Nat /\ MaxCrashes \in Nat /\ MaxRuns \in Nat /\ MaxDepth \in Nat

NoTool == [name |-> "none", mode |-> "RO", repair |-> "NO"]
NoRead == [node |-> <<>>, at |-> 0, from |-> "none"]

\* memset(ef, 0, sizeof(struct exfat)); chunk is the bitmap entry that
\* cmap.chunk was allocated for, <<>> is NULL; orphans are the blocks it
\* pointed to when it was given another one.
NoEf == [held |-> {}, mode |-> "RO", ro |-> 0, chunk |-> <<>>, orphans |-> {},
         cdirty |-> FALSE]

Init ==
  /\ disk \in InitDisks
  /\ ef = NoEf /\ node = <<>> /\ rd = NoRead /\ stack = <<>>
  /\ pc = "idle" /\ tool = NoTool /\ found = FALSE
  /\ claimed = {} /\ aborted = FALSE /\ lost = FALSE
  /\ budget = [faults |-> MaxFaults, crashes |-> MaxCrashes, runs |-> MaxRuns]

Fault == budget.faults > 0 /\ budget' = [budget EXCEPT !.faults = @ - 1]
History == <<claimed, aborted, lost>>

exfat_bug == pc' = "bug"

Only(S) == [k \in DOMAIN node \cap S |-> node[k]]
Without(S) == [k \in DOMAIN node \ S |-> node[k]]
Dirty == {k \in DOMAIN node : node[k].dirty}
Kids(k) == {x \in DOMAIN node : x # <<>> /\ node[x].parent = k}

\* A node: parent, entry_offset and what is copied from its entries.
NodeOf(e, parent, i, dirty) ==
  [dirty |-> dirty, cached |-> FALSE, parent |-> parent, at |-> i,
   isdir |-> e.kind = "dir", marked |-> e.marked, name |-> e.name, to |-> e.to]
RootNode ==
  [dirty |-> FALSE, cached |-> FALSE, parent |-> <<>>, at |-> 0,
   isdir |-> TRUE, marked |-> disk.rootmarked, name |-> "", to |-> "root"]

\* mutant: the upcase table is forgotten
exfat_freeMost ==
  /\ ef' = [ef EXCEPT !.held = @ \ {"dev", "zero_cluster", "sb"}, !.chunk = <<>>]
  /\ node' = Without({<<>>})

\* the device, the root node, zero_cluster, cmap.chunk, upcase and sb
exfat_free ==
  /\ ef' = [ef EXCEPT !.held = @ \ {"dev", "zero_cluster", "upcase", "sb"},
                      !.chunk = <<>>]
  /\ node' = Without({<<>>})

\* exfat_ask_to_fix(); y is what the user would answer
exfat_ask_to_fix(y) == tool.repair = "YES" \/ (tool.repair = "ASK" /\ y)

-----------------------------------------------------------------------------
(* exfat_mount(), one action for each of its steps that can fail.          *)

\* The mode a device opens in, or "none"
OpenedAs(mode) ==
  IF mode # "RO" /\ ~disk.wp THEN "RW" ELSE IF mode # "RW" THEN "RO" ELSE "none"

\* A new process calls exfat_open().
exfat_open(t) ==
  /\ pc = "idle" /\ budget.runs > 0
  /\ tool' = t /\ claimed' = {} /\ aborted' = FALSE
  /\ node' = <<>> /\ rd' = NoRead /\ stack' = <<>>
  /\ LET mode == OpenedAs(t.mode)
         used == [budget EXCEPT !.runs = @ - 1]
     IN \/ /\ mode # "none" /\ pc' = "alloc_sb" /\ found' = FALSE
           /\ ef' = [NoEf EXCEPT !.held = {"dev"}, !.mode = mode,
                       !.ro = IF mode = "RW" THEN 0
                              ELSE IF t.mode = "ANY" THEN -1 ELSE 1]
           /\ budget' = used
        \/ /\ mode = "none" \/ budget.faults > 0
           /\ ef' = NoEf /\ pc' = "idle" /\ found' = TRUE
           /\ budget' = IF mode = "none" THEN used
                        ELSE [used EXCEPT !.faults = @ - 1]
  /\ UNCHANGED <<disk, lost>>

Quiet == UNCHANGED <<disk, rd, stack, tool, History>>

\* exfat_error(), exfat_free() and return
GiveUp == found' = TRUE /\ exfat_free /\ pc' = "idle"

\* A pointer of ef is given memory.
Alloc(here, pointer, next) ==
  /\ pc = here /\ Quiet
  /\ \/ /\ ef' = [ef EXCEPT !.held = @ \cup {pointer}] /\ pc' = next
        /\ UNCHANGED <<node, found, budget>>
     \/ Fault /\ GiveUp

\* A field of the super block is checked.
Check(field, next) ==
  /\ pc = field /\ Quiet /\ UNCHANGED budget
  /\ \/ field \in disk.bad /\ GiveUp
     \/ field \notin disk.bad /\ pc' = next /\ UNCHANGED <<ef, node, found>>

AllocSb == Alloc("alloc_sb", "sb", "read_sb")
ReadSb ==
  /\ pc = "read_sb" /\ Quiet
  /\ \/ pc' = "oem" /\ UNCHANGED <<ef, node, found, budget>>
     \/ Fault /\ GiveUp
CheckOem == Check("oem", "sector_bits")
CheckSectorBits == Check("sector_bits", "cluster_bits")
CheckClusterBits == Check("cluster_bits", "alloc_zero")
AllocZeroCluster == Alloc("alloc_zero", "zero_cluster", "vbr")

\* exfat_fix_invalid_vbr_checksum() writes at once.
verify_vbr_checksum ==
  /\ pc = "vbr" /\ UNCHANGED <<rd, stack, tool, History>>
  /\ \/ Fault /\ GiveUp /\ UNCHANGED disk
     \/ "vbr" \notin disk.bad /\ pc' = "version"
        /\ UNCHANGED <<disk, ef, node, found, budget>>
     \/ /\ "vbr" \in disk.bad /\ UNCHANGED budget
        /\ \E y \in BOOLEAN :
             IF exfat_ask_to_fix(y) /\ ef.mode = "RW"
             THEN /\ disk' = [disk EXCEPT !.bad = @ \ {"vbr"}]
                  /\ found' = TRUE /\ pc' = "version" /\ UNCHANGED <<ef, node>>
             ELSE GiveUp /\ UNCHANGED disk

\* mutant: one of the returns without exfat_free()
CheckVersionKeeps ==
  /\ pc = "version" /\ Quiet /\ UNCHANGED <<budget, ef, node>>
  /\ IF "version" \in disk.bad THEN pc' = "idle" /\ found' = TRUE
     ELSE pc' = "fat_count" /\ UNCHANGED found

CheckVersion == Check("version", "fat_count")
CheckFatCount == Check("fat_count", "clusters")
CheckClusters == Check("clusters", "alloc_root")

AllocRoot ==
  /\ pc = "alloc_root" /\ Quiet
  /\ \/ /\ node' = [k \in {<<>>} |-> RootNode] /\ pc' = "rootchain"
        /\ UNCHANGED <<ef, found, budget>>
     \/ Fault /\ GiveUp

\* exfat_cache_directory(k) begins, called by from.
StartRead(k, from) == rd' = [node |-> k, at |-> 1, from |-> from] /\ pc' = "readdir"

\* a FAT entry that cannot be read is an invalid cluster
rootdir_size ==
  /\ pc = "rootchain" /\ UNCHANGED <<disk, stack, tool, History>>
  /\ \/ /\ "rootchain" \notin disk.bad /\ StartRead(<<>>, "mount")
        /\ UNCHANGED <<ef, node, found, budget>>
     \/ "rootchain" \in disk.bad /\ GiveUp /\ UNCHANGED <<rd, budget>>
     \/ Fault /\ GiveUp /\ UNCHANGED rd

\* ef->upcase == NULL, ef->cmap.chunk == NULL
FindUpcase ==
  /\ pc = "upcase" /\ Quiet /\ UNCHANGED <<ef, node, budget>>
  /\ IF "upcase" \in ef.held THEN pc' = "chunk" /\ UNCHANGED found
     ELSE pc' = "error" /\ found' = TRUE
FindChunk ==
  /\ pc = "chunk" /\ Quiet /\ UNCHANGED <<ef, node, budget>>
  /\ IF ef.chunk # <<>> THEN pc' = "prepare" /\ UNCHANGED found
     ELSE pc' = "error" /\ found' = TRUE

\* mutant: the volume is not marked
prepare_super_blockUnmarked ==
  /\ pc = "prepare" /\ pc' = "running"
  /\ UNCHANGED <<disk, ef, node, rd, stack, tool, found, History, budget>>

prepare_super_block ==
  /\ pc = "prepare" /\ UNCHANGED <<ef, node, rd, stack, tool, History>>
  /\ \/ /\ pc' = "running" /\ UNCHANGED <<found, budget>>
        /\ disk' = IF ef.ro # 0 THEN disk ELSE [disk EXCEPT !.mounted = TRUE]
     \* the write fails, or the fsync after it
     \/ /\ ef.ro = 0 /\ Fault /\ found' = TRUE /\ pc' = "error"
        /\ \E b \in {disk.mounted, TRUE} : disk' = [disk EXCEPT !.mounted = b]

\* exfat_reset_cache() aborts on a dirty node.
exfat_reset_cache(here, next) ==
  /\ pc = here /\ Quiet /\ UNCHANGED <<ef, found, budget>>
  /\ \/ Dirty # {} /\ exfat_bug /\ UNCHANGED node
     \/ Dirty = {} /\ node' = Only({<<>>}) /\ pc' = next

MountError == exfat_reset_cache("error", "free")
MountFree == pc = "free" /\ GiveUp /\ Quiet /\ UNCHANGED budget

-----------------------------------------------------------------------------
(* readdir() and exfat_cache_directory(): a step reads one entry.          *)

\* dirck() returns, to fsck() or to the call that has to flush the child.
Pop ==
  /\ stack' = SubSeq(stack, 1, Len(stack) - 1)
  /\ pc' = IF Len(stack) = 1 THEN "unmount" ELSE "flush"

\* exfat_cache_directory() returns to its caller.
CacheReturns(ok) ==
  /\ rd' = NoRead
  /\ \/ /\ rd.from = "mount" /\ pc' = IF ok THEN "upcase" ELSE "error"
        /\ UNCHANGED stack
     \/ /\ rd.from = "lookup" /\ UNCHANGED stack
        /\ IF ok THEN pc' = "lookup" ELSE exfat_bug
     \/ /\ rd.from = "dirck"
        /\ IF ok THEN pc' = "entries" /\ UNCHANGED stack ELSE Pop
     \/ rd.from = "fuse" /\ pc' = "running" /\ UNCHANGED stack

\* The nodes of the directory are freed again, dirty or not.
Rollback ==
  /\ found' = TRUE /\ aborted' = TRUE
  /\ node' = Without(Kids(rd.node)) /\ CacheReturns(FALSE)

ReadingDir == node[rd.node].to
Reading == disk.dir[ReadingDir][rd.at]
AtEntry == pc = "readdir" /\ rd.at <= Len(disk.dir[ReadingDir])
Claim == claimed' = claimed \cup {<<ReadingDir, rd.at>>}
Advance == rd' = [rd EXCEPT !.at = @ + 1] /\ UNCHANGED <<stack, pc>>

ReadEnd ==
  /\ pc = "readdir" /\ rd.at > Len(disk.dir[ReadingDir])
  /\ node' = [node EXCEPT ![rd.node].cached = TRUE] /\ CacheReturns(TRUE)
  /\ UNCHANGED <<disk, ef, tool, found, History, budget>>

\* An entry, a table or the end is not read, or there is no memory; for the
\* bitmap cmap.chunk is NULL then, or points to what was not read.
ReadFails ==
  /\ pc = "readdir" /\ Fault /\ Rollback
  /\ \/ UNCHANGED ef
     \/ /\ AtEntry /\ Reading.kind = "bitmap"
        /\ \E c \in {<<>>, Append(rd.node, rd.at)} :
             ef' = [ef EXCEPT !.chunk = c, !.orphans = @ \cup ({ef.chunk} \ {<<>>})]
  /\ UNCHANGED <<disk, tool, claimed, lost>>

\* parse_file_entry(): check_node() calls exfat_get_name() for each of its
\* complaints.  The first one, the checksum, may be repaired.
parse_file_entry ==
  LET e == Reading
      fresh(dirty) ==
        node' = [k \in DOMAIN node \cup {Append(rd.node, rd.at)} |->
                   IF k = Append(rd.node, rd.at)
                   THEN NodeOf(e, rd.node, rd.at, dirty) ELSE node[k]]
  IN /\ AtEntry /\ UNCHANGED <<disk, ef, tool, lost, budget>>
     /\ \/ e.kind = "broken" /\ Rollback /\ UNCHANGED claimed
        \/ /\ e.kind \in {"file", "dir"} /\ e.sum /\ e.fit
           /\ fresh(FALSE) /\ Advance /\ UNCHANGED <<found, claimed, aborted>>
        \/ /\ e.kind \in {"file", "dir"} /\ ~(e.sum /\ e.fit) /\ e.name \in Lone
           /\ exfat_bug /\ UNCHANGED <<node, rd, stack, found, claimed, aborted>>
        \/ /\ e.kind \in {"file", "dir"} /\ ~(e.sum /\ e.fit) /\ e.name \notin Lone
           /\ \E y \in BOOLEAN :
                LET fix == ~e.sum /\ exfat_ask_to_fix(y)
                IN /\ IF fix THEN Claim ELSE UNCHANGED claimed
                   /\ IF fix /\ e.fit
                      THEN /\ fresh(TRUE) /\ Advance
                           /\ found' = TRUE /\ UNCHANGED aborted
                      ELSE Rollback

\* An upcase table when there is none yet, a bitmap in any case.
ReadTable ==
  /\ AtEntry /\ UNCHANGED <<disk, tool, claimed, lost, budget>>
  /\ \/ /\ Reading.kind = "upcase" \/ (Reading.kind = "badupcase" /\ "upcase" \in ef.held)
        /\ ef' = [ef EXCEPT !.held = @ \cup {"upcase"}]
        /\ Advance /\ UNCHANGED <<node, found, aborted>>
     \/ /\ Reading.kind = "bitmap"
        /\ ef' = [ef EXCEPT !.chunk = Append(rd.node, rd.at),
                            !.orphans = @ \cup ({ef.chunk} \ {<<>>})]
        /\ Advance /\ UNCHANGED <<node, found, aborted>>
     \/ /\ Reading.kind \in {"label", "deleted"} /\ Advance
        /\ UNCHANGED <<ef, node, found, aborted>>
     \/ /\ \/ Reading.kind = "badtable"
           \/ Reading.kind = "badupcase" /\ "upcase" \notin ef.held
        /\ Rollback /\ UNCHANGED ef

\* exfat_fix_unknown_entry() writes at once.
ReadUnknown ==
  /\ AtEntry /\ Reading.kind = "unknown" /\ UNCHANGED <<ef, tool, lost, budget>>
  /\ \E y \in BOOLEAN :
       IF exfat_ask_to_fix(y) /\ ef.mode = "RW"
       THEN /\ disk' = [disk EXCEPT !.dir[ReadingDir][rd.at].kind = "deleted"]
            /\ Claim /\ Advance /\ found' = TRUE /\ UNCHANGED <<node, aborted>>
       ELSE Rollback /\ UNCHANGED <<disk, claimed>>

CacheDirectory == ReadEnd \/ ReadFails \/ parse_file_entry \/ ReadTable \/ ReadUnknown

-----------------------------------------------------------------------------
(* exfat_flush_node() and exfat_flush()                                    *)

\* The directory with the entries of node k.
Home(k) == node[node[k].parent].to

\* mutant: the entries are written as they were read
WrittenStale(k) == disk

\* the device once the entries of node k are written, their checksum right
Written(k) == [disk EXCEPT !.dir[Home(k)][node[k].at].sum = TRUE]

FlushAborts(k) == node[k].dirty /\ ef.ro # 0
FlushSucceeds(k) ==
  /\ ~FlushAborts(k) /\ UNCHANGED <<found, budget>>
  /\ IF node[k].dirty
     THEN /\ disk' = Written(k) /\ node' = [node EXCEPT ![k].dirty = FALSE]
          /\ ef' = [ef EXCEPT !.cdirty = FALSE]
     ELSE UNCHANGED <<disk, node, ef>>
\* the entries are not read or not written, or the bitmap is not
FlushFails(k) ==
  /\ ~FlushAborts(k) /\ node[k].dirty /\ Fault /\ found' = TRUE
  /\ UNCHANGED ef
  /\ \/ UNCHANGED <<disk, node>>
     \/ ef.cdirty /\ disk' = Written(k) /\ node' = [node EXCEPT ![k].dirty = FALSE]

-----------------------------------------------------------------------------
(* What the tools do with a mounted volume.                                *)

\* The daemon looks into directories and allocates clusters, and the kernel
\* unmounts it at some time.
FuseOpendir(k) ==
  /\ pc = "running" /\ tool.name = "fuse" /\ k \in DOMAIN node
  /\ node[k].isdir /\ ~node[k].cached /\ Len(k) < MaxDepth
  /\ StartRead(k, "fuse")
  /\ UNCHANGED <<disk, ef, node, stack, tool, found, History, budget>>

\* exfat_get_name() on the nodes of a directory that was read
FuseReaddir(k) ==
  /\ pc = "running" /\ tool.name = "fuse" /\ k \in DOMAIN node
  /\ \E x \in Kids(k) : node[x].name \in Lone
  /\ exfat_bug
  /\ UNCHANGED <<disk, ef, node, rd, stack, tool, found, History, budget>>

FuseWork ==
  /\ pc = "running" /\ tool.name = "fuse" /\ ef.ro = 0 /\ ~ef.cdirty
  /\ ef' = [ef EXCEPT !.cdirty = TRUE]
  /\ UNCHANGED <<disk, node, rd, stack, pc, tool, found, History, budget>>

FuseDestroy ==
  /\ pc = "running" /\ tool.name = "fuse" /\ pc' = "unmount"
  /\ UNCHANGED <<disk, ef, node, rd, stack, tool, found, History, budget>>

\* exfatlabel and dumpexfat
UseLabel ==
  /\ pc = "running" /\ tool.name = "label" /\ pc' = "unmount"
  /\ UNCHANGED <<disk, ef, node, rd, stack, tool, found, History, budget>>

\* A call of dirck() is a frame: its path, the components exfat_lookup() has
\* still to find, the node found so far, and it.current (<<>> is NULL).
Top == stack[Len(stack)]
Frame(path) == [path |-> path, left |-> path, cur |-> <<>>, child |-> <<>>]
SetTop(f) == [stack EXCEPT ![Len(stack)] = f]

\* dirck(path) is called by the calls in below.
Call(below, path) ==
  IF Len(below) < MaxDepth
  THEN stack' = Append(below, Frame(path)) /\ pc' = "lookup"
  ELSE stack' = below /\ pc' = "overflow"

fsck ==
  /\ pc = "running" /\ tool.name = "fsck" /\ Call(<<>>, <<>>)
  /\ UNCHANGED <<disk, ef, node, rd, tool, found, History, budget>>

Matches == {k \in Kids(Top.cur) : node[k].name = Head(Top.left)}
First(K) == CHOOSE k \in K : \A x \in K : node[k].at <= node[x].at

\* lookup_name() for the next component of the path: the first node with that
\* name.  An entry that is not found, or not in a directory, is a bug.
lookup_name ==
  /\ pc = "lookup" /\ Top.left # <<>>
  /\ UNCHANGED <<disk, ef, node, tool, found, History, budget>>
  /\ \/ ~node[Top.cur].isdir /\ exfat_bug /\ UNCHANGED <<rd, stack>>
     \/ /\ node[Top.cur].isdir /\ ~node[Top.cur].cached
        /\ StartRead(Top.cur, "lookup") /\ UNCHANGED stack
     \/ /\ node[Top.cur].isdir /\ node[Top.cur].cached /\ UNCHANGED rd
        /\ \/ Matches = {} /\ exfat_bug /\ UNCHANGED stack
           \/ /\ Matches # {} /\ UNCHANGED pc
              /\ stack' = SetTop([Top EXCEPT !.left = Tail(@), !.cur = First(Matches)])

\* dirck() from the lookup to exfat_opendir()
DirckOpen ==
  LET dir == node[Top.cur]
  IN /\ pc = "lookup" /\ Top.left = <<>>
     /\ UNCHANGED <<disk, ef, node, tool, History>>
     /\ \/ ~dir.isdir /\ exfat_bug /\ UNCHANGED <<rd, stack, found, budget>>
        \* nodeck(): a cluster is not marked, or a FAT entry not read; or no memory
        \/ /\ dir.isdir /\ found' = TRUE /\ Pop /\ UNCHANGED rd
           /\ IF dir.marked THEN Fault ELSE UNCHANGED budget
        \/ /\ dir.isdir /\ dir.marked /\ UNCHANGED <<found, budget>>
           /\ IF dir.cached THEN pc' = "entries" /\ UNCHANGED <<rd, stack>>
              ELSE StartRead(Top.cur, "dirck") /\ UNCHANGED stack

Later == {k \in Kids(Top.cur) : Top.child = <<>> \/ node[k].at > node[Top.child].at}
DirckNext == pc = "entries" /\ Later # {} /\ UNCHANGED <<disk, ef, node, rd, tool, History>>

\* exfat_get_name() on the next node
DirckName ==
  /\ DirckNext /\ node[First(Later)].name \in Lone
  /\ exfat_bug /\ UNCHANGED <<stack, found, budget>>

\* mutant: the iterator does not move
DirckDirStays ==
  LET k == First(Later)
  IN /\ DirckNext /\ node[k].isdir /\ node[k].name \notin Lone
     /\ pc' = "entries" /\ UNCHANGED <<stack, found, budget>>

DirckDir ==
  LET k == First(Later)
  IN /\ DirckNext /\ node[k].isdir /\ node[k].name \notin Lone
     /\ Call(SetTop([Top EXCEPT !.child = k]), Top.path \o Comps[node[k].name])
     /\ UNCHANGED <<found, budget>>

\* mutant: files are not looked at
DirckFileSkipped ==
  LET k == First(Later)
  IN /\ DirckNext /\ ~node[k].isdir /\ node[k].name \notin Lone
     /\ stack' = SetTop([Top EXCEPT !.child = k]) /\ pc' = "flush"
     /\ UNCHANGED <<found, budget>>

DirckFile ==
  LET k == First(Later)
  IN /\ DirckNext /\ ~node[k].isdir /\ node[k].name \notin Lone
     /\ stack' = SetTop([Top EXCEPT !.child = k]) /\ pc' = "flush"
     /\ \/ found' = (found \/ ~node[k].marked) /\ UNCHANGED budget
        \/ found' = TRUE /\ Fault

\* The node is flushed after its check, its parent at the end; what
\* exfat_flush_node() returns is ignored.
DirckFlush ==
  /\ pc = "flush" /\ UNCHANGED <<rd, stack, tool, History>>
  /\ \/ /\ FlushAborts(Top.child) /\ exfat_bug
        /\ UNCHANGED <<disk, ef, node, found, budget>>
     \/ (FlushSucceeds(Top.child) \/ FlushFails(Top.child)) /\ pc' = "entries"

DirckClose ==
  /\ pc = "entries" /\ Later = {} /\ UNCHANGED <<rd, tool, History>>
  /\ \/ /\ FlushAborts(Top.cur) /\ exfat_bug
        /\ UNCHANGED <<disk, ef, node, stack, found, budget>>
     \/ (FlushSucceeds(Top.cur) \/ FlushFails(Top.cur)) /\ Pop

Dirck == fsck \/ lookup_name \/ DirckOpen \/ DirckName \/ DirckDir \/ DirckFile
         \/ DirckFlush \/ DirckClose

-----------------------------------------------------------------------------
(* exfat_unmount()                                                         *)

\* mutant: exfat_flush_nodes() is not called
UnmountNodesNone ==
  /\ pc = "unmount" /\ pc' = "bitmap"
  /\ UNCHANGED <<disk, ef, node, rd, stack, tool, found, History, budget>>

\* exfat_flush_nodes() writes a dirty node, and stops at an error.  What is
\* written for a node depends on no other, so their order does not matter.
UnmountNodes ==
  /\ pc = "unmount" /\ UNCHANGED <<rd, stack, tool, History>>
  /\ \/ /\ Dirty = {} /\ pc' = "bitmap"
        /\ UNCHANGED <<disk, ef, node, found, budget>>
     \/ \E k \in Dirty :
          \/ FlushAborts(k) /\ exfat_bug /\ UNCHANGED <<disk, ef, node, found, budget>>
          \/ FlushSucceeds(k) /\ UNCHANGED pc
          \/ FlushFails(k) /\ pc' = "bitmap"

\* exfat_flush()
UnmountBitmap ==
  /\ pc = "bitmap" /\ pc' = "reset" /\ Quiet /\ UNCHANGED node
  /\ \/ ef' = [ef EXCEPT !.cdirty = FALSE] /\ UNCHANGED <<found, budget>>
     \/ ef.cdirty /\ Fault /\ found' = TRUE /\ UNCHANGED ef

UnmountReset == exfat_reset_cache("reset", "finalize")

\* mutant: a read-only volume is marked too
finalize_super_blockAlways == TRUE

\* whether finalize_super_block() writes the super block
finalize_super_block == ef.ro = 0

UnmountFinish ==
  /\ pc = "finalize" /\ exfat_free /\ pc' = "idle"
  /\ lost' = (ef.cdirty \/ (lost /\ ef.ro # 0))
  /\ UNCHANGED <<rd, stack, tool, claimed, aborted>>
  /\ \/ /\ UNCHANGED <<found, budget>>
        /\ disk' = IF finalize_super_block THEN [disk EXCEPT !.mounted = FALSE]
                   ELSE disk
     \/ ef.ro = 0 /\ Fault /\ found' = TRUE /\ UNCHANGED disk

\* The process is killed, or power is lost.
Crash ==
  /\ pc \notin {"idle", "bug", "overflow"} /\ budget.crashes > 0
  /\ budget' = [budget EXCEPT !.crashes = @ - 1]
  /\ lost' = (lost \/ ef.cdirty) /\ tool' = NoTool
  /\ ef' = NoEf /\ node' = <<>> /\ rd' = NoRead /\ stack' = <<>> /\ pc' = "idle"
  /\ UNCHANGED <<disk, found, claimed, aborted>>

Mounting ==
  \/ AllocSb \/ ReadSb \/ CheckOem \/ CheckSectorBits \/ CheckClusterBits
  \/ AllocZeroCluster \/ verify_vbr_checksum \/ CheckVersion \/ CheckFatCount
  \/ CheckClusters \/ AllocRoot \/ rootdir_size \/ FindUpcase \/ FindChunk
  \/ prepare_super_block \/ MountError \/ MountFree
Unmounting == UnmountNodes \/ UnmountBitmap \/ UnmountReset \/ UnmountFinish
Working == Mounting \/ CacheDirectory \/ UseLabel \/ Dirck \/ Unmounting

Next ==
  \/ \E t \in Tools : exfat_open(t)
  \/ Working \/ FuseWork \/ FuseDestroy \/ Crash
  \/ \E k \in DOMAIN node : FuseOpendir(k) \/ FuseReaddir(k)

\* A tool runs on; nobody has to start one, use or unmount the daemon.
Fairness == WF_vars(Working)
Spec == Init /\ [][Next]_vars /\ Fairness

-----------------------------------------------------------------------------

NoTransferFailed == budget.faults = MaxFaults

IsFile(e) == e.kind \in {"file", "dir"}
SumRight(e) == IsFile(e) => e.sum
EntriesOf(d) == {disk.dir[d][i] : i \in DOMAIN disk.dir[d]}

\* Names that lead exfat_lookup() where readdir() found them.
Ordinary ==
  \A d \in Dirs : \A i \in DOMAIN disk.dir[d] :
    LET e == disk.dir[d][i]
    IN IsFile(e) =>
         /\ e.name \notin Lone /\ Comps[e.name] = <<e.name>>
         /\ \A j \in DOMAIN disk.dir[d] :
              j # i /\ IsFile(disk.dir[d][j]) => disk.dir[d][j].name # e.name

\* While transfers and allocations succeed no other damage, no answer of the
\* user and no kill makes a tool abort than names that cannot be converted or
\* looked up again, and a checksum that was repaired in memory of a volume
\* that is read-only or whose root directory lacks one of its tables.
NoBug ==
  NoTransferFailed /\ pc = "bug" /\ Ordinary =>
    /\ tool.repair # "NO" /\ claimed # {}
    /\ ef.ro # 0 \/ "upcase" \notin ef.held \/ ef.chunk = <<>>

\* Only the root directory has a bitmap, it is one, and the directory is read
\* once.
OneBitmap ==
  /\ \A d \in Dirs : \A e \in EntriesOf(d) :
       /\ e.kind = "bitmap" => d = "root"
       /\ e.kind = "dir" => e.to # "root"
  /\ \A i, j \in DOMAIN disk.dir["root"] :
       disk.dir["root"][i].kind = "bitmap" /\ disk.dir["root"][j].kind = "bitmap"
         => i = j

\* Every way out of exfat_mount() and exfat_unmount() has closed the device
\* and freed every node and every block that was allocated so far, bitmaps
\* that a second bitmap entry replaced (node.c:484) left aside.
Released ==
  pc = "idle" => /\ ef.held = {} /\ ef.chunk = <<>> /\ DOMAIN node = {}
                 /\ OneBitmap => ef.orphans = {}

\* A volume opened read-only is never written to, whatever is found wrong
\* with it (exfatfsck.8: "don't write anything to the file system").
ReadOnlyKeeps == [][ef.ro # 0 => disk' = disk]_vars

\* A session that changed the bitmap and died before writing it leaves the
\* volume marked as mounted, so the next mount warns.
LostIsFlagged == NoTransferFailed /\ pc = "idle" /\ lost => disk.mounted

\* Every entry exfatfsck counts as fixed is right on the device when it is
\* done, if every directory could be read and written and the tool was not
\* killed.
FixedIsWritten ==
  pc = "idle" /\ tool.name # "none" /\ ~aborted /\ NoTransferFailed =>
    \A c \in claimed :
      LET e == disk.dir[c[1]][c[2]] IN SumRight(e) /\ e.kind # "unknown"

\* The directories that are reached from the root.
Reached ==
  LET level[k \in 0 .. Cardinality(Dirs)] ==
        IF k = 0 THEN {"root"}
        ELSE level[k - 1] \cup {e.to : e \in {x \in UNION {EntriesOf(d) : d \in level[k - 1]} :
                                                x.kind = "dir"}}
  IN level[Cardinality(Dirs)]

\* When exfatfsck ends with status 0 ("errors were not found", exfatfsck.8)
\* there are none, in no directory, even if transfers failed.
CleanIsSound ==
  pc = "idle" /\ tool.name = "fsck" /\ ~found /\ Ordinary =>
    /\ disk.bad = {} /\ disk.rootmarked
    /\ \A d \in Reached : \A e \in EntriesOf(d) :
         /\ e.kind \notin {"broken", "unknown", "badtable"}
         /\ IsFile(e) => e.sum /\ e.fit /\ e.marked

\* A directory contains itself, through others or because its name is none
\* to exfat_lookup().
Endless ==
  \E D \in SUBSET Dirs \ {{}} : \A d \in D : \E e \in EntriesOf(d) :
    e.kind = "dir" /\ (e.to \in D \/ Comps[e.name] = <<>>)

\* A tool that was started ends, however the volume is damaged, unless a
\* directory contains itself: then dirck() uses up the stack.
Ends ==
  pc # "idle" /\ tool.name # "fuse" ~>
    pc \in {"idle", "bug"} \/ (pc = "overflow" /\ Endless)
=============================================================================
