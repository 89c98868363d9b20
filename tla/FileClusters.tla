---------------------------- MODULE FileClusters ----------------------------
(***************************************************************************)
(* How libexfat keeps the bytes of a file in clusters: allocation in the   *)
(* bitmap, the FAT chain, growing, shrinking and zeroing a file            *)
(* (libexfat/cluster.c), and reading and writing it (exfat_generic_pread   *)
(* and exfat_generic_pwrite, libexfat/io.c).                               *)
(*                                                                         *)
(* The FUSE daemon is started with "-s" (fuse/main.c), so one call runs at *)
(* a time.  A call is executed in steps, one for each loop iteration that  *)
(* touches the device, because every device access may fail and what it    *)
(* leaves behind is what the next call finds.  exfat_bug() aborts the      *)
(* daemon: pc = "bug".                                                     *)
(***************************************************************************)
EXTENDS Integers, Sequences

CONSTANTS
  Nodes,        \* nodes (files and directories) whose data is modelled
  Dirs,         \* those of Nodes that have EXFAT_ATTRIB_DIR
  NClusters,    \* cluster_count of the super block, the bitmap's size too
  ClusterSize,  \* bytes in a cluster
  MaxSize,      \* bound: largest size and offset a call asks for
  UMax,         \* largest uint32_t (2^32 - 1 in the code)
  Reserved,     \* clusters of the system files (bitmap, upcase table, ...)
  Layouts,      \* the files on the volume when it is mounted
  FatGarbage,   \* what unused FAT entries may hold at mount
  Vals,         \* byte values that callers write
  Buffers,      \* the buffers passed to exfat_generic_pwrite
  ReadSizes,    \* the sizes passed to exfat_generic_pread
  FaultKinds,   \* device accesses that may fail
  MaxFaults,    \* bound: number of failures
  NoAtime       \* mounted read-only or with the noatime option

-----------------------------------------------------------------------------
(* Cluster numbers (exfatfs.h). *)

Word == 0 .. UMax
Clusters == 2 .. NClusters + 1

EXFAT_CLUSTER_FREE == 0
EXFAT_CLUSTER_BAD == UMax - 8
EXFAT_CLUSTER_END == UMax

CLUSTER_INVALID(c) == c \notin Clusters

\* uint32_t subtraction and increment
Minus(a, b) == IF a >= b THEN a - b ELSE a - b + UMax + 1
Succ(c) == IF c = UMax THEN 0 ELSE c + 1

\* Size in bytes to size in clusters, rounded upwards.
bytes2clusters(bytes) == (bytes + ClusterSize - 1) \div ClusterSize

\* What a read far beyond the FAT leaves in `next': some other data, or, as
\* pread() returns 0 at the end of the device, what the stack held.
AnyCluster ==
  Clusters \cup {EXFAT_CLUSTER_FREE, EXFAT_CLUSTER_BAD, EXFAT_CLUSTER_END}

\* A layout gives each file's first cluster and size; the file is contiguous.
LayoutRun(f) == [i \in 1 .. bytes2clusters(f.size) |-> f.first + i - 1]
LayoutClusters(f) == f.first .. f.first + bytes2clusters(f.size) - 1

ASSUME ClusterAssumption ==
  /\ NClusters \in Nat \ {0}
  /\ ClusterSize \in Nat \ {0}
  /\ UMax \in Nat
  /\ NClusters + 1 < UMax - 8
  /\ MaxSize \in Nat

ASSUME VolumeAssumption ==
  /\ Dirs \subseteq Nodes
  /\ Reserved \subseteq Clusters
  /\ FatGarbage \subseteq AnyCluster
  /\ \A b \in Buffers : b \in Seq(Vals)
  /\ ReadSizes \subseteq Nat
  /\ MaxFaults \in Nat
  /\ NoAtime \in BOOLEAN

ASSUME LayoutAssumption ==
  \A l \in Layouts :
    /\ l \in [Nodes -> [first : Word, size : Nat]]
    /\ \A n \in Nodes :
         /\ l[n].first = EXFAT_CLUSTER_FREE <=> l[n].size = 0
         /\ l[n].size # 0 => LayoutClusters(l[n]) \subseteq Clusters \ Reserved
         /\ \A m \in Nodes \ {n} :
              l[n].size # 0 /\ l[m].size # 0 =>
                LayoutClusters(l[n]) \cap LayoutClusters(l[m]) = {}

-----------------------------------------------------------------------------
VARIABLES
  node,    \* struct exfat_node: start_cluster, size, the flags, the cursor
  cmap,    \* clusters whose bit is set in ef->cmap.chunk
  fat,     \* the FAT on the device
  data,    \* the cluster heap on the device
  pc,      \* where the call being executed is
  op,      \* its arguments, its local variables and its result
  (* history *)
  chain,   \* clusters handed out to each file and linked, in file order
  tail,    \* clusters the call has allocated and not linked yet, or has
           \* unlinked and not freed yet
  pre,     \* the file's bytes and the bitmap when the call began
  faults,  \* device failures so far
  sane     \* no call was begun after a failure, and no contiguous file was
           \* given the cluster before its last one

disk == <<cmap, fat, data>>
history == <<chain, tail, pre, faults, sane>>
vars == <<node, disk, pc, op, history>>

NoOp ==
  [kind |-> "none", node |-> "none", off |-> 0, buf |-> <<>>, len |-> 0,
   size |-> 0, erase |-> FALSE, then |-> "done", count |-> 0, i |-> 0,
   ret |-> "idle", cluster |-> 0, next |-> 0, current |-> 0,
   difference |-> 0, allocated |-> 0, rollback |-> FALSE, boundary |-> 0,
   loffset |-> 0, remainder |-> 0, rc |-> "none", out |-> <<>>]

NoPre == [content |-> <<>>, cmap |-> {}]

\* cluster number k (from 0) of file n, found as a reader of the volume does
ClusterAt(n, k) ==
  LET at[j \in Nat] ==
        IF j = 0 THEN node[n].start_cluster
        ELSE LET c == at[j - 1]
             IN  IF c \notin Clusters THEN EXFAT_CLUSTER_BAD
                 ELSE IF node[n].is_contiguous THEN c + 1 ELSE fat[c]
  IN  at[k]

\* the bytes of file n
Content(n) ==
  [k \in 1 .. node[n].size |->
     LET c == ClusterAt(n, (k - 1) \div ClusterSize)
     IN  IF c \in Clusters THEN data[c][(k - 1) % ClusterSize] ELSE "none"]

Init ==
  \E l \in Layouts, g \in FatGarbage :
    /\ node = [n \in Nodes |->
                 [start_cluster |-> l[n].first, size |-> l[n].size,
                  is_contiguous |-> l[n].size # 0, is_dirty |-> FALSE,
                  fptr_index |-> 0, fptr_cluster |-> l[n].first]]
    /\ cmap = Reserved \cup UNION {LayoutClusters(l[n]) :
                                     n \in {m \in Nodes : l[m].size # 0}}
    /\ fat = [c \in Clusters |-> g]
    /\ data = [c \in Clusters |-> [j \in 0 .. ClusterSize - 1 |-> "junk"]]
    /\ pc = "idle" /\ op = NoOp
    /\ chain = [n \in Nodes |-> LayoutRun(l[n])]
    /\ tail = <<>> /\ pre = NoPre /\ faults = 0 /\ sane = TRUE

-----------------------------------------------------------------------------
(* Device accesses and the bitmap. *)

CanFail(kind) == kind \in FaultKinds /\ faults < MaxFaults

\* The outcomes of exfat_next_cluster(node, cluster), cluster >= 2, with the
\* number of failures each took.
NextCluster(n, cluster) ==
  IF node[n].is_contiguous
  THEN {[cluster |-> Succ(cluster), fault |-> 0]}
  ELSE {[cluster |-> c, fault |-> 0] :
          c \in IF cluster \in Clusters THEN {fat[cluster]} ELSE AnyCluster}
       \cup {[cluster |-> EXFAT_CLUSTER_BAD, fault |-> 1] :
               f \in {1} \cap {IF CanFail("fatRead") THEN 1 ELSE 0}}

\* Mutant: the link is not written.
SetNextSkipped(n, current, next) == UNCHANGED fat

\* set_next_cluster(node->is_contiguous, current, next)
SetNext(n, current, next) ==
  fat' = IF node[n].is_contiguous THEN fat ELSE [fat EXCEPT ![current] = next]

\* Mutant: the bit before that of the cluster is tested.
FirstClearShifted(c, start, end) ==
  LET clear == {bit \in start .. end - 1 : bit + 1 \notin cmap}
  IN  IF clear = {} THEN c = EXFAT_CLUSTER_END
      ELSE c - 2 \in clear /\ \A bit \in clear : c - 2 <= bit

\* find_bit_and_set(start, end): c is the first clear bit, END if there is none
FirstClear(c, start, end) ==
  LET clear == {bit \in start .. end - 1 : bit + 2 \notin cmap}
  IN  IF clear = {} THEN c = EXFAT_CLUSTER_END
      ELSE c - 2 \in clear /\ \A bit \in clear : c - 2 <= bit

\* allocate_cluster(hint) returns c: the bits from the hint upwards, then the
\* ones below it
Allocated(c, hint) ==
  LET h == IF Minus(hint, 2) >= NClusters THEN 0 ELSE Minus(hint, 2)
  IN  IF FirstClear(EXFAT_CLUSTER_END, h, NClusters)
      THEN FirstClear(c, 0, h)
      ELSE FirstClear(c, h, NClusters)

\* Mutants: the bit stays set; the next cluster's bit is cleared.
FreeNothing(c) == UNCHANGED cmap
FreeNext(c) == cmap' = cmap \ {c + 1}

\* free_cluster(cluster)
free_cluster(c) == cmap' = cmap \ {c}

\* Mutant: the offset is that of the next cluster.
OverwriteNext(c, bytes) ==
  data' = [data EXCEPT ![c + 1] = [j \in 0 .. ClusterSize - 1 |->
             IF j \in DOMAIN bytes THEN bytes[j] ELSE data[c][j]]]

\* the cells DOMAIN bytes of cluster c are written
Overwrite(c, bytes) ==
  data' = [data EXCEPT ![c] = [j \in 0 .. ClusterSize - 1 |->
             IF j \in DOMAIN bytes THEN bytes[j] ELSE data[c][j]]]

Zeros(lo, hi) == [j \in lo .. hi - 1 |-> "zero"]

Lesser(a1, a2) == IF a1 < a2 THEN a1 ELSE a2

-----------------------------------------------------------------------------
(* Calls, returns, and the abort of exfat_bug(). *)

\* A call is made when no other one is running.
Begin(n, args, label) ==
  /\ pc = "idle"
  /\ pc' = label
  /\ op' = [args EXCEPT !.node = n]
  /\ pre' = [content |-> Content(n), cmap |-> cmap]
  /\ sane' = (sane /\ faults = 0)
  /\ UNCHANGED <<node, disk, chain, tail, faults>>

\* as fuse_exfat_truncate, the directory code and exfat_cleanup_node call it
exfat_truncate(n, size) ==
  Begin(n, [NoOp EXCEPT !.kind = "truncate", !.size = size, !.erase = TRUE],
        "truncate")

exfat_generic_pwrite(n, off, buf) ==
  Begin(n, [NoOp EXCEPT !.kind = "pwrite", !.off = off, !.buf = buf,
                        !.len = Len(buf)], "pwrite")

exfat_generic_pread(n, off, len) ==
  Begin(n, [NoOp EXCEPT !.kind = "pread", !.off = off, !.len = len], "pread")

\* grow_file ignores the result of the shrink_file it rolls back with
Return(rc) ==
  /\ pc' = "done"
  /\ op' = [op EXCEPT !.rc = IF op.rollback THEN "ENOSPC" ELSE rc]

Goto(label) == pc' = label /\ UNCHANGED op

exfat_bug(site) == pc' = "bug" /\ op' = [op EXCEPT !.rc = site]

Done ==
  /\ pc = "done" /\ pc' = "idle" /\ op' = NoOp /\ pre' = NoPre
  /\ UNCHANGED <<node, disk, chain, tail, faults, sane>>

Aborted == pc = "bug" /\ UNCHANGED vars

-----------------------------------------------------------------------------
(* exfat_advance_cluster(node, count): the cached cursor moves forward, or  *)
(* from the start of the file when it is past count.  Each caller returns   *)
(* EIO if the cluster it is given is invalid; otherwise control goes to ret *)
(* with the cluster in op.cluster.                                          *)

CallAdvance(o, count, ret) ==
  LET n == op.node
      restart == node[n].fptr_index > count
  IN  /\ node' = IF restart
                 THEN [node EXCEPT ![n].fptr_index = 0,
                                   ![n].fptr_cluster = node[n].start_cluster]
                 ELSE node
      /\ op' = [o EXCEPT !.count = count, !.ret = ret,
                         !.i = IF restart THEN 0 ELSE node[n].fptr_index]
      /\ pc' = "advance"
      /\ UNCHANGED <<disk, history>>

AdvanceLoop ==
  LET n == op.node
  IN  /\ pc = "advance" /\ op.i < op.count
      /\ node[n].fptr_cluster >= 2
      /\ \E r \in NextCluster(n, node[n].fptr_cluster) :
           /\ faults' = faults + r.fault
           /\ IF CLUSTER_INVALID(r.cluster)
              THEN /\ node' = [node EXCEPT ![n].fptr_cluster = r.cluster,
                                           ![n].fptr_index = op.count]
                   /\ Return("EIO")
              ELSE /\ node' = [node EXCEPT ![n].fptr_cluster = r.cluster]
                   /\ op' = [op EXCEPT !.i = @ + 1]
                   /\ UNCHANGED pc
      /\ UNCHANGED <<disk, chain, tail, pre, sane>>

\* Mutant: the index of the cursor is not stored.
AdvanceEndNoIndex ==
  LET cluster == node[op.node].fptr_cluster
  IN  /\ pc = "advance" /\ op.i >= op.count
      /\ IF CLUSTER_INVALID(cluster)
         THEN Return("EIO")
         ELSE pc' = op.ret /\ op' = [op EXCEPT !.cluster = cluster]
      /\ UNCHANGED <<node, disk, history>>

AdvanceEnd ==
  LET cluster == node[op.node].fptr_cluster
  IN  /\ pc = "advance" /\ op.i >= op.count
      /\ node' = [node EXCEPT ![op.node].fptr_index = op.count]
      /\ IF CLUSTER_INVALID(cluster)
         THEN Return("EIO")
         ELSE pc' = op.ret /\ op' = [op EXCEPT !.cluster = cluster]
      /\ UNCHANGED <<disk, history>>

-----------------------------------------------------------------------------
(* exfat_truncate: nothing to do, grow_file, shrink_file, or neither. *)

Current == bytes2clusters(node[op.node].size)
Target == bytes2clusters(op.size)

\* the number of clusters does not change
TruncateWithin ==
  /\ pc = "truncate" /\ Current = Target
  /\ IF node[op.node].size # op.size THEN Goto("erase")
     ELSE IF op.then = "done" THEN Return("ok") ELSE Goto(op.then)
  /\ UNCHANGED <<node, disk, history>>

TruncateShrink ==
  /\ pc = "truncate" /\ Current > Target
  /\ pc' = "shrink"
  /\ op' = [op EXCEPT !.current = Current, !.difference = Current - Target]
  /\ UNCHANGED <<node, disk, history>>

-----------------------------------------------------------------------------
(* grow_file(node, current, difference).  In its loop op.cluster is         *)
(* `previous', the last cluster of the file.                                *)

GrowOp == [op EXCEPT !.current = Current, !.difference = Target - Current]

\* The file has clusters: look for the last one.
GrowStart ==
  /\ pc = "truncate" /\ Current < Target
  /\ node[op.node].start_cluster # EXFAT_CLUSTER_FREE
  /\ CallAdvance(GrowOp, Minus(Current, 1), "growLoop")

\* The file has none: allocate the first one.
GrowEmpty ==
  LET n == op.node
  IN  /\ pc = "truncate" /\ Current < Target
      /\ node[n].start_cluster = EXFAT_CLUSTER_FREE
      /\ node[n].fptr_index = 0
      /\ \/ \E c \in Clusters :
              /\ Allocated(c, 0)
              /\ cmap' = cmap \cup {c}
              /\ node' = [node EXCEPT ![n].start_cluster = c,
                                      ![n].fptr_cluster = c,
                                      ![n].is_contiguous = TRUE]
              /\ op' = [GrowOp EXCEPT !.cluster = c, !.allocated = 1]
              /\ pc' = "growLoop"
              /\ chain' = [chain EXCEPT ![n] = <<c>>]
         \/ /\ Allocated(EXFAT_CLUSTER_END, 0)
            /\ Return("ENOSPC")
            /\ UNCHANGED <<node, cmap, chain>>
      /\ UNCHANGED <<fat, data, tail, pre, faults, sane>>

\* Allocate the next cluster.  A contiguous file, unless next = previous - 1,
\* is first given explicit links.
GrowAllocate ==
  LET n == op.node
      links(c) == c # op.cluster - 1 /\ node[n].is_contiguous
  IN  /\ pc = "growLoop" /\ op.allocated < op.difference
      /\ \E c \in Clusters :
           /\ Allocated(c, op.cluster + 1)
           /\ cmap' = cmap \cup {c}
           /\ tail' = <<c>>
           /\ op' = [op EXCEPT !.next = c, !.i = node[n].start_cluster]
           /\ pc' = IF links(c) THEN "growFat" ELSE "growLink"
           /\ sane' = (sane /\ (links(c) \/ ~node[n].is_contiguous))
      /\ UNCHANGED <<node, fat, data, chain, pre, faults>>

\* Mutant: as much is given back as was asked for.
GrowNoSpaceAll ==
  /\ pc = "growLoop" /\ op.allocated < op.difference
  /\ Allocated(EXFAT_CLUSTER_END, op.cluster + 1)
  /\ IF op.allocated = 0
     THEN Return("ENOSPC")
     ELSE /\ op' = [op EXCEPT !.current = @ + op.allocated, !.rollback = TRUE]
          /\ pc' = "shrink"
  /\ UNCHANGED <<node, disk, history>>

\* No free cluster: give back what this call allocated.
GrowNoSpace ==
  /\ pc = "growLoop" /\ op.allocated < op.difference
  /\ Allocated(EXFAT_CLUSTER_END, op.cluster + 1)
  /\ IF op.allocated = 0
     THEN Return("ENOSPC")
     ELSE /\ op' = [op EXCEPT !.current = @ + op.allocated,
                              !.difference = op.allocated, !.rollback = TRUE]
          /\ pc' = "shrink"
  /\ UNCHANGED <<node, disk, history>>

\* Mutant: the loop variable is not incremented.
GrowFatStuck ==
  /\ pc = "growFat" /\ op.i < op.cluster
  /\ fat' = [fat EXCEPT ![op.i] = op.i + 1]
  /\ UNCHANGED <<op, pc, node, cmap, data, history>>

\* make_noncontiguous(start_cluster, previous), one FAT entry at a time
GrowFat ==
  /\ pc = "growFat" /\ op.i < op.cluster
  /\ fat' = [fat EXCEPT ![op.i] = op.i + 1]
  /\ op' = [op EXCEPT !.i = @ + 1]
  /\ UNCHANGED <<pc, node, cmap, data, history>>

\* Mutant: the loop may end one entry early.
GrowFatEndEarly ==
  /\ pc = "growFat" /\ op.i + 1 >= op.cluster
  /\ node' = [node EXCEPT ![op.node].is_contiguous = FALSE,
                          ![op.node].is_dirty = TRUE]
  /\ Goto("growLink")
  /\ UNCHANGED <<disk, history>>

GrowFatEnd ==
  /\ pc = "growFat" /\ op.i >= op.cluster
  /\ node' = [node EXCEPT ![op.node].is_contiguous = FALSE,
                          ![op.node].is_dirty = TRUE]
  /\ Goto("growLink")
  /\ UNCHANGED <<disk, history>>

GrowLink ==
  /\ pc = "growLink"
  /\ SetNext(op.node, op.cluster, op.next)
  /\ op' = [op EXCEPT !.cluster = op.next, !.allocated = @ + 1]
  /\ pc' = "growLoop"
  /\ chain' = [chain EXCEPT ![op.node] = Append(@, op.next)]
  /\ tail' = <<>>
  /\ UNCHANGED <<node, cmap, data, pre, faults, sane>>

\* Mutant: the end of the chain is not marked.
GrowEndUnmarked ==
  /\ pc = "growLoop" /\ op.allocated >= op.difference
  /\ Goto("erase")
  /\ UNCHANGED <<node, disk, history>>

GrowEnd ==
  /\ pc = "growLoop" /\ op.allocated >= op.difference
  /\ SetNext(op.node, op.cluster, EXFAT_CLUSTER_END)
  /\ Goto("erase")
  /\ UNCHANGED <<node, cmap, data, history>>

-----------------------------------------------------------------------------
(* shrink_file(node, current, difference); while it frees clusters          *)
(* op.cluster is `previous', the next one to be freed.                      *)

BadShrink ==
  \/ op.difference = 0
  \/ node[op.node].start_cluster = EXFAT_CLUSTER_FREE
  \/ op.current < op.difference

\* Mutant: a file of which nothing stays is treated as one that is cropped.
ShrinkStartNonStrict ==
  /\ pc = "shrink" /\ ~BadShrink /\ op.current >= op.difference
  /\ CallAdvance(op, op.current - op.difference - 1, "shrinkCrop")

\* Part of the file stays: look for its last cluster.
ShrinkStart ==
  /\ pc = "shrink" /\ ~BadShrink /\ op.current > op.difference
  /\ CallAdvance(op, op.current - op.difference - 1, "shrinkCrop")

\* Mutant: the cursor keeps its index.
ShrinkAllKeepsIndex ==
  LET n == op.node
  IN  /\ pc = "shrink" /\ ~BadShrink /\ op.current = op.difference
      /\ node' = [node EXCEPT ![n].start_cluster = EXFAT_CLUSTER_FREE,
                              ![n].is_dirty = TRUE,
                              ![n].fptr_cluster = EXFAT_CLUSTER_FREE]
      /\ op' = [op EXCEPT !.cluster = node[n].start_cluster]
      /\ pc' = "shrinkFree"
      /\ tail' = chain[n]
      /\ chain' = [chain EXCEPT ![n] = <<>>]
      /\ UNCHANGED <<disk, pre, faults, sane>>

\* Nothing of the file stays.
ShrinkAll ==
  LET n == op.node
  IN  /\ pc = "shrink" /\ ~BadShrink /\ op.current = op.difference
      /\ node' = [node EXCEPT ![n].start_cluster = EXFAT_CLUSTER_FREE,
                              ![n].is_dirty = TRUE,
                              ![n].fptr_index = 0,
                              ![n].fptr_cluster = EXFAT_CLUSTER_FREE]
      /\ op' = [op EXCEPT !.cluster = node[n].start_cluster]
      /\ pc' = "shrinkFree"
      /\ tail' = chain[n]
      /\ chain' = [chain EXCEPT ![n] = <<>>]
      /\ UNCHANGED <<disk, pre, faults, sane>>

ShrinkCrop ==
  LET n == op.node
      keep == Lesser(op.current - op.difference, Len(chain[n]))
  IN  /\ pc = "shrinkCrop"
      /\ \E r \in NextCluster(n, op.cluster) :
           /\ faults' = faults + r.fault
           /\ op' = [op EXCEPT !.cluster = r.cluster]
      /\ SetNext(n, op.cluster, EXFAT_CLUSTER_END)
      /\ node' = [node EXCEPT ![n].fptr_index = 0,
                              ![n].fptr_cluster = node[n].start_cluster]
      /\ pc' = "shrinkFree"
      /\ chain' = [chain EXCEPT ![n] = SubSeq(@, 1, keep)]
      /\ tail' = SubSeq(chain[n], keep + 1, Len(chain[n]))
      /\ UNCHANGED <<cmap, data, pre, sane>>

ShrinkFree ==
  /\ pc = "shrinkFree" /\ op.difference > 0 /\ ~CLUSTER_INVALID(op.cluster)
  /\ \E r \in NextCluster(op.node, op.cluster) :
       /\ faults' = faults + r.fault
       /\ op' = [op EXCEPT !.cluster = r.cluster, !.difference = @ - 1]
  /\ SetNext(op.node, op.cluster, EXFAT_CLUSTER_FREE)
  /\ free_cluster(op.cluster)
  /\ tail' = SubSeq(tail, 2, Len(tail))
  /\ UNCHANGED <<pc, node, data, chain, pre, sane>>

ShrinkInvalid ==
  /\ pc = "shrinkFree" /\ op.difference > 0 /\ CLUSTER_INVALID(op.cluster)
  /\ Return("EIO")
  /\ tail' = <<>>
  /\ UNCHANGED <<node, disk, chain, pre, faults, sane>>

ShrinkEnd ==
  /\ pc = "shrinkFree" /\ op.difference = 0
  /\ IF op.rollback THEN Return("ENOSPC") ELSE Goto("erase")
  /\ tail' = <<>>
  /\ UNCHANGED <<node, disk, chain, pre, faults, sane>>

-----------------------------------------------------------------------------
(* erase_range(node, node->size, size) and the end of exfat_truncate.  A    *)
(* caller that continues starts with fresh local variables.                 *)

Truncated ==
  /\ node' = [node EXCEPT ![op.node].size = op.size,
                          ![op.node].is_dirty = TRUE]
  /\ IF op.then = "done"
     THEN Return("ok")
     ELSE /\ pc' = op.then
          /\ op' = [NoOp EXCEPT !.kind = op.kind, !.node = op.node,
                      !.off = op.off, !.buf = op.buf, !.len = op.len]
  /\ UNCHANGED <<disk, history>>

EraseStart ==
  LET begin == node[op.node].size
      index == begin \div ClusterSize
  IN  /\ pc = "erase"
      /\ IF op.erase /\ begin < op.size
         THEN CallAdvance([op EXCEPT !.boundary = (index + 1) * ClusterSize],
                          index, "eraseFirst")
         ELSE Truncated

\* from the old end of the file to the next cluster boundary
EraseFirst ==
  LET begin == node[op.node].size
      lo == begin % ClusterSize
  IN  /\ pc = "eraseFirst"
      /\ Overwrite(op.cluster,
                   Zeros(lo, lo + Lesser(op.boundary, op.size) - begin))
      /\ Goto("eraseLoop")
      /\ UNCHANGED <<node, cmap, fat, history>>

\* whole clusters
EraseNext ==
  /\ pc = "eraseLoop" /\ op.boundary < op.size
  /\ \E r \in NextCluster(op.node, op.cluster) :
       /\ faults' = faults + r.fault
       /\ IF CLUSTER_INVALID(r.cluster)
          THEN exfat_bug("invalid cluster after allocation") /\ UNCHANGED data
          ELSE /\ Overwrite(r.cluster, Zeros(0, ClusterSize))
               /\ op' = [op EXCEPT !.cluster = r.cluster,
                                   !.boundary = @ + ClusterSize]
               /\ UNCHANGED pc
  /\ UNCHANGED <<node, cmap, fat, chain, tail, pre, sane>>

EraseEnd == pc = "eraseLoop" /\ op.boundary >= op.size /\ Truncated

-----------------------------------------------------------------------------
(* exfat_generic_pwrite: the gap up to the offset is zeroed, then the file  *)
(* is extended over the bytes about to be written, then they are written.   *)

SubTruncate(size, erase, then) ==
  /\ op' = [op EXCEPT !.size = size, !.erase = erase, !.then = then]
  /\ pc' = "truncate"

\* Mutant: the gap is not zeroed.
WriteGapUnerased ==
  /\ pc = "pwrite"
  /\ IF op.off > node[op.node].size
     THEN SubTruncate(op.off, FALSE, "pwriteExtend")
     ELSE Goto("pwriteExtend")
  /\ UNCHANGED <<node, disk, history>>

WriteGap ==
  /\ pc = "pwrite"
  /\ IF op.off > node[op.node].size
     THEN SubTruncate(op.off, TRUE, "pwriteExtend")
     ELSE Goto("pwriteExtend")
  /\ UNCHANGED <<node, disk, history>>

WriteExtend ==
  /\ pc = "pwriteExtend"
  /\ IF op.off + op.len > node[op.node].size
     THEN SubTruncate(op.off + op.len, FALSE, "pwriteData")
     ELSE Goto("pwriteData")
  /\ UNCHANGED <<node, disk, history>>

(* The loop over clusters, in exfat_generic_pwrite and exfat_generic_pread. *)

IoStart(remainder, loop) ==
  IF remainder = 0
  THEN Return("ok") /\ UNCHANGED <<node, disk, history>>
  ELSE CallAdvance([op EXCEPT !.loffset = op.off % ClusterSize,
                              !.remainder = remainder],
                   op.off \div ClusterSize, loop)

WriteStart == pc = "pwriteData" /\ IoStart(op.len, "pwriteLoop")

ReadStart ==
  LET size == node[op.node].size
  IN  /\ pc = "pread"
      /\ IoStart(IF op.off >= size THEN 0 ELSE Lesser(op.len, size - op.off),
                 "preadLoop")

Chunk == Lesser(ClusterSize - op.loffset, op.remainder)

\* the bytes of the buffer that go to the current cluster
Piece ==
  [j \in op.loffset .. op.loffset + Chunk - 1 |->
     op.buf[(op.len - op.remainder) + j - op.loffset + 1]]

IoLoop ==
  /\ pc \in {"pwriteLoop", "preadLoop"} /\ op.remainder > 0
  /\ ~CLUSTER_INVALID(op.cluster)
  /\ IF pc = "pwriteLoop"
     THEN Overwrite(op.cluster, Piece)
     ELSE UNCHANGED data
  /\ \E r \in NextCluster(op.node, op.cluster) :
       /\ faults' = faults + r.fault
       /\ op' = [op EXCEPT
            !.cluster = r.cluster, !.loffset = 0, !.remainder = @ - Chunk,
            !.out = IF pc = "pwriteLoop" THEN @
                    ELSE @ \o [j \in 1 .. Chunk |->
                                 data[op.cluster][op.loffset + j - 1]]]
  /\ UNCHANGED <<pc, node, cmap, fat, chain, tail, pre, sane>>

IoInvalid ==
  /\ pc \in {"pwriteLoop", "preadLoop"} /\ op.remainder > 0
  /\ CLUSTER_INVALID(op.cluster)
  /\ Return("EIO")
  /\ UNCHANGED <<node, disk, history>>

\* mtime or atime is set, not for a directory; atime not if NoAtime
IoEnd ==
  /\ pc \in {"pwriteLoop", "preadLoop"} /\ op.remainder = 0
  /\ node' = IF op.node \in Dirs \/ (pc = "preadLoop" /\ NoAtime) THEN node
             ELSE [node EXCEPT ![op.node].is_dirty = TRUE]
  /\ Return("ok")
  /\ UNCHANGED <<disk, history>>

-----------------------------------------------------------------------------
(* Failures: a device access returns -1 and the call returns EIO, leaving   *)
(* everything as it is.  (Failed FAT reads are outcomes of NextCluster.)    *)

WritesFat ==
  \/ pc = "growFat" /\ op.i < op.cluster
  \/ /\ \/ pc \in {"growLink", "shrinkCrop"}
        \/ pc = "growLoop" /\ op.allocated >= op.difference
        \/ /\ pc = "shrinkFree" /\ op.difference > 0
           /\ ~CLUSTER_INVALID(op.cluster)
     /\ ~node[op.node].is_contiguous

WritesData ==
  \/ pc = "eraseFirst"
  \/ /\ pc = "eraseLoop" /\ op.boundary < op.size
     /\ \E r \in NextCluster(op.node, op.cluster) : ~CLUSTER_INVALID(r.cluster)
  \/ pc = "pwriteLoop" /\ op.remainder > 0 /\ ~CLUSTER_INVALID(op.cluster)

ReadsData ==
  pc = "preadLoop" /\ op.remainder > 0 /\ ~CLUSTER_INVALID(op.cluster)

DeviceFails ==
  /\ \/ WritesFat /\ CanFail("fatWrite")
     \/ WritesData /\ CanFail("dataWrite")
     \/ ReadsData /\ CanFail("dataRead")
  /\ faults' = faults + 1
  /\ Return("EIO")
  /\ tail' = <<>>
  /\ UNCHANGED <<node, disk, chain, pre, sane>>

(* The assertions of exfat_next_cluster, grow_file and shrink_file. *)

BadCluster ==
  pc = "advance" /\ op.i < op.count /\ node[op.node].fptr_cluster < 2

BadPointer ==
  /\ pc = "truncate" /\ Current < Target
  /\ node[op.node].start_cluster = EXFAT_CLUSTER_FREE
  /\ node[op.node].fptr_index # 0

AssertionFails ==
  /\ BadCluster \/ BadPointer \/ (pc = "shrink" /\ BadShrink)
  /\ exfat_bug(pc)
  /\ UNCHANGED <<node, disk, history>>

-----------------------------------------------------------------------------
Call ==
  \E n \in Nodes :
    \/ \E size \in 0 .. MaxSize : exfat_truncate(n, size)
    \/ \E off \in 0 .. MaxSize, buf \in Buffers :
         off + Len(buf) <= MaxSize /\ exfat_generic_pwrite(n, off, buf)
    \/ \E off \in 0 .. MaxSize, len \in ReadSizes :
         exfat_generic_pread(n, off, len)

Advance == AdvanceLoop \/ AdvanceEnd
Truncate == TruncateWithin \/ TruncateShrink
Grow == \/ GrowStart \/ GrowEmpty \/ GrowAllocate \/ GrowNoSpace
        \/ GrowFat \/ GrowFatEnd \/ GrowLink \/ GrowEnd
Shrink == \/ ShrinkStart \/ ShrinkAll \/ ShrinkCrop
          \/ ShrinkFree \/ ShrinkInvalid \/ ShrinkEnd
Erase == EraseStart \/ EraseFirst \/ EraseNext \/ EraseEnd
Io == \/ WriteGap \/ WriteExtend \/ WriteStart \/ ReadStart
      \/ IoLoop \/ IoInvalid \/ IoEnd

\* a step of the call being executed
Step == \/ Advance \/ Truncate \/ Grow \/ Shrink \/ Erase \/ Io
        \/ DeviceFails \/ AssertionFails \/ Done

Next == Call \/ Step \/ Aborted

Spec == Init /\ [][Next]_vars

\* The daemon keeps running: a call that has begun is carried on.
FairSpec == Spec /\ WF_vars(Step)

-----------------------------------------------------------------------------
(* Properties *)

Members(s) == {s[i] : i \in DOMAIN s}

Labels ==
  {"idle", "truncate", "advance", "growLoop", "growFat", "growLink", "shrink",
   "shrinkCrop", "shrinkFree", "erase", "eraseFirst", "eraseLoop", "pwrite",
   "pwriteExtend", "pwriteData", "pwriteLoop", "pread", "preadLoop", "done",
   "bug"}

Cells == Vals \cup {"junk", "zero"}

\* "none" while the call runs, and the label or message of an assertion
Results ==
  {"none", "ok", "EIO", "ENOSPC", "advance", "truncate", "shrink",
   "invalid cluster after allocation"}

NodeType ==
  [start_cluster : Clusters \cup {EXFAT_CLUSTER_FREE}, size : Nat,
   is_contiguous : BOOLEAN, is_dirty : BOOLEAN,
   fptr_index : Nat, fptr_cluster : Word]

OpType ==
  [kind : {"none", "truncate", "pwrite", "pread"}, node : Nodes \cup {"none"},
   off : Nat, buf : Seq(Vals), len : Nat, size : Nat, erase : BOOLEAN,
   then : {"done", "pwriteExtend", "pwriteData"}, count : Nat, i : Nat,
   ret : {"idle", "growLoop", "shrinkCrop", "eraseFirst", "pwriteLoop",
          "preadLoop"},
   cluster : Word, next : Word, current : Nat, difference : Nat,
   allocated : Nat, rollback : BOOLEAN, boundary : Nat,
   loffset : 0 .. ClusterSize - 1, remainder : Nat, rc : Results,
   out : Seq(Cells)]

\* the labels that only a write passes
WriteLabels == {"pwrite", "pwriteExtend", "pwriteData", "pwriteLoop"}

\* Every variable has its type, a call in progress is on a node, the clusters
\* it is about to use exist, and a write stays within its buffer.
TypeOK ==
  /\ node \in [Nodes -> NodeType]
  /\ cmap \subseteq Clusters
  /\ fat \in [Clusters -> Word]
  /\ data \in [Clusters -> [0 .. ClusterSize - 1 -> Cells]]
  /\ pc \in Labels
  /\ op \in OpType
  /\ pc # "idle" => op.node \in Nodes
  /\ pc = "advance" => op.ret # "idle"
  /\ pc \in {"growLoop", "growFat", "growLink", "shrinkCrop", "eraseFirst",
            "eraseLoop"} => op.cluster \in Clusters
  /\ pc \in {"growFat", "growLink"} => op.next \in Clusters
  /\ pc = "growFat" => op.i \in Clusters
  /\ pc = "shrinkCrop" \/ (pc = "advance" /\ op.ret = "shrinkCrop")
     => op.difference < op.current
  /\ \/ pc \in {"growLoop", "growFat", "growLink"}
     \/ (pc = "advance" /\ op.ret = "growLoop")
     => node[op.node].start_cluster \in Clusters
  /\ \/ pc \in WriteLabels \/ op.then \in WriteLabels
     \/ (pc = "advance" /\ op.ret = "pwriteLoop")
     => op.kind = "pwrite"
  /\ op.kind = "pwrite" => op.len = Len(op.buf)
  /\ op.remainder <= op.len
  /\ chain \in [Nodes -> Seq(Clusters)]
  /\ tail \in Seq(Clusters)
  /\ faults \in 0 .. MaxFaults
  /\ sane \in BOOLEAN

\* A cluster has at most one owner, at one place of its file, and its bit in
\* the bitmap is set as long as it has; the system files' clusters are never
\* handed out.  Also in the middle of a call and after a failed one.
Ownership ==
  sane =>
    /\ \A n \in Nodes : \A i, j \in DOMAIN chain[n] :
         chain[n][i] = chain[n][j] => i = j
    /\ \A n, m \in Nodes :
         n # m => Members(chain[n]) \cap Members(chain[m]) = {}
    /\ \A n \in Nodes : Members(chain[n]) \cap Members(tail) = {}
    /\ \A n \in Nodes : Members(chain[n]) \subseteq cmap \ Reserved
    /\ Members(tail) \subseteq cmap \ Reserved

\* No cluster is lost: without failures every set bit of the bitmap is a
\* system file's, a file's, or in the hands of the running call.
NoLeak ==
  sane /\ faults = 0 =>
    cmap = Reserved \cup Members(tail) \cup UNION {Members(chain[n]) : n \in Nodes}

\* Whoever follows the start cluster and the FAT (or the contiguous run)
\* visits exactly the clusters that were handed out to the file, in order.
Linked ==
  sane => \A n \in Nodes :
            /\ chain[n] = <<>> => node[n].start_cluster = EXFAT_CLUSTER_FREE
            /\ \A i \in DOMAIN chain[n] : ClusterAt(n, i - 1) = chain[n][i]

\* Between calls a file has the clusters its size calls for, its chain is
\* terminated (unless contiguous), and the cached cursor points into it.
Settled ==
  sane /\ faults = 0 /\ pc \in {"idle", "done"} =>
    \A n \in Nodes :
      LET len == Len(chain[n])
      IN  /\ len = bytes2clusters(node[n].size)
          /\ len # 0 /\ ~node[n].is_contiguous =>
               fat[chain[n][len]] = EXFAT_CLUSTER_END
          /\ node[n].fptr_cluster = ClusterAt(n, node[n].fptr_index)
          /\ node[n].fptr_index < len \/ node[n].fptr_index = 0

\* No assertion of cluster.c fails while the device works.
NoBug == sane /\ faults = 0 => pc # "bug"

\* A truncate that fails for lack of space leaves the file and the bitmap as
\* they were: the rollback of grow_file is complete.
EnospcRestores ==
  sane /\ faults = 0 /\ pc = "done" /\ op.rc = "ENOSPC" /\ op.kind = "truncate"
    => /\ Content(op.node) = pre.content
       /\ cmap = pre.cmap

\* A truncate to a larger size that fails, for whatever reason, leaves the
\* file's bytes as they were.
FailedGrowKeepsData ==
  sane /\ pc = "done" /\ op.kind = "truncate" /\ op.rc \in {"EIO", "ENOSPC"}
    /\ op.size > Len(pre.content) => Content(op.node) = pre.content

\* A call writes to FAT entries and clusters of its own file only.
OwnWrites ==
  [][sane' => \A c \in Clusters :
       fat'[c] # fat[c] \/ data'[c] # data[c] =>
         c \in Members(chain[op.node]) \cup Members(tail)]_vars

\* A write goes to clusters that a walk from the start of the file visits,
\* also after a FAT entry could not be read.
WriteInFile ==
  pc = "pwriteLoop" /\ op.remainder > 0 /\ ~CLUSTER_INVALID(op.cluster) =>
    \E k \in 0 .. Current - 1 : op.cluster = ClusterAt(op.node, k)

\* A file that is flagged contiguous is: its clusters follow one another.
ContiguousHolds ==
  \A n \in Nodes : node[n].is_contiguous =>
    \A i \in 2 .. Len(chain[n]) : chain[n][i] = chain[n][i - 1] + 1

\* Every call returns, or aborts in an assertion.
Termination == pc # "idle" ~> pc \in {"idle", "bug"}

=============================================================================
