------------------------- MODULE FileClustersProofs -------------------------
(***************************************************************************)
(* Type correctness, one lemma for each group of actions, and ownership: a *)
(* cluster never has two owners, and its bit in the bitmap is set as long  *)
(* as it has one.                                                          *)
(***************************************************************************)
EXTENDS ClusterInvariant, TLAPS, SequenceTheorems

(* Types *)

\* bytes2clusters() yields a number of clusters.
LEMMA Bytes2ClustersNat ==
  ASSUME NEW bytes \in Nat
  PROVE  bytes2clusters(bytes) \in Nat
BY ClusterAssumption DEF bytes2clusters

\* The cluster numbers of exfatfs.h are 32-bit words.
LEMMA ConstantTypes ==
  /\ 0 \in Word /\ EXFAT_CLUSTER_BAD \in Word /\ EXFAT_CLUSTER_END \in Word
  /\ Clusters \subseteq Word
  /\ AnyCluster \subseteq Word
  /\ Word \subseteq Nat
BY ClusterAssumption DEF AnyCluster, Word, Clusters,
   EXFAT_CLUSTER_BAD, EXFAT_CLUSTER_END, EXFAT_CLUSTER_FREE

\* exfat_next_cluster() returns a word, and the failures it takes are
\* counted.
LEMMA NextClusterType ==
  ASSUME TypeOK, NEW n \in Nodes, NEW c \in Word, NEW r \in NextCluster(n, c)
  PROVE  /\ r.cluster \in Word
         /\ faults + r.fault \in 0 .. MaxFaults
  <1>1. CASE node[n].is_contiguous
    <2>1. r = [cluster |-> Succ(c), fault |-> 0]
      BY <1>1 DEF NextCluster
    <2> QED BY <2>1, ClusterAssumption, VolumeAssumption DEF TypeOK, Succ, Word
  <1>2. CASE ~node[n].is_contiguous
    <2>1. CASE r \in {[cluster |-> d, fault |-> 0] :
          d \in IF c \in Clusters THEN {fat[c]} ELSE AnyCluster}
      BY <2>1, ConstantTypes, VolumeAssumption DEF TypeOK
    <2>2. CASE r \in {[cluster |-> EXFAT_CLUSTER_BAD, fault |-> 1] :
               f \in {1} \cap {IF CanFail("fatRead") THEN 1 ELSE 0}}
      BY <2>2, ConstantTypes, VolumeAssumption DEF TypeOK, CanFail
    <2> QED BY <1>2, <2>1, <2>2 DEF NextCluster
  <1> QED BY <1>1, <1>2

\* The record of an idle daemon has the type of a call.
LEMMA NoOpType == NoOp \in OpType
  <1>1. <<>> \in Seq(Vals) /\ <<>> \in Seq(Cells)
    OBVIOUS
  <1>2. 0 \in 0 .. ClusterSize - 1 /\ 0 \in Word
    BY ClusterAssumption DEF Word
  <1> QED BY <1>1, <1>2 DEF NoOp, OpType, Results

\* Integer division is monotone.
LEMMA DivMonotone ==
  ASSUME NEW d \in Nat \ {0}, NEW a1 \in Nat, NEW a2 \in Nat, a1 <= a2
  PROVE  a1 \div d <= a2 \div d
  <1> DEFINE q1 == a1 \div d
             q2 == a2 \div d
  <1>1. q1 \in Nat /\ q2 \in Nat /\ d * q1 <= a1 /\ a2 < d * (q2 + 1)
    OBVIOUS
  <1> HIDE DEF q1, q2
  <1>2. CASE q1 >= q2 + 1
    <2>1. d * q1 >= d * (q2 + 1)
      BY <1>1, <1>2
    <2> QED BY <1>1, <2>1
  <1> QED BY <1>1, <1>2 DEF q1, q2

\* An empty file needs no cluster.
LEMMA ZeroClusters == bytes2clusters(0) = 0
BY ClusterAssumption DEF bytes2clusters

\* A file with bytes needs at least one cluster.
LEMMA PositiveClusters ==
  ASSUME NEW bytes \in Nat, bytes # 0
  PROVE  bytes2clusters(bytes) >= 1
  <1>1. bytes + ClusterSize - 1 >= ClusterSize /\ ClusterSize \in Nat \ {0}
    BY ClusterAssumption
  <1> QED BY <1>1, DivMonotone DEF bytes2clusters

\* Every volume as mounted has its type.
LEMMA TypeInit == Init => TypeOK
  <1> SUFFICES ASSUME NEW l \in Layouts, NEW g \in FatGarbage, Init!(l, g)
               PROVE  TypeOK
    BY DEF Init
  <1>1. /\ \A n \in Nodes : l[n].first \in Word /\ l[n].size \in Nat
        /\ \A n \in Nodes : l[n].first = 0 \/ l[n].first \in Clusters
        /\ \A n \in Nodes : l[n].size # 0 => LayoutClusters(l[n]) \subseteq Clusters
    <2>1. ASSUME NEW n \in Nodes PROVE l[n].first \in Word /\ l[n].size \in Nat
      BY LayoutAssumption
    <2>2. ASSUME NEW n \in Nodes, l[n].size # 0
          PROVE  LayoutClusters(l[n]) \subseteq Clusters
      BY <2>2, LayoutAssumption, VolumeAssumption
    <2>3. ASSUME NEW n \in Nodes, l[n].size # 0
          PROVE  l[n].first \in LayoutClusters(l[n])
      <3>1. bytes2clusters(l[n].size) >= 1
        BY <2>1, <2>3, PositiveClusters
      <3>2. bytes2clusters(l[n].size) \in Nat /\ l[n].first \in Nat
        BY <2>1, Bytes2ClustersNat, ConstantTypes
      <3> QED BY <3>1, <3>2 DEF LayoutClusters
    <2>4. ASSUME NEW n \in Nodes PROVE l[n].first = 0 \/ l[n].first \in Clusters
      BY <2>2, <2>3, LayoutAssumption DEF EXFAT_CLUSTER_FREE
    <2> QED BY <2>1, <2>2, <2>4
  <1>2. node \in [Nodes -> NodeType]
    BY <1>1 DEF NodeType, EXFAT_CLUSTER_FREE
  <1>3. cmap \subseteq Clusters
    BY <1>1, VolumeAssumption
  <1>4. fat \in [Clusters -> Word]
    BY ConstantTypes, VolumeAssumption
  <1>5. data \in [Clusters -> [0 .. ClusterSize - 1 -> Cells]]
    BY DEF Cells
  <1>6. chain \in [Nodes -> Seq(Clusters)]
    <2> SUFFICES ASSUME NEW n \in Nodes PROVE LayoutRun(l[n]) \in Seq(Clusters)
      OBVIOUS
    <2>1. bytes2clusters(l[n].size) \in Nat
      BY <1>1, Bytes2ClustersNat
    <2>2. ASSUME NEW i \in 1 .. bytes2clusters(l[n].size)
          PROVE  l[n].first + i - 1 \in Clusters
      <3>1. l[n].size # 0
        BY ZeroClusters, <2>2
      <3>2. l[n].first \in Nat
        BY <1>1, ConstantTypes
      <3>3. l[n].first + i - 1 \in LayoutClusters(l[n])
        BY <2>1, <3>2 DEF LayoutClusters
      <3> QED BY <1>1, <3>1, <3>3
    <2> QED BY <2>1, <2>2, IsASeq DEF LayoutRun
  <1>7. NoOp.kind = "none" /\ NoOp.then = "done" /\ NoOp.remainder = 0 /\ NoOp.len = 0
    BY DEF NoOp
  <1> QED
    BY <1>2, <1>3, <1>4, <1>5, <1>6, <1>7, NoOpType, VolumeAssumption
    DEF TypeOK, Labels, WriteLabels

\* The beginning of a call (exfat_truncate, exfat_generic_pwrite,
\* exfat_generic_pread) keeps the types.
LEMMA TypeCall ==
  ASSUME TypeOK, Call PROVE TypeOK'
  <1> USE DEF Begin, Labels, WriteLabels, disk
  <1>1. ASSUME NEW n \in Nodes, NEW size \in 0 .. MaxSize, exfat_truncate(n, size)
        PROVE  TypeOK'
    <2>1. op' = [NoOp EXCEPT !.kind = "truncate", !.size = size,
                             !.erase = TRUE, !.node = n]
      BY <1>1 DEF exfat_truncate, NoOp
    <2>2. op' \in OpType
      <3>1. size \in Nat BY ClusterAssumption
      <3> QED BY <3>1, <2>1, NoOpType, Zenon DEF OpType
    <2> QED BY <1>1, <2>1, <2>2 DEF exfat_truncate, NoOp, TypeOK
  <1>2. ASSUME NEW n \in Nodes, NEW off \in 0 .. MaxSize, NEW buf \in Buffers,
               exfat_generic_pwrite(n, off, buf)
        PROVE  TypeOK'
    <2>1. op' = [NoOp EXCEPT !.kind = "pwrite", !.off = off, !.buf = buf,
                             !.len = Len(buf), !.node = n]
      BY <1>2 DEF exfat_generic_pwrite, NoOp
    <2>2. op' \in OpType
      <3>1. off \in Nat /\ buf \in Seq(Vals) /\ Len(buf) \in Nat
        BY ClusterAssumption, VolumeAssumption
      <3> QED BY <3>1, <2>1, NoOpType, Zenon DEF OpType
    <2>3. buf \in Seq(Vals) BY VolumeAssumption
    <2> QED BY <1>2, <2>1, <2>2, <2>3 DEF exfat_generic_pwrite, NoOp, TypeOK
  <1>3. ASSUME NEW n \in Nodes, NEW off \in 0 .. MaxSize, NEW len \in ReadSizes,
               exfat_generic_pread(n, off, len)
        PROVE  TypeOK'
    <2>1. op' = [NoOp EXCEPT !.kind = "pread", !.off = off, !.len = len, !.node = n]
      BY <1>3 DEF exfat_generic_pread, NoOp
    <2>2. op' \in OpType
      <3>1. off \in Nat /\ len \in Nat
        BY ClusterAssumption, VolumeAssumption
      <3> QED BY <3>1, <2>1, NoOpType, Zenon DEF OpType
    <2>3. len \in Nat BY VolumeAssumption
    <2> QED BY <1>3, <2>1, <2>2, <2>3 DEF exfat_generic_pread, NoOp, TypeOK
  <1> QED BY <1>1, <1>2, <1>3 DEF Call

\* The entry of exfat_advance_cluster() keeps the types, for any caller.
LEMMA CallAdvanceType ==
  ASSUME TypeOK, op.node \in Nodes, NEW o, NEW count \in Nat,
         NEW ret \in {"growLoop", "shrinkCrop", "eraseFirst", "pwriteLoop",
                      "preadLoop"},
         CallAdvance(o, count, ret), o \in OpType,
         o.node = op.node, o.kind = op.kind, o.then = op.then, o.len = op.len,
         o.buf = op.buf,
         ret = "growLoop" => node[op.node].start_cluster \in Clusters,
         ret = "shrinkCrop" => o.difference < o.current,
         ret = "pwriteLoop" => op.kind = "pwrite",
         o.remainder <= o.len
  PROVE  TypeOK'
  <1> DEFINE n == op.node
  <1>1. node[n] \in NodeType
    BY DEF TypeOK
  <1>2. node' \in [Nodes -> NodeType] /\ node'[n].start_cluster = node[n].start_cluster
    <2>1. node[n].start_cluster \in Word
      BY <1>1, ConstantTypes DEF NodeType, EXFAT_CLUSTER_FREE
    <2> QED BY <2>1, <1>1 DEF CallAdvance, TypeOK, NodeType
  <1>3. PICK i \in Nat : op' = [o EXCEPT !.count = count, !.ret = ret, !.i = i]
    BY <1>1 DEF CallAdvance, NodeType
  <1>4. op' \in OpType
    BY <1>3, ZenonT(30) DEF OpType
  <1>5. /\ pc' = "advance"
        /\ UNCHANGED <<cmap, fat, data, chain, tail, faults, sane>>
    BY DEF CallAdvance, disk, history
  <1>6. /\ op'.node = op.node /\ op'.kind = op.kind /\ op'.then = op.then
        /\ op'.len = op.len /\ op'.buf = op.buf /\ op'.remainder = o.remainder
        /\ op'.ret = ret /\ op'.difference = o.difference /\ op'.current = o.current
    BY <1>3 DEF OpType
  <1> QED
    BY <1>2, <1>4, <1>5, <1>6 DEF TypeOK, Labels, WriteLabels

\* Returning from a call keeps the type of its record.
LEMMA ReturnType ==
  ASSUME TypeOK, NEW rc \in {"ok", "EIO", "ENOSPC"}, Return(rc), pc # "idle"
  PROVE  /\ op' \in OpType /\ pc' = "done" /\ op'.node = op.node
         /\ op'.kind = op.kind /\ op'.then = op.then /\ op'.len = op.len
         /\ op'.buf = op.buf /\ op'.remainder = op.remainder
  <1>1. PICK r \in Results : op' = [op EXCEPT !.rc = r]
    BY DEF Return, Results
  <1>2. op' \in OpType
    BY <1>1, Zenon DEF OpType, TypeOK
  <1> QED BY <1>1, <1>2 DEF Return, OpType, TypeOK

\* The loop of exfat_advance_cluster() keeps the types.
LEMMA TypeAdvance ==
  ASSUME TypeOK, Advance PROVE TypeOK'
  <1> DEFINE n == op.node
  <1>0. /\ pc = "advance" /\ n \in Nodes /\ node[n] \in NodeType /\ op \in OpType
    BY DEF Advance, AdvanceLoop, AdvanceEnd, TypeOK
  <1>1. CASE AdvanceLoop
    <2>1. PICK r \in NextCluster(n, node[n].fptr_cluster) :
            /\ faults' = faults + r.fault
            /\ IF CLUSTER_INVALID(r.cluster)
               THEN /\ node' = [node EXCEPT ![n].fptr_cluster = r.cluster,
                                            ![n].fptr_index = op.count]
                    /\ Return("EIO")
               ELSE /\ node' = [node EXCEPT ![n].fptr_cluster = r.cluster]
                    /\ op' = [op EXCEPT !.i = op.i + 1]
                    /\ UNCHANGED pc
      BY <1>1 DEF AdvanceLoop
    <2>2. r.cluster \in Word /\ faults' \in 0 .. MaxFaults
      BY <1>0, <2>1, NextClusterType DEF NodeType
    <2>3. node' \in [Nodes -> NodeType]
          /\ node'[n].start_cluster = node[n].start_cluster
      <3>1. op.count \in Nat
        BY <1>0 DEF OpType
      <3>2. CASE node' = [node EXCEPT ![n].fptr_cluster = r.cluster,
                                      ![n].fptr_index = op.count]
        BY <1>0, <2>2, <3>1, <3>2 DEF TypeOK, NodeType
      <3>3. CASE node' = [node EXCEPT ![n].fptr_cluster = r.cluster]
        BY <1>0, <2>2, <3>3 DEF TypeOK, NodeType
      <3> QED BY <2>1, <3>2, <3>3
    <2>4. CASE CLUSTER_INVALID(r.cluster)
      BY <1>0, <1>1, <2>1, <2>2, <2>3, <2>4, ReturnType
      DEF TypeOK, AdvanceLoop, disk, Labels, WriteLabels
    <2>5. CASE ~CLUSTER_INVALID(r.cluster)
      <3>0. op' = [op EXCEPT !.i = op.i + 1]
        BY <2>1, <2>5
      <3>1. op.i + 1 \in Nat
        BY <1>0 DEF OpType
      <3>2. op' \in OpType
        BY <1>0, <3>0, <3>1, Zenon DEF OpType
      <3>3. /\ op'.node = op.node /\ op'.kind = op.kind /\ op'.then = op.then
            /\ op'.len = op.len /\ op'.buf = op.buf
            /\ op'.remainder = op.remainder /\ op'.ret = op.ret
            /\ op'.difference = op.difference /\ op'.current = op.current
        BY <1>0, <2>1, <2>5, SMTT(30) DEF OpType
      <3> QED
        BY <1>0, <1>1, <2>1, <2>2, <2>3, <2>5, <3>2, <3>3
        DEF TypeOK, AdvanceLoop, disk, Labels, WriteLabels
    <2> QED BY <2>4, <2>5
  <1>2. CASE AdvanceEnd
    <2>1. node' \in [Nodes -> NodeType]
          /\ node'[n].start_cluster = node[n].start_cluster
      BY <1>0, <1>2 DEF AdvanceEnd, TypeOK, NodeType, OpType
    <2>2. CASE CLUSTER_INVALID(node[n].fptr_cluster)
      <3>1. Return("EIO")
        BY <1>2, <2>2 DEF AdvanceEnd
      <3> QED
        BY <1>0, <1>2, <2>1, <3>1, ReturnType
        DEF AdvanceEnd, TypeOK, disk, history, Labels, WriteLabels
    <2>3. CASE ~CLUSTER_INVALID(node[n].fptr_cluster)
      <3>1. op' = [op EXCEPT !.cluster = node[n].fptr_cluster] /\ pc' = op.ret
        BY <1>2, <2>3 DEF AdvanceEnd
      <3>2. node[n].fptr_cluster \in Clusters /\ node[n].fptr_cluster \in Word
        BY <1>0, <2>3 DEF CLUSTER_INVALID, NodeType
      <3>3. op' \in OpType
        BY <1>0, <3>1, <3>2, Zenon DEF OpType
      <3>4. /\ op'.node = op.node /\ op'.kind = op.kind /\ op'.then = op.then
            /\ op'.len = op.len /\ op'.buf = op.buf
            /\ op'.remainder = op.remainder /\ op'.cluster \in Clusters
            /\ op'.difference = op.difference /\ op'.current = op.current
        BY <1>0, <3>1, <3>2 DEF OpType
      <3>5. op.ret \in {"growLoop", "shrinkCrop", "eraseFirst", "pwriteLoop",
                        "preadLoop"}
        BY <1>0 DEF TypeOK, OpType
      <3> QED
        BY <1>0, <1>2, <2>1, <3>1, <3>3, <3>4, <3>5
        DEF AdvanceEnd, TypeOK, disk, history, Labels, WriteLabels
    <2> QED BY <2>2, <2>3
  <1> QED BY <1>1, <1>2 DEF Advance

\* Numbers of clusters of the file before and after exfat_truncate().
LEMMA CurrentType ==
  ASSUME TypeOK, op.node \in Nodes
  PROVE  Current \in Nat /\ Target \in Nat
  <1>1. node[op.node].size \in Nat /\ op.size \in Nat
    BY DEF TypeOK, NodeType, OpType
  <1> QED BY <1>1, Bytes2ClustersNat DEF Current, Target

\* The dispatch of exfat_truncate() keeps the types.
LEMMA TypeTruncate ==
  ASSUME TypeOK, Truncate PROVE TypeOK'
  <1>0. pc = "truncate" /\ op.node \in Nodes /\ op \in OpType
    BY DEF Truncate, TruncateWithin, TruncateShrink, TypeOK
  <1>1. CASE TruncateWithin
    <2>1. CASE Goto("erase")
      BY <1>0, <1>1, <2>1 DEF TruncateWithin, Goto, TypeOK, disk, history, Labels, WriteLabels
    <2>2. CASE Return("ok")
      BY <1>0, <1>1, <2>2, ReturnType
      DEF TruncateWithin, TypeOK, disk, history, Labels, WriteLabels
    <2>3. CASE Goto(op.then) /\ op.then # "done"
      <3>1. op.then \in {"pwriteExtend", "pwriteData"}
        BY <1>0, <2>3 DEF OpType
      <3> QED
        BY <1>0, <1>1, <2>3, <3>1
        DEF TruncateWithin, Goto, TypeOK, disk, history, Labels, WriteLabels
    <2> QED BY <1>1, <2>1, <2>2, <2>3 DEF TruncateWithin
  <1>2. CASE TruncateShrink
    <2>1. op' = [op EXCEPT !.current = Current, !.difference = Current - Target]
      BY <1>2 DEF TruncateShrink
    <2>2. Current \in Nat /\ Current - Target \in Nat
      BY <1>0, <1>2, CurrentType DEF TruncateShrink
    <2>3. op' \in OpType
      BY <1>0, <2>1, <2>2, Zenon DEF OpType
    <2>4. /\ op'.node = op.node /\ op'.kind = op.kind /\ op'.then = op.then
          /\ op'.len = op.len /\ op'.buf = op.buf /\ op'.remainder = op.remainder
      BY <1>0, <2>1 DEF OpType
    <2> QED
      BY <1>0, <1>2, <2>3, <2>4
      DEF TruncateShrink, TypeOK, disk, history, Labels, WriteLabels
  <1> QED BY <1>1, <1>2 DEF Truncate

\* The arguments of grow_file() have their types.
LEMMA GrowOpType ==
  ASSUME TypeOK, op.node \in Nodes, Current < Target
  PROVE  /\ GrowOp \in OpType
         /\ GrowOp.node = op.node /\ GrowOp.kind = op.kind /\ GrowOp.then = op.then
         /\ GrowOp.len = op.len /\ GrowOp.buf = op.buf
         /\ GrowOp.remainder = op.remainder
  <1>1. Current \in Nat /\ Target - Current \in Nat
    BY CurrentType
  <1>2. op \in OpType
    BY DEF TypeOK
  <1>3. GrowOp \in OpType
    BY <1>1, <1>2, Zenon DEF OpType, GrowOp
  <1> QED BY <1>2, <1>3 DEF GrowOp, OpType

\* grow_file() keeps the types: the clusters it links exist.
LEMMA TypeGrow ==
  ASSUME TypeOK, Grow PROVE TypeOK'
  <1> DEFINE n == op.node
  <1>0. /\ n \in Nodes /\ op \in OpType /\ node[n] \in NodeType
        /\ op.remainder <= op.len
    BY DEF Grow, GrowStart, GrowEmpty, GrowAllocate, GrowNoSpace, GrowFat,
           GrowFatEnd, GrowLink, GrowEnd, TypeOK
  <1>1. CASE GrowStart
    <2>1. Minus(Current, 1) \in Nat
      BY <1>0, CurrentType, ClusterAssumption DEF Minus
    <2>2. node[n].start_cluster \in Clusters
      BY <1>0, <1>1 DEF GrowStart, NodeType
    <2>3. CallAdvance(GrowOp, Minus(Current, 1), "growLoop") /\ Current < Target
      BY <1>1 DEF GrowStart
    <2> QED BY <1>0, <2>1, <2>2, <2>3, GrowOpType, CallAdvanceType
  <1>2. CASE GrowEmpty
    <2>1. ASSUME NEW c \in Clusters,
                 cmap' = cmap \cup {c},
                 node' = [node EXCEPT ![n].start_cluster = c,
                                      ![n].fptr_cluster = c,
                                      ![n].is_contiguous = TRUE],
                 op' = [GrowOp EXCEPT !.cluster = c, !.allocated = 1],
                 pc' = "growLoop",
                 chain' = [chain EXCEPT ![n] = <<c>>]
          PROVE TypeOK'
      <3>1. c \in Word
        BY ConstantTypes
      <3>2. GrowOp \in OpType /\ GrowOp.node = op.node /\ GrowOp.kind = op.kind
            /\ GrowOp.then = op.then /\ GrowOp.len = op.len
            /\ GrowOp.buf = op.buf /\ GrowOp.remainder = op.remainder
        BY <1>0, <1>2, GrowOpType DEF GrowEmpty
      <3>3. op' \in OpType
        BY <2>1, <3>1, <3>2, Zenon DEF OpType
      <3>4. /\ op'.node = op.node /\ op'.kind = op.kind /\ op'.then = op.then
            /\ op'.len = op.len /\ op'.buf = op.buf
            /\ op'.remainder = op.remainder /\ op'.cluster = c
        BY <2>1, <3>2 DEF OpType
      <3>5. node' \in [Nodes -> NodeType] /\ node'[n].start_cluster = c
        BY <1>0, <2>1, <3>1 DEF TypeOK, NodeType
      <3>6. chain' \in [Nodes -> Seq(Clusters)]
        BY <1>0, <2>1 DEF TypeOK
      <3> QED
        BY <1>0, <1>2, <2>1, <3>3, <3>4, <3>5, <3>6
        DEF GrowEmpty, TypeOK, Labels, WriteLabels
    <2>2. CASE Return("ENOSPC") /\ UNCHANGED <<node, cmap, chain>>
      BY <1>0, <1>2, <2>2, ReturnType DEF GrowEmpty, TypeOK, Labels, WriteLabels
    <2> QED BY <1>2, <2>1, <2>2 DEF GrowEmpty
  <1>3. CASE GrowAllocate
    <2>1. PICK c \in Clusters :
            /\ cmap' = cmap \cup {c}
            /\ tail' = <<c>>
            /\ op' = [op EXCEPT !.next = c, !.i = node[n].start_cluster]
            /\ pc' \in {"growFat", "growLink"}
            /\ sane' \in BOOLEAN
      BY <1>3 DEF GrowAllocate
    <2>2. c \in Word /\ node[n].start_cluster \in Clusters
          /\ node[n].start_cluster \in Nat
      BY <1>0, <1>3, ConstantTypes DEF GrowAllocate, TypeOK
    <2>3. op' \in OpType
      BY <1>0, <2>1, <2>2, Zenon DEF OpType
    <2>4. /\ op'.node = op.node /\ op'.kind = op.kind /\ op'.then = op.then
          /\ op'.len = op.len /\ op'.buf = op.buf
          /\ op'.remainder = op.remainder /\ op'.cluster = op.cluster
          /\ op'.next = c /\ op'.i \in Clusters
      BY <1>0, <2>1, <2>2 DEF OpType
    <2> QED
      BY <1>0, <1>3, <2>1, <2>3, <2>4
      DEF GrowAllocate, TypeOK, Labels, WriteLabels
  <1>4. CASE GrowNoSpace
    <2>1. CASE Return("ENOSPC")
      BY <1>0, <1>4, <2>1, ReturnType
      DEF GrowNoSpace, TypeOK, disk, history, Labels, WriteLabels
    <2>2. CASE /\ op' = [op EXCEPT !.current = op.current + op.allocated,
                              !.difference = op.allocated, !.rollback = TRUE]
               /\ pc' = "shrink"
      <3>1. op.current + op.allocated \in Nat /\ op.allocated \in Nat
        BY <1>0, SMTT(30) DEF OpType
      <3>2. op' \in OpType
        BY <1>0, <2>2, <3>1, Zenon DEF OpType
      <3>3. /\ op'.node = op.node /\ op'.kind = op.kind /\ op'.then = op.then
            /\ op'.len = op.len /\ op'.buf = op.buf /\ op'.remainder = op.remainder
        BY <1>0, <2>2 DEF OpType
      <3> QED
        BY <1>0, <1>4, <2>2, <3>2, <3>3
        DEF GrowNoSpace, TypeOK, disk, history, Labels, WriteLabels
    <2> QED BY <1>4, <2>1, <2>2 DEF GrowNoSpace
  <1>5. CASE GrowFat
    <2>0. op' = [op EXCEPT !.i = op.i + 1] /\ op.i + 1 \in Clusters
      <3>1. op.i \in Clusters /\ op.cluster \in Clusters
        BY <1>5 DEF GrowFat, TypeOK
      <3> QED BY <1>5, <3>1, ClusterAssumption DEF GrowFat, Clusters
    <2>1. op.i + 1 \in Nat /\ op.i + 1 \in Word
      BY <2>0, ConstantTypes
    <2>2. op' \in OpType
      BY <1>0, <2>0, <2>1, Zenon DEF OpType
    <2>3. /\ op'.node = op.node /\ op'.kind = op.kind /\ op'.then = op.then
          /\ op'.len = op.len /\ op'.buf = op.buf /\ op'.remainder = op.remainder
          /\ op'.cluster = op.cluster /\ op'.next = op.next /\ op'.i \in Clusters
      BY <1>0, <2>0 DEF OpType
    <2>4. fat' \in [Clusters -> Word]
      BY <1>5, <2>1 DEF GrowFat, TypeOK
    <2> QED
      BY <1>0, <1>5, <2>2, <2>3, <2>4 DEF GrowFat, TypeOK, history, Labels, WriteLabels
  <1>6. CASE GrowFatEnd
    <2>1. /\ node' \in [Nodes -> NodeType]
          /\ node'[n].start_cluster = node[n].start_cluster
      BY <1>0, <1>6 DEF GrowFatEnd, TypeOK, NodeType
    <2> QED
      BY <1>0, <1>6, <2>1 DEF GrowFatEnd, Goto, TypeOK, disk, history, Labels, WriteLabels
  <1>7. CASE GrowLink
    <2>0. op' = [op EXCEPT !.cluster = op.next, !.allocated = op.allocated + 1]
      BY <1>7 DEF GrowLink
    <2>1. op.allocated + 1 \in Nat /\ op.next \in Word /\ op.next \in Clusters
      <3>1. op.allocated \in Nat /\ op.next \in Word
        BY <1>0 DEF OpType
      <3>2. op.next \in Clusters
        BY <1>7 DEF GrowLink, TypeOK
      <3> QED BY <3>1, <3>2
    <2>2. op' \in OpType
      BY <1>0, <2>0, <2>1, Zenon DEF OpType
    <2>3. /\ op'.node = op.node /\ op'.kind = op.kind /\ op'.then = op.then
          /\ op'.len = op.len /\ op'.buf = op.buf /\ op'.remainder = op.remainder
          /\ op'.cluster = op.next
      BY <1>0, <2>0 DEF OpType
    <2>4. fat' \in [Clusters -> Word]
      BY <1>7, <2>1 DEF GrowLink, TypeOK, SetNext
    <2>5. chain' \in [Nodes -> Seq(Clusters)]
      <3>1. Append(chain[n], op.next) \in Seq(Clusters)
        BY <1>0, <2>1, AppendProperties DEF TypeOK
      <3> QED BY <1>0, <1>7, <3>1 DEF GrowLink, TypeOK
    <2> QED
      BY <1>0, <1>7, <2>1, <2>2, <2>3, <2>4, <2>5
      DEF GrowLink, TypeOK, Labels, WriteLabels
  <1>8. CASE GrowEnd
    <2>1. fat' \in [Clusters -> Word]
      BY <1>8, ConstantTypes DEF GrowEnd, TypeOK, SetNext
    <2> QED
      BY <1>0, <1>8, <2>1 DEF GrowEnd, Goto, TypeOK, history, Labels, WriteLabels
  <1> QED
    BY <1>1, <1>2, <1>3, <1>4, <1>5, <1>6, <1>7, <1>8 DEF Grow

\* shrink_file() keeps the types: difference does not underflow.
LEMMA TypeShrink ==
  ASSUME TypeOK, Shrink PROVE TypeOK'
  <1> DEFINE n == op.node
  <1>0. /\ n \in Nodes /\ op \in OpType /\ node[n] \in NodeType
        /\ op.remainder <= op.len /\ chain[n] \in Seq(Clusters)
        /\ tail \in Seq(Clusters)
    BY DEF Shrink, ShrinkStart, ShrinkAll, ShrinkCrop, ShrinkFree, ShrinkInvalid,
           ShrinkEnd, TypeOK
  <1>1. CASE ShrinkStart
    <2>1. CallAdvance(op, op.current - op.difference - 1, "shrinkCrop")
          /\ op.current > op.difference
      BY <1>1 DEF ShrinkStart
    <2>2. op.current \in Nat /\ op.difference \in Nat
      BY <1>0 DEF OpType
    <2>3. op.current - op.difference - 1 \in Nat /\ op.difference < op.current
      BY <2>1, <2>2
    <2> QED BY <1>0, <2>1, <2>3, CallAdvanceType
  <1>2. CASE ShrinkAll
    <2>1. op' = [op EXCEPT !.cluster = node[n].start_cluster]
      BY <1>2 DEF ShrinkAll
    <2>2. node[n].start_cluster \in Word
      BY <1>0, ConstantTypes DEF NodeType, EXFAT_CLUSTER_FREE
    <2>3. op' \in OpType
      BY <1>0, <2>1, <2>2, Zenon DEF OpType
    <2>4. /\ op'.node = op.node /\ op'.kind = op.kind /\ op'.then = op.then
          /\ op'.len = op.len /\ op'.buf = op.buf /\ op'.remainder = op.remainder
      BY <1>0, <2>1 DEF OpType
    <2>5. node' \in [Nodes -> NodeType]
      BY <1>0, <1>2, ConstantTypes DEF ShrinkAll, TypeOK, NodeType, EXFAT_CLUSTER_FREE
    <2>6. chain' \in [Nodes -> Seq(Clusters)]
      BY <1>0, <1>2 DEF ShrinkAll, TypeOK
    <2> QED
      BY <1>0, <1>2, <2>3, <2>4, <2>5, <2>6
      DEF ShrinkAll, TypeOK, disk, Labels, WriteLabels
  <1>3. CASE ShrinkCrop
    <2>1. PICK r \in NextCluster(n, op.cluster) :
            /\ faults' = faults + r.fault
            /\ op' = [op EXCEPT !.cluster = r.cluster]
      BY <1>3 DEF ShrinkCrop
    <2>2. r.cluster \in Word /\ faults' \in 0 .. MaxFaults
      BY <1>0, <2>1, NextClusterType DEF OpType
    <2>3. op' \in OpType
      BY <1>0, <2>1, <2>2, Zenon DEF OpType
    <2>4. /\ op'.node = op.node /\ op'.kind = op.kind /\ op'.then = op.then
          /\ op'.len = op.len /\ op'.buf = op.buf /\ op'.remainder = op.remainder
      BY <1>0, <2>1 DEF OpType
    <2>5. node' \in [Nodes -> NodeType]
      <3>1. node[n].start_cluster \in Word
        BY <1>0, ConstantTypes DEF NodeType, EXFAT_CLUSTER_FREE
      <3> QED BY <1>0, <1>3, <3>1 DEF ShrinkCrop, TypeOK, NodeType
    <2>6. chain' \in [Nodes -> Seq(Clusters)] /\ tail' \in Seq(Clusters)
      <3> DEFINE keep == Lesser(op.current - op.difference, Len(chain[n]))
      <3>1. op.current \in Nat /\ op.difference \in Nat /\ Len(chain[n]) \in Nat
        BY <1>0, LenProperties DEF OpType
      <3>2. op.difference < op.current
        BY <1>3 DEF ShrinkCrop, TypeOK
      <3>3. keep \in 0 .. Len(chain[n])
        BY <3>1, <3>2 DEF Lesser
      <3> HIDE DEF keep
      <3>4. SubSeq(chain[n], 1, keep) \in Seq(Clusters)
        BY <1>0, <3>1, <3>3, SubSeqProperties
      <3>5. SubSeq(chain[n], keep + 1, Len(chain[n])) \in Seq(Clusters)
        BY <1>0, <3>1, <3>3, SubSeqProperties
      <3>6. /\ chain' = [chain EXCEPT ![n] = SubSeq(chain[n], 1, keep)]
            /\ tail' = SubSeq(chain[n], keep + 1, Len(chain[n]))
        BY <1>3 DEF ShrinkCrop, keep
      <3> QED BY <1>0, <3>4, <3>5, <3>6 DEF TypeOK
    <2>7. fat' \in [Clusters -> Word]
      BY <1>3, ConstantTypes DEF ShrinkCrop, TypeOK, SetNext
    <2> QED
      BY <1>0, <1>3, <2>2, <2>3, <2>4, <2>5, <2>6, <2>7
      DEF ShrinkCrop, TypeOK, Labels, WriteLabels
  <1>4. CASE ShrinkFree
    <2>1. PICK r \in NextCluster(n, op.cluster) :
            /\ faults' = faults + r.fault
            /\ op' = [op EXCEPT !.cluster = r.cluster,
                                !.difference = op.difference - 1]
      BY <1>4 DEF ShrinkFree
    <2>2. r.cluster \in Word /\ faults' \in 0 .. MaxFaults
      BY <1>0, <2>1, NextClusterType DEF OpType
    <2>3. op' \in OpType
      <3>1. op.difference \in Nat
        BY <1>0 DEF OpType
      <3>2. op.difference - 1 \in Nat
        BY <1>4, <3>1 DEF ShrinkFree
      <3> QED BY <1>0, <2>1, <2>2, <3>2, Zenon DEF OpType
    <2>4. /\ op'.node = op.node /\ op'.kind = op.kind /\ op'.then = op.then
          /\ op'.len = op.len /\ op'.buf = op.buf /\ op'.remainder = op.remainder
      BY <1>0, <2>1 DEF OpType
    <2>5. tail' \in Seq(Clusters)
      BY <1>0, <1>4, LenProperties, SubSeqProperties DEF ShrinkFree
    <2>6. fat' \in [Clusters -> Word]
      BY <1>4, ConstantTypes DEF ShrinkFree, free_cluster, TypeOK, SetNext, EXFAT_CLUSTER_FREE
    <2> QED
      BY <1>0, <1>4, <2>2, <2>3, <2>4, <2>5, <2>6
      DEF ShrinkFree, free_cluster, TypeOK, Labels, WriteLabels
  <1>5. CASE ShrinkInvalid
    BY <1>0, <1>5, ReturnType
    DEF ShrinkInvalid, TypeOK, disk, Labels, WriteLabels
  <1>6. CASE ShrinkEnd
    <2>1. CASE Return("ENOSPC")
      BY <1>0, <1>6, <2>1, ReturnType
      DEF ShrinkEnd, TypeOK, disk, Labels, WriteLabels
    <2>2. CASE Goto("erase")
      BY <1>0, <1>6, <2>2 DEF ShrinkEnd, Goto, TypeOK, disk, Labels, WriteLabels
    <2> QED BY <1>6, <2>1, <2>2 DEF ShrinkEnd
  <1> QED BY <1>1, <1>2, <1>3, <1>4, <1>5, <1>6 DEF Shrink

\* The end of exfat_truncate() keeps the types.
LEMMA TypeTruncated ==
  ASSUME TypeOK, Truncated, pc \in {"erase", "eraseLoop"} PROVE TypeOK'
  <1> DEFINE n == op.node
  <1>0. n \in Nodes /\ op \in OpType /\ node[n] \in NodeType
    BY DEF TypeOK
  <1>1. node' \in [Nodes -> NodeType]
    <2>1. op.size \in Nat
      BY <1>0 DEF OpType
    <2> QED BY <1>0, <2>1 DEF Truncated, TypeOK, NodeType
  <1>2. CASE Return("ok")
    BY <1>0, <1>1, <1>2, ReturnType
    DEF Truncated, TypeOK, disk, history, Labels, WriteLabels
  <1>3. CASE /\ pc' = op.then
             /\ op.then # "done"
             /\ op' = [NoOp EXCEPT !.kind = op.kind, !.node = op.node,
                      !.off = op.off, !.buf = op.buf, !.len = op.len]
    <2>1. op' \in OpType
      BY <1>0, <1>3, NoOpType, Zenon DEF OpType
    <2>2. /\ op'.node = op.node /\ op'.kind = op.kind /\ op'.then = "done"
          /\ op'.len = op.len /\ op'.buf = op.buf /\ op'.remainder = 0
      BY <1>3 DEF NoOp
    <2>3. op.then \in {"pwriteExtend", "pwriteData"} /\ op.len \in Nat
      BY <1>0, <1>3 DEF OpType
    <2> QED
      BY <1>0, <1>1, <1>3, <2>1, <2>2, <2>3
      DEF Truncated, TypeOK, disk, history, Labels, WriteLabels
  <1> QED BY <1>2, <1>3 DEF Truncated

\* A write to a cluster keeps the type of the heap.
LEMMA OverwriteType ==
  ASSUME TypeOK, NEW c \in Clusters, NEW bytes,
         \A j \in DOMAIN bytes : bytes[j] \in Cells,
         Overwrite(c, bytes)
  PROVE  data' \in [Clusters -> [0 .. ClusterSize - 1 -> Cells]]
BY DEF Overwrite, TypeOK

\* erase_raw() writes bytes.
LEMMA ZerosType ==
  ASSUME NEW lo, NEW hi
  PROVE  \A j \in DOMAIN Zeros(lo, hi) : Zeros(lo, hi)[j] \in Cells
BY DEF Zeros, Cells

\* erase_range() keeps the types: it writes to existing clusters.
LEMMA TypeErase ==
  ASSUME TypeOK, Erase PROVE TypeOK'
  <1> DEFINE n == op.node
             begin == node[n].size
  <1>0. /\ n \in Nodes /\ op \in OpType /\ node[n] \in NodeType
        /\ op.remainder <= op.len /\ begin \in Nat
    BY DEF Erase, EraseStart, EraseFirst, EraseNext, EraseEnd, TypeOK, NodeType
  <1>1. CASE EraseStart
    <2> DEFINE index == begin \div ClusterSize
    <2>1. index \in Nat /\ (index + 1) * ClusterSize \in Nat
      BY <1>0, ClusterAssumption
    <2>2. CASE CallAdvance([op EXCEPT !.boundary = (index + 1) * ClusterSize],
                           index, "eraseFirst")
      <3> DEFINE o == [op EXCEPT !.boundary = (index + 1) * ClusterSize]
      <3>1. o \in OpType
        BY <1>0, <2>1, Zenon DEF OpType
      <3>2. /\ o.node = op.node /\ o.kind = op.kind /\ o.then = op.then
            /\ o.len = op.len /\ o.buf = op.buf /\ o.remainder = op.remainder
        BY <1>0 DEF OpType
      <3> HIDE DEF o
      <3> QED BY <1>0, <2>1, <2>2, <3>1, <3>2, CallAdvanceType DEF o
    <2>3. CASE Truncated
      BY <1>1, <2>3, TypeTruncated DEF EraseStart
    <2> QED BY <1>1, <2>2, <2>3 DEF EraseStart
  <1>2. CASE EraseFirst
    <2>2. PICK lo, hi : Overwrite(op.cluster, Zeros(lo, hi))
      BY <1>2 DEF EraseFirst
    <2>3. op.cluster \in Clusters
      BY <1>2 DEF EraseFirst, TypeOK
    <2>4. data' \in [Clusters -> [0 .. ClusterSize - 1 -> Cells]]
      BY <2>2, <2>3, ZerosType, OverwriteType
    <2> QED
      BY <1>0, <1>2, <2>4 DEF EraseFirst, Goto, TypeOK, history, Labels, WriteLabels
  <1>3. CASE EraseNext
    <2>1. PICK r \in NextCluster(n, op.cluster) :
            /\ faults' = faults + r.fault
            /\ IF CLUSTER_INVALID(r.cluster)
               THEN exfat_bug("invalid cluster after allocation") /\ UNCHANGED data
               ELSE /\ Overwrite(r.cluster, Zeros(0, ClusterSize))
                    /\ op' = [op EXCEPT !.cluster = r.cluster,
                                        !.boundary = op.boundary + ClusterSize]
                    /\ UNCHANGED pc
      BY <1>3 DEF EraseNext
    <2>2. r.cluster \in Word /\ faults' \in 0 .. MaxFaults
      BY <1>0, <2>1, NextClusterType DEF OpType
    <2>3. CASE CLUSTER_INVALID(r.cluster)
      <3>1. op' = [op EXCEPT !.rc = "invalid cluster after allocation"]
        BY <2>1, <2>3 DEF exfat_bug
      <3>2. op' \in OpType
        BY <1>0, <3>1, ZenonT(30) DEF OpType, Results
      <3>3. /\ op'.node = op.node /\ op'.kind = op.kind /\ op'.then = op.then
            /\ op'.len = op.len /\ op'.buf = op.buf /\ op'.remainder = op.remainder
        BY <1>0, <3>1 DEF OpType
      <3> QED
        BY <1>0, <1>3, <2>1, <2>2, <2>3, <3>2, <3>3
        DEF exfat_bug, EraseNext, TypeOK, Labels, WriteLabels
    <2>4. CASE ~CLUSTER_INVALID(r.cluster)
      <3>0. op' = [op EXCEPT !.cluster = r.cluster,
                             !.boundary = op.boundary + ClusterSize]
        BY <2>1, <2>4
      <3>1. op.boundary + ClusterSize \in Nat
        <4>1. op.boundary \in Nat
          BY <1>0 DEF OpType
        <4> QED BY <4>1, ClusterAssumption
      <3>2. op' \in OpType
        BY <1>0, <2>2, <3>0, <3>1, Zenon DEF OpType
      <3>3. /\ op'.node = op.node /\ op'.kind = op.kind /\ op'.then = op.then
            /\ op'.len = op.len /\ op'.buf = op.buf /\ op'.remainder = op.remainder
            /\ op'.cluster = r.cluster
        BY <1>0, <3>0 DEF OpType
      <3>4. r.cluster \in Clusters
        BY <2>4 DEF CLUSTER_INVALID
      <3>5. data' \in [Clusters -> [0 .. ClusterSize - 1 -> Cells]]
        BY <2>1, <2>4, <3>4, ZerosType, OverwriteType
      <3> QED
        BY <1>0, <1>3, <2>1, <2>2, <2>4, <3>2, <3>3, <3>4, <3>5
        DEF EraseNext, TypeOK, Labels, WriteLabels
    <2> QED BY <2>3, <2>4
  <1>4. CASE EraseEnd
    BY <1>4, TypeTruncated DEF EraseEnd
  <1> QED BY <1>1, <1>2, <1>3, <1>4 DEF Erase

\* The exfat_truncate() calls inside exfat_generic_pwrite() keep the types.
LEMMA SubTruncateType ==
  ASSUME TypeOK, op.node \in Nodes, NEW size \in Nat, NEW erase \in BOOLEAN,
         NEW then \in {"pwriteExtend", "pwriteData"}, op.kind = "pwrite",
         SubTruncate(size, erase, then), UNCHANGED <<node, disk, history>>
  PROVE  TypeOK'
  <1>0. op \in OpType
    BY DEF TypeOK
  <1>1. op' = [op EXCEPT !.size = size, !.erase = erase, !.then = then]
    BY DEF SubTruncate
  <1>2. op' \in OpType
    BY <1>0, <1>1, Zenon DEF OpType
  <1>3. /\ op'.node = op.node /\ op'.kind = op.kind
        /\ op'.len = op.len /\ op'.buf = op.buf /\ op'.remainder = op.remainder
    BY <1>0, <1>1 DEF OpType
  <1> QED
    BY <1>2, <1>3 DEF SubTruncate, TypeOK, disk, history, Labels, WriteLabels

\* The entry of the read and write loops keeps the types.
LEMMA IoStartType ==
  ASSUME TypeOK, pc # "idle", NEW remainder \in Nat, remainder <= op.len,
         NEW loop \in {"pwriteLoop", "preadLoop"},
         loop = "pwriteLoop" => op.kind = "pwrite",
         IoStart(remainder, loop)
  PROVE  TypeOK'
  <1>0. op \in OpType /\ op.node \in Nodes /\ op.off \in Nat
    BY DEF TypeOK, OpType
  <1>1. CASE remainder = 0
    BY <1>0, <1>1, ReturnType
    DEF IoStart, TypeOK, disk, history, Labels, WriteLabels
  <1>2. CASE remainder # 0
    <2> DEFINE o == [op EXCEPT !.loffset = op.off % ClusterSize,
                               !.remainder = remainder]
    <2>1. op.off % ClusterSize \in 0 .. ClusterSize - 1 /\ op.off \div ClusterSize \in Nat
      BY <1>0, ClusterAssumption
    <2>2. o \in OpType
      BY <1>0, <2>1, Zenon DEF OpType
    <2>3. /\ o.node = op.node /\ o.kind = op.kind /\ o.then = op.then
          /\ o.len = op.len /\ o.buf = op.buf /\ o.remainder = remainder
      BY <1>0 DEF OpType
    <2>4. CallAdvance(o, op.off \div ClusterSize, loop)
      BY <1>2 DEF IoStart
    <2> HIDE DEF o
    <2> QED BY <1>0, <2>1, <2>2, <2>3, <2>4, CallAdvanceType
  <1> QED BY <1>1, <1>2

\* The bytes written to a cluster are within the buffer.
LEMMA BufferPosition ==
  ASSUME NEW len \in Nat, NEW remainder \in Nat, NEW loffset \in Nat,
         NEW chunk \in Nat, remainder <= len, chunk <= remainder,
         NEW j \in loffset .. loffset + chunk - 1
  PROVE  (len - remainder) + j - loffset + 1 \in 1 .. len
OBVIOUS

\* exfat_generic_pread() and exfat_generic_pwrite() keep the types and stay
\* within their buffers.
LEMMA TypeIo ==
  ASSUME TypeOK, Io PROVE TypeOK'
  <1> DEFINE n == op.node
  <1>0. /\ n \in Nodes /\ op \in OpType /\ node[n] \in NodeType /\ pc # "idle"
        /\ op.remainder <= op.len
    BY DEF Io, WriteGap, WriteExtend, WriteStart, ReadStart, IoLoop, IoInvalid,
           IoEnd, TypeOK
  <1>a. /\ op.off \in Nat /\ op.len \in Nat /\ op.remainder \in Nat
        /\ op.loffset \in 0 .. ClusterSize - 1 /\ node[n].size \in Nat
        /\ op.cluster \in Word /\ op.buf \in Seq(Vals) /\ op.out \in Seq(Cells)
    BY <1>0 DEF OpType, NodeType
  <1>1. CASE WriteGap
    <2>1. CASE SubTruncate(op.off, TRUE, "pwriteExtend")
      BY <1>0, <1>a, <1>1, <2>1, SubTruncateType DEF WriteGap, TypeOK, WriteLabels
    <2>2. CASE Goto("pwriteExtend")
      BY <1>0, <1>1, <2>2
      DEF WriteGap, Goto, TypeOK, disk, history, Labels, WriteLabels
    <2> QED BY <1>1, <2>1, <2>2 DEF WriteGap
  <1>2. CASE WriteExtend
    <2>1. CASE SubTruncate(op.off + op.len, FALSE, "pwriteData")
      <3>1. op.off + op.len \in Nat
        BY <1>a
      <3>2. op.kind = "pwrite"
        BY <1>2 DEF WriteExtend, TypeOK, WriteLabels
      <3>3. UNCHANGED <<node, disk, history>>
        BY <1>2 DEF WriteExtend
      <3> QED BY <1>0, <2>1, <3>1, <3>2, <3>3, SubTruncateType
    <2>2. CASE Goto("pwriteData")
      BY <1>0, <1>2, <2>2
      DEF WriteExtend, Goto, TypeOK, disk, history, Labels, WriteLabels
    <2> QED BY <1>2, <2>1, <2>2 DEF WriteExtend
  <1>3. CASE WriteStart
    BY <1>0, <1>a, <1>3, IoStartType, SMTT(30) DEF WriteStart, TypeOK, WriteLabels
  <1>4. CASE ReadStart
    <2> DEFINE rem == IF op.off >= node[n].size THEN 0
                      ELSE Lesser(op.len, node[n].size - op.off)
    <2>1. rem \in Nat /\ rem <= op.len
      BY <1>a DEF Lesser
    <2>2. IoStart(rem, "preadLoop")
      BY <1>4 DEF ReadStart
    <2> HIDE DEF rem
    <2> QED BY <1>0, <2>1, <2>2, IoStartType
  <1>5. CASE IoLoop
    <2> DEFINE piece == [j \in 1 .. Chunk |-> data[op.cluster][op.loffset + j - 1]]
               out == IF pc = "pwriteLoop" THEN op.out ELSE op.out \o piece
    <2>1. PICK r \in NextCluster(n, op.cluster) :
            /\ faults' = faults + r.fault
            /\ op' = [op EXCEPT
                 !.cluster = r.cluster, !.loffset = 0,
                 !.remainder = op.remainder - Chunk, !.out = out]
      BY <1>5 DEF IoLoop
    <2>2. r.cluster \in Word /\ faults' \in 0 .. MaxFaults
      BY <1>0, <1>a, <2>1, NextClusterType
    <2>3. /\ Chunk \in Nat /\ Chunk <= op.remainder
          /\ Chunk + op.loffset <= ClusterSize
          /\ op.remainder - Chunk \in Nat /\ op.remainder - Chunk <= op.len
      BY <1>0, <1>a, ClusterAssumption, SMTT(30) DEF Chunk, Lesser
    <2>4. op.cluster \in Clusters
      BY <1>5 DEF IoLoop, CLUSTER_INVALID
    <2>5. out \in Seq(Cells)
      <3>1. ASSUME NEW j \in 1 .. Chunk
            PROVE  data[op.cluster][op.loffset + j - 1] \in Cells
        <4>0. op.loffset \in Nat /\ ClusterSize \in Nat /\ Chunk \in Nat
          BY <1>a, <2>3, ClusterAssumption
        <4>1. op.loffset + j - 1 \in 0 .. ClusterSize - 1
          BY <2>3, <4>0
        <4> QED BY <2>4, <4>1 DEF TypeOK
      <3>2. piece \in Seq(Cells)
        BY <2>3, <3>1, IsASeq
      <3> HIDE DEF piece
      <3> QED BY <1>a, <3>2, ConcatProperties
    <2>6. op' \in OpType
      <3> HIDE DEF out
      <3>1. 0 \in 0 .. ClusterSize - 1
        BY ClusterAssumption
      <3> QED BY <1>0, <2>1, <2>2, <2>3, <2>5, <3>1, Zenon DEF OpType
    <2>7. /\ op'.node = op.node /\ op'.kind = op.kind /\ op'.then = op.then
          /\ op'.len = op.len /\ op'.buf = op.buf
          /\ op'.remainder = op.remainder - Chunk
      <3> HIDE DEF out
      <3> QED BY <1>0, <2>1 DEF OpType
    <2>8. data' \in [Clusters -> [0 .. ClusterSize - 1 -> Cells]]
      <3>1. CASE pc = "pwriteLoop"
        <4>1. op.kind = "pwrite" /\ op.len = Len(op.buf) /\ op.loffset \in Nat
          BY <1>a, <3>1, ClusterAssumption DEF TypeOK, WriteLabels
        <4>2. ASSUME NEW j \in op.loffset .. op.loffset + Chunk - 1
              PROVE  op.buf[(op.len - op.remainder) + j - op.loffset + 1] \in Cells
          <5> DEFINE k == (op.len - op.remainder) + j - op.loffset + 1
          <5>1. k \in 1 .. op.len
            BY <1>0, <1>a, <2>3, <4>1, BufferPosition
          <5> HIDE DEF k
          <5>2. op.buf[k] \in Vals
            BY <1>a, <4>1, <5>1, ElementOfSeq
          <5> QED BY <5>2 DEF Cells, k
        <4>3. \A j \in DOMAIN Piece : Piece[j] \in Cells
          BY <4>2, Zenon DEF Piece
        <4> QED BY <1>5, <2>4, <3>1, <4>3, OverwriteType DEF IoLoop
      <3>2. CASE pc # "pwriteLoop"
        BY <1>5, <3>2 DEF IoLoop, TypeOK
      <3> QED BY <3>1, <3>2
    <2> QED
      BY <1>0, <1>5, <2>2, <2>3, <2>6, <2>7, <2>8
      DEF IoLoop, TypeOK, Labels, WriteLabels
  <1>6. CASE IoInvalid
    BY <1>0, <1>6, ReturnType
    DEF IoInvalid, TypeOK, disk, history, Labels, WriteLabels
  <1>7. CASE IoEnd
    <2>1. node' \in [Nodes -> NodeType]
      BY <1>0, <1>7 DEF IoEnd, TypeOK, NodeType
    <2> QED
      BY <1>0, <1>7, <2>1, ReturnType
      DEF IoEnd, TypeOK, disk, history, Labels, WriteLabels
  <1> QED
    BY <1>1, <1>2, <1>3, <1>4, <1>5, <1>6, <1>7 DEF Io

\* Device failures, failed assertions and returns keep the types.
LEMMA TypeStop ==
  ASSUME TypeOK, DeviceFails \/ AssertionFails \/ Done PROVE TypeOK'
  <1>1. CASE DeviceFails
    <2>1. pc # "idle" /\ faults' \in 0 .. MaxFaults
      BY <1>1, VolumeAssumption
      DEF DeviceFails, WritesFat, WritesData, ReadsData, CanFail, TypeOK
    <2> QED
      BY <1>1, <2>1, ReturnType DEF DeviceFails, TypeOK, disk, Labels, WriteLabels
  <1>2. CASE AssertionFails
    <2>1. /\ pc \in {"advance", "truncate", "shrink"}
          /\ op' = [op EXCEPT !.rc = pc]
      BY <1>2 DEF AssertionFails, BadCluster, BadPointer, exfat_bug
    <2>2. op \in OpType /\ pc \in Results
      BY <2>1 DEF TypeOK, Results
    <2>3. op' \in OpType
      BY <2>1, <2>2, Zenon DEF OpType
    <2>4. /\ op'.node = op.node /\ op'.kind = op.kind /\ op'.then = op.then
          /\ op'.len = op.len /\ op'.buf = op.buf /\ op'.remainder = op.remainder
      BY <2>1, <2>2 DEF OpType
    <2> QED
      BY <1>2, <2>1, <2>3, <2>4
      DEF AssertionFails, exfat_bug, TypeOK, disk, history, Labels, WriteLabels
  <1>3. CASE Done
    BY <1>3, NoOpType DEF Done, TypeOK, NoOp, disk, Labels, WriteLabels
  <1> QED BY <1>1, <1>2, <1>3

\* Every step keeps the types.
LEMMA TypeNext == TypeOK /\ [Next]_vars => TypeOK'
  <1>1. ASSUME TypeOK, UNCHANGED vars PROVE TypeOK'
    BY <1>1 DEF TypeOK, vars, disk, history
  <1> QED
    BY <1>1, TypeCall, TypeAdvance, TypeTruncate, TypeGrow, TypeShrink, TypeErase,
       TypeIo, TypeStop DEF Next, Step, Aborted

\* Type correctness of cluster.c and io.c: in every reachable state, for
\* every volume and every pattern of device failures, the clusters a call is
\* about to use exist, no counter of grow_file or shrink_file underflows and
\* a write stays within its buffer.
THEOREM TypeCorrect == Spec => []TypeOK
BY TypeInit, TypeNext, PTL DEF Spec

-----------------------------------------------------------------------------

(* Sizes *)

\* A larger file does not need fewer clusters.
LEMMA ClustersMonotone ==
  ASSUME NEW s1 \in Nat, NEW s2 \in Nat, s1 <= s2
  PROVE  bytes2clusters(s1) <= bytes2clusters(s2)
  <1>1. /\ s1 + ClusterSize - 1 \in Nat /\ s2 + ClusterSize - 1 \in Nat
        /\ s1 + ClusterSize - 1 <= s2 + ClusterSize - 1
        /\ ClusterSize \in Nat \ {0}
    BY ClusterAssumption
  <1> QED BY <1>1, DivMonotone DEF bytes2clusters

\* The cluster that holds a byte of the file is one of its clusters.
LEMMA ClusterOfByte ==
  ASSUME NEW byte \in Nat, NEW size \in Nat, byte < size
  PROVE  byte \div ClusterSize \in Nat /\ byte \div ClusterSize < bytes2clusters(size)
  <1> DEFINE q == byte \div ClusterSize
             d == (byte + ClusterSize) \div ClusterSize
  <1>1. ClusterSize \in Nat \ {0}
    BY ClusterAssumption
  <1>2. q \in Nat /\ d = q + 1
    BY <1>1
  <1>3. d <= bytes2clusters(size)
    <2>1. byte + ClusterSize <= size + ClusterSize - 1
      BY <1>1
    <2> QED BY <1>1, <2>1, DivMonotone DEF bytes2clusters
  <1>4. bytes2clusters(size) \in Nat
    BY Bytes2ClustersNat
  <1> HIDE DEF q, d
  <1>5. q \in Nat /\ q < bytes2clusters(size)
    BY <1>2, <1>3, <1>4
  <1> QED BY <1>5 DEF q

(* Clusters that are allocated and clusters that are next *)

\* The special values FREE, BAD and END are not clusters, and the number
\* after a cluster does not wrap around.
LEMMA ClusterNumbers ==
  /\ EXFAT_CLUSTER_FREE \notin Clusters
  /\ EXFAT_CLUSTER_BAD \notin Clusters
  /\ EXFAT_CLUSTER_END \notin Clusters
  /\ \A c \in Clusters : c \in Nat /\ Succ(c) = c + 1
BY ClusterAssumption DEF Clusters, EXFAT_CLUSTER_FREE, EXFAT_CLUSTER_BAD,
   EXFAT_CLUSTER_END, Succ

\* allocate_cluster() returns a cluster whose bit was clear.
LEMMA AllocatedFree ==
  ASSUME NEW c \in Clusters, NEW hint, Allocated(c, hint)
  PROVE  c \notin cmap
  <1>1. ASSUME NEW start, NEW end, FirstClear(c, start, end) PROVE c \notin cmap
    <2>1. c # EXFAT_CLUSTER_END /\ c \in Nat
      BY ClusterNumbers
    <2>2. c - 2 \in {bit \in start .. end - 1 : bit + 2 \notin cmap}
      BY <1>1, <2>1 DEF FirstClear
    <2>3. (c - 2) + 2 \notin cmap
      BY <2>2
    <2>4. (c - 2) + 2 = c
      BY <2>1
    <2> QED BY <2>3, <2>4
  <1> QED BY <1>1 DEF Allocated

\* exfat_next_cluster() returns the next number of a contiguous file, or the
\* FAT entry, or an invalid cluster if the FAT could not be read.
LEMMA NextOutcome ==
  ASSUME NEW n \in Nodes, NEW c \in Clusters, NEW r \in NextCluster(n, c)
  PROVE  \/ r.fault = 1 /\ r.cluster \notin Clusters
         \/ /\ r.fault = 0
            /\ r.cluster = IF node[n].is_contiguous THEN c + 1 ELSE fat[c]
  <1>1. CASE node[n].is_contiguous
    BY <1>1, ClusterNumbers DEF NextCluster
  <1>2. CASE ~node[n].is_contiguous
    BY <1>2, ClusterNumbers DEF NextCluster
  <1> QED BY <1>1, <1>2

\* The next cluster of one in the middle of a linked sequence is the next
\* one of the sequence, or the FAT could not be read.
LEMMA NextOfLinked ==
  ASSUME NEW n \in Nodes, NEW s \in Seq(Clusters), LinkedSeq(n, s),
         NEW i \in 1 .. Len(s) - 1, NEW r \in NextCluster(n, s[i])
  PROVE  \/ r.fault = 1 /\ r.cluster \notin Clusters
         \/ r.fault = 0 /\ r.cluster = s[i + 1]
  <1>1. i \in 1 .. Len(s) /\ i + 1 \in 1 .. Len(s) /\ Len(s) \in Nat
    BY LenProperties
  <1>2. s[i] \in Clusters /\ s[i + 1] \in Clusters /\ s[1] \in Clusters
    BY <1>1, ElementOfSeq
  <1>3. s[i] \in Nat /\ s[i + 1] \in Nat /\ s[1] \in Nat
    BY <1>2, ClusterNumbers
  <1>4. CASE node[n].is_contiguous
    <2>1. s[i] = s[1] + i - 1 /\ s[i + 1] = s[1] + (i + 1) - 1
      BY <1>1, <1>4 DEF LinkedSeq
    <2>2. s[i + 1] = s[i] + 1
      BY <1>1, <1>3, <2>1
    <2> QED BY <1>2, <1>4, <2>2, NextOutcome
  <1>5. CASE ~node[n].is_contiguous
    BY <1>2, <1>5, NextOutcome DEF LinkedSeq
  <1> QED BY <1>4, <1>5

(* What a step leaves alone *)

\* Ownership is kept by steps that neither allocate, free nor link.
LEMMA OwnUnchanged ==
  ASSUME OwnInv, UNCHANGED <<chain, cmap>>, tail' = tail \/ tail' = <<>>
  PROVE  OwnInv'
  <1>1. CASE tail' = tail
    BY <1>1 DEF OwnInv, Injective
  <1>2. CASE tail' = <<>>
    <2>1. Len(tail') = 0
      BY <1>2
    <2> QED BY <2>1 DEF OwnInv, Injective
  <1> QED BY <1>1, <1>2

\* The links are kept by steps that write neither FAT nor nodes.
LEMMA ChainUnchanged ==
  ASSUME ChainInv, UNCHANGED <<chain, fat>>,
         \A n \in Nodes : /\ node'[n].start_cluster = node[n].start_cluster
                          /\ node'[n].is_contiguous = node[n].is_contiguous
  PROVE  ChainInv'
BY DEF ChainInv, FileChain, LinkedSeq

\* The links of a file none of whose FAT entries is written.
LEMMA ChainFrame ==
  ASSUME NEW n \in Nodes, FileChain(n), chain'[n] = chain[n],
         chain[n] \in Seq(Clusters),
         node'[n].start_cluster = node[n].start_cluster,
         node'[n].is_contiguous = node[n].is_contiguous,
         \A i \in 1 .. Len(chain[n]) : fat'[chain[n][i]] = fat[chain[n][i]]
  PROVE  FileChain(n)'
  <1>1. CASE node[n].is_contiguous
    BY <1>1 DEF FileChain, LinkedSeq
  <1>2. CASE ~node[n].is_contiguous
    <2>1. \A i \in 1 .. Len(chain[n]) - 1 : i \in 1 .. Len(chain[n])
      BY LenProperties
    <2> QED BY <1>2, <2>1 DEF FileChain, LinkedSeq
  <1> QED BY <1>1, <1>2

\* A file that is neither resized nor read nor relinked stays settled.
LEMMA SettledUnchanged ==
  ASSUME NEW n \in Nodes, SettledFile(n), chain'[n] = chain[n],
         node'[n].size = node[n].size,
         node'[n].fptr_index = node[n].fptr_index,
         node'[n].fptr_cluster = node[n].fptr_cluster
  PROVE  SettledFile(n)'
BY DEF SettledFile, HasClusters, CursorAt

\* The other files, when a step changes at most the file of the call.
LEMMA OtherFiles ==
  ASSUME FilesInv, faults = 0, op'.node = op.node,
         pc' \notin QuietLabels \cup {"idle"},
         \A n \in Nodes \ {op.node} : node'[n] = node[n] /\ chain'[n] = chain[n]
  PROVE  FilesInv'
  <1> SUFFICES ASSUME faults' = 0, NEW n \in Nodes, n # op.node
               PROVE  SettledFile(n)'
    BY DEF FilesInv
  <1>1. SettledFile(n)
    BY DEF FilesInv
  <1> QED BY <1>1, SettledUnchanged

\* All files stay settled in a step that moves no cursor and resizes none.
LEMMA AllFiles ==
  ASSUME FilesInv, faults' = 0 => faults = 0, UNCHANGED chain,
         pc \in QuietLabels \cup {"idle"},
         \A n \in Nodes : /\ node'[n].size = node[n].size
                          /\ node'[n].fptr_index = node[n].fptr_index
                          /\ node'[n].fptr_cluster = node[n].fptr_cluster
  PROVE  FilesInv'
  <1> SUFFICES ASSUME faults' = 0, NEW n \in Nodes PROVE SettledFile(n)'
    BY DEF FilesInv
  <1>1. SettledFile(n)
    BY DEF FilesInv
  <1> QED BY <1>1, SettledUnchanged

\* A cluster of one file is not one of another file's.
LEMMA OtherChain ==
  ASSUME OwnInv, chain \in [Nodes -> Seq(Clusters)], NEW n \in Nodes, NEW m \in Nodes,
         m # n, NEW p \in 1 .. Len(chain[n])
  PROVE  \A i \in 1 .. Len(chain[m]) :
           chain[m][i] # chain[n][p] /\ chain[m][i] \in Clusters
  <1>1. chain[m] \in Seq(Clusters)
    OBVIOUS
  <1> QED BY <1>1, ElementOfSeq DEF OwnInv

\* A file has a cluster at one place only.
LEMMA SameChain ==
  ASSUME OwnInv, chain \in [Nodes -> Seq(Clusters)], NEW n \in Nodes,
         NEW i \in 1 .. Len(chain[n]), NEW j \in 1 .. Len(chain[n]), i # j
  PROVE  chain[n][i] # chain[n][j] /\ chain[n][i] \in Clusters
  <1>1. chain[n] \in Seq(Clusters)
    OBVIOUS
  <1> QED BY <1>1, ElementOfSeq DEF OwnInv, Injective

(* Init *)

\* A volume as mounted satisfies the invariant.
LEMMA InitInv == Init => SaneInv
  <1> SUFFICES ASSUME NEW l \in Layouts, NEW g \in FatGarbage, Init!(l, g)
               PROVE  SaneInv
    BY DEF Init
  <1>0. TypeOK
    BY TypeInit DEF Init
  <1> DEFINE k(n) == bytes2clusters(l[n].size)
  <1>1. ASSUME NEW n \in Nodes
        PROVE  /\ l[n].first \in Nat /\ l[n].size \in Nat /\ k(n) \in Nat
               /\ Len(chain[n]) = k(n)
               /\ \A i \in 1 .. k(n) : chain[n][i] = l[n].first + i - 1
    <2>1. l[n].first \in Nat /\ l[n].size \in Nat
      BY LayoutAssumption, ConstantTypes
    <2>2. k(n) \in Nat
      BY <2>1, Bytes2ClustersNat
    <2>3. chain[n] = [i \in 1 .. k(n) |-> l[n].first + i - 1]
      BY DEF LayoutRun
    <2>4. chain[n] \in Seq(Clusters)
      BY <1>0 DEF TypeOK
    <2> QED BY <2>1, <2>2, <2>3, <2>4
  <1>2. ASSUME NEW n \in Nodes, NEW i \in 1 .. k(n)
        PROVE  l[n].size # 0 /\ chain[n][i] \in LayoutClusters(l[n])
    <2>1. k(n) \in Nat /\ l[n].first \in Nat /\ chain[n][i] = l[n].first + i - 1
      BY <1>1
    <2>2. l[n].size # 0
      BY ZeroClusters
    <2>3. l[n].first + i - 1 \in l[n].first .. l[n].first + k(n) - 1
      BY <2>1
    <2> QED BY <2>1, <2>2, <2>3 DEF LayoutClusters
  <1>3. ASSUME NEW n \in Nodes, l[n].size # 0 PROVE k(n) >= 1
    BY <1>1, <1>3, PositiveClusters
  <1>4. ASSUME NEW n \in Nodes PROVE k(n) = 0 <=> l[n].first = 0
    <2>1. l[n].first = EXFAT_CLUSTER_FREE <=> l[n].size = 0
      BY LayoutAssumption
    <2> QED BY <1>1, <1>3, <2>1, ZeroClusters DEF EXFAT_CLUSTER_FREE
  <1>5. OwnInv
    <2>1. \A n \in Nodes : Injective(chain[n])
      <3> SUFFICES ASSUME NEW n \in Nodes, NEW i \in 1 .. k(n), NEW j \in 1 .. k(n),
                          chain[n][i] = chain[n][j]
                   PROVE  i = j
        BY <1>1 DEF Injective
      <3>1. /\ l[n].first \in Nat /\ k(n) \in Nat
            /\ chain[n][i] = l[n].first + i - 1 /\ chain[n][j] = l[n].first + j - 1
        BY <1>1
      <3> QED BY <3>1
    <2>2. ASSUME NEW n \in Nodes, NEW m \in Nodes, n # m,
                 NEW i \in 1 .. Len(chain[n]), NEW j \in 1 .. Len(chain[m])
          PROVE  chain[n][i] # chain[m][j]
      <3>1. /\ l[n].size # 0 /\ chain[n][i] \in LayoutClusters(l[n])
            /\ l[m].size # 0 /\ chain[m][j] \in LayoutClusters(l[m])
        BY <1>1, <1>2
      <3>2. LayoutClusters(l[n]) \cap LayoutClusters(l[m]) = {}
        BY <2>2, <3>1, LayoutAssumption
      <3> QED BY <3>1, <3>2
    <2>3. ASSUME NEW n \in Nodes, NEW i \in 1 .. Len(chain[n])
          PROVE  chain[n][i] \in cmap /\ chain[n][i] \notin Reserved
      <3>1. l[n].size # 0 /\ chain[n][i] \in LayoutClusters(l[n])
        BY <1>1, <1>2
      <3>2. LayoutClusters(l[n]) \subseteq Clusters \ Reserved
        BY <3>1, LayoutAssumption
      <3> QED BY <3>1, <3>2
    <2>4. Len(tail) = 0 /\ Reserved \subseteq cmap
      OBVIOUS
    <2> QED BY <2>1, <2>2, <2>3, <2>4 DEF OwnInv, Injective
  <1>6. ChainInv
    <2> SUFFICES ASSUME NEW n \in Nodes
                 PROVE  /\ Len(chain[n]) = 0 => node[n].start_cluster = EXFAT_CLUSTER_FREE
                        /\ Len(chain[n]) > 0 => node[n].start_cluster = chain[n][1]
                        /\ LinkedSeq(n, chain[n])
      BY DEF ChainInv, FileChain
    <2>1. /\ node[n].start_cluster = l[n].first
          /\ node[n].is_contiguous = (l[n].size # 0)
      OBVIOUS
    <2>2. Len(chain[n]) = 0 => node[n].start_cluster = EXFAT_CLUSTER_FREE
      BY <1>1, <1>4, <2>1 DEF EXFAT_CLUSTER_FREE
    <2>3. Len(chain[n]) > 0 => chain[n][1] = l[n].first
      <3>1. /\ l[n].first \in Nat /\ k(n) \in Nat /\ Len(chain[n]) = k(n)
            /\ \A i \in 1 .. k(n) : chain[n][i] = l[n].first + i - 1
        BY <1>1
      <3> QED BY <3>1
    <2>4. CASE l[n].size # 0
      <3>1. ASSUME NEW i \in 1 .. Len(chain[n])
            PROVE  chain[n][i] = chain[n][1] + i - 1
        <4>1. k(n) \in Nat /\ Len(chain[n]) = k(n)
          BY <1>1
        <4>2. chain[n][1] = l[n].first
          BY <2>3, <4>1
        <4>3. chain[n][i] = l[n].first + i - 1
          BY <1>1, <4>1
        <4> QED BY <4>2, <4>3
      <3> QED BY <2>1, <2>2, <2>3, <2>4, <3>1 DEF LinkedSeq
    <2>5. CASE l[n].size = 0
      <3>1. Len(chain[n]) = 0
        BY <1>1, <2>5, ZeroClusters
      <3> QED BY <2>1, <2>2, <2>5, <3>1 DEF LinkedSeq
    <2> QED BY <2>4, <2>5
  <1>7. FilesInv
    <2> SUFFICES ASSUME NEW n \in Nodes PROVE SettledFile(n)
      BY DEF FilesInv
    <2>1. /\ node[n].fptr_index = 0 /\ node[n].fptr_cluster = l[n].first
          /\ node[n].size = l[n].size
      OBVIOUS
    <2>2. HasClusters(n, bytes2clusters(node[n].size))
      BY <1>1, <2>1 DEF HasClusters
    <2>3. CursorAt(n, 0)
      <3>1. /\ l[n].first \in Nat /\ k(n) \in Nat /\ Len(chain[n]) = k(n)
            /\ k(n) = 0 <=> l[n].first = 0
            /\ \A i \in 1 .. k(n) : chain[n][i] = l[n].first + i - 1
        BY <1>1, <1>4
      <3>2. k(n) # 0 => chain[n][0 + 1] = l[n].first
        BY <3>1
      <3> QED BY <2>1, <3>1, <3>2 DEF CursorAt, EXFAT_CLUSTER_FREE
    <2> QED BY <2>1, <2>2, <2>3 DEF SettledFile
  <1>8. CallInv
    <2>1. pc = "idle" /\ tail = <<>> /\ op.then = "done" /\ ~op.rollback /\ faults = 0
      BY DEF NoOp
    <2> QED BY <2>1 DEF CallInv, GrowLabels
  <1> QED BY <1>5, <1>6, <1>7, <1>8 DEF SaneInv

(* Beginning and ending a call *)

\* Beginning a call keeps the invariant.
LEMMA BeginInv ==
  ASSUME TypeOK, SaneInv, sane', Call PROVE SaneInv'
  <1>1. /\ pc = "idle" /\ faults = 0 /\ UNCHANGED <<node, cmap, fat, chain, tail, faults>>
        /\ pc' \in {"truncate", "pwrite", "pread"}
    BY DEF Call, exfat_truncate, exfat_generic_pwrite, exfat_generic_pread, Begin, disk
  <1>2. op'.then = "done" /\ ~op'.rollback /\ op'.allocated = 0
    BY ZenonT(60) DEF Call, exfat_truncate, exfat_generic_pwrite, exfat_generic_pread, Begin, NoOp
  <1>3. OwnInv' /\ ChainInv'
    BY <1>1, OwnUnchanged, ChainUnchanged DEF SaneInv
  <1>4. FilesInv'
    BY <1>1, AllFiles DEF SaneInv
  <1>5. tail' = <<>>
    BY <1>1 DEF SaneInv, CallInv
  <1>6. CallInv'
    BY <1>1, <1>2, <1>5 DEF CallInv, GrowLabels
  <1> QED BY <1>3, <1>4, <1>6 DEF SaneInv

\* A call returns: it has left its file settled, or met a failure.
LEMMA ReturnInv ==
  ASSUME SaneInv, op \in OpType, NEW rc, Return(rc), UNCHANGED <<chain, fat, cmap>>,
         tail' = <<>>,
         \A n \in Nodes : /\ node'[n].start_cluster = node[n].start_cluster
                          /\ node'[n].is_contiguous = node[n].is_contiguous,
         FilesInv'
  PROVE  SaneInv'
  <1>1. pc' = "done"
    BY DEF Return
  <1>2. /\ op'.node = op.node /\ op'.then = op.then /\ op'.size = op.size
        /\ op'.off = op.off /\ op'.len = op.len
    BY DEF Return, OpType
  <1>3. op'.then = "pwriteData" => op'.size = op'.off + op'.len
    BY <1>2 DEF SaneInv, CallInv
  <1>4. CallInv'
    BY <1>1, <1>3 DEF CallInv, GrowLabels
  <1> QED BY <1>4, OwnUnchanged, ChainUnchanged DEF SaneInv

\* The return to the caller keeps the invariant.
LEMMA DoneInv ==
  ASSUME TypeOK, SaneInv, Done PROVE SaneInv'
  <1>1. /\ pc = "done" /\ pc' = "idle" /\ op' = NoOp
        /\ UNCHANGED <<node, cmap, fat, chain, tail, faults>>
    BY DEF Done, disk
  <1>2. op'.then = "done" /\ ~op'.rollback
    BY <1>1 DEF NoOp
  <1>3. OwnInv' /\ ChainInv'
    BY <1>1, OwnUnchanged, ChainUnchanged DEF SaneInv
  <1>4. FilesInv'
    BY <1>1, AllFiles DEF SaneInv, QuietLabels
  <1>5. tail' = <<>>
    BY <1>1 DEF SaneInv, CallInv
  <1>6. CallInv'
    BY <1>1, <1>2, <1>5 DEF CallInv, GrowLabels
  <1> QED BY <1>3, <1>4, <1>6 DEF SaneInv

\* A device failure keeps ownership and links: what the call has done so far
\* stays behind.
LEMMA DeviceFailsInv ==
  ASSUME TypeOK, SaneInv, DeviceFails PROVE SaneInv'
  <1>1. /\ faults' = faults + 1 /\ Return("EIO") /\ tail' = <<>>
        /\ UNCHANGED <<node, cmap, fat, chain>>
    BY DEF DeviceFails, disk
  <1>2. faults' # 0
    BY <1>1 DEF TypeOK
  <1>3. FilesInv'
    BY <1>2 DEF FilesInv
  <1> QED BY <1>1, <1>3, ReturnInv DEF TypeOK

\* A failed assertion keeps the invariant.
LEMMA AssertionFailsInv ==
  ASSUME TypeOK, SaneInv, AssertionFails PROVE SaneInv'
  <1>1. /\ pc \in {"advance", "truncate", "shrink"}
        /\ pc' = "bug" /\ op' = [op EXCEPT !.rc = pc]
        /\ UNCHANGED <<node, cmap, fat, chain, tail, faults>>
    BY DEF AssertionFails, BadCluster, BadPointer, exfat_bug, disk, history
  <1>2. tail = <<>> /\ faults = 0
    BY <1>1 DEF SaneInv, CallInv, TypeOK
  <1>3. /\ op'.node = op.node /\ op'.then = op.then /\ op'.size = op.size
        /\ op'.off = op.off /\ op'.len = op.len
    BY <1>1 DEF TypeOK, OpType
  <1>4. OwnInv' /\ ChainInv'
    BY <1>1, OwnUnchanged, ChainUnchanged DEF SaneInv
  <1>5. FilesInv'
    BY <1>1, <1>2, <1>3, OtherFiles DEF SaneInv, QuietLabels
  <1>6. op'.then = "pwriteData" => op'.size = op'.off + op'.len
    BY <1>3 DEF SaneInv, CallInv
  <1>7. CallInv'
    BY <1>1, <1>2, <1>6 DEF CallInv, GrowLabels
  <1> QED BY <1>4, <1>5, <1>7 DEF SaneInv

(* The cursor *)

\* The facts of CallInv that do not depend on the label, for arguments o.
ArgsOK(o) ==
  /\ o.then # "done" => o.size > node[op.node].size
  /\ o.then = "pwriteData" => o.size = o.off + o.len

\* The entry of exfat_advance_cluster() keeps the invariant when the caller
\* asks for a cluster that the file has: the cursor stays in the chain, or
\* restarts at its first cluster.
LEMMA CallAdvanceInv ==
  ASSUME TypeOK, SaneInv, op.node \in Nodes, faults = 0, tail = <<>>,
         NEW o \in OpType, NEW count \in Nat,
         NEW ret \in {"growLoop", "shrinkCrop", "eraseFirst", "pwriteLoop",
                      "preadLoop"},
         CallAdvance(o, count, ret), o.node = op.node, ArgsOK(o),
         count < Len(chain[op.node]),
         CursorAt(op.node, node[op.node].fptr_index),
         ret = "growLoop" =>
           /\ Len(chain[op.node]) = o.current /\ o.allocated = 0
           /\ o.current = bytes2clusters(node[op.node].size)
           /\ o.current + o.difference = bytes2clusters(o.size)
           /\ count = o.current - 1,
         ret = "shrinkCrop" =>
           /\ Len(chain[op.node]) = o.current
           /\ 0 < o.difference /\ o.difference <= o.current
           /\ o.current - o.difference =
                bytes2clusters(IF o.rollback THEN node[op.node].size ELSE o.size)
           /\ count = o.current - o.difference - 1
           /\ o.rollback \/ (o.then = "done" /\ o.size < node[op.node].size),
         ret = "eraseFirst" => Len(chain[op.node]) = bytes2clusters(o.size),
         ret \in {"pwriteLoop", "preadLoop"} =>
           Len(chain[op.node]) = bytes2clusters(node[op.node].size),
         o.rollback => ret = "shrinkCrop"
  PROVE  SaneInv'
  <1> DEFINE n == op.node
  <1>1. /\ pc' = "advance" /\ UNCHANGED <<cmap, fat, chain, tail, faults>>
    BY DEF CallAdvance, disk, history
  <1>2. node[n] \in NodeType /\ node[n].fptr_index \in Nat /\ chain[n] \in Seq(Clusters)
    BY DEF TypeOK, NodeType
  <1>3. /\ node'[n].start_cluster = node[n].start_cluster
        /\ node'[n].is_contiguous = node[n].is_contiguous
        /\ node'[n].size = node[n].size
        /\ \A m \in Nodes \ {n} : node'[m] = node[m]
    BY <1>2 DEF CallAdvance, TypeOK, NodeType
  <1>4. PICK i \in Nat :
          /\ op' = [o EXCEPT !.count = count, !.ret = ret, !.i = i]
          /\ i <= count
          /\ node'[n].fptr_cluster = chain[n][i + 1]
    <2>1. Len(chain[n]) \in Nat /\ Len(chain[n]) > 0
      BY <1>2, LenProperties
    <2>2. CASE node[n].fptr_index > count
      <3>1. node[n].start_cluster = chain[n][0 + 1]
        BY <2>1 DEF SaneInv, ChainInv, FileChain
      <3>2. node'[n].fptr_cluster = node[n].start_cluster
        BY <1>2, <2>2 DEF CallAdvance, TypeOK, NodeType
      <3>3. op' = [o EXCEPT !.count = count, !.ret = ret, !.i = 0]
        BY <2>2 DEF CallAdvance
      <3> WITNESS 0 \in Nat
      <3> QED BY <3>1, <3>2, <3>3
    <2>3. CASE ~(node[n].fptr_index > count)
      <3>1. node[n].fptr_cluster = chain[n][node[n].fptr_index + 1]
        BY <2>1 DEF CursorAt
      <3>2. node' = node /\ op' = [o EXCEPT !.count = count, !.ret = ret,
                                            !.i = node[n].fptr_index]
        BY <2>3 DEF CallAdvance
      <3>3. node[n].fptr_index \in Nat
        BY <1>2
      <3> WITNESS node[n].fptr_index \in Nat
      <3> QED BY <1>2, <2>3, <3>1, <3>2
    <2> QED BY <2>2, <2>3
  <1>5. /\ op'.node = op.node /\ op'.then = o.then /\ op'.size = o.size
        /\ op'.off = o.off /\ op'.len = o.len /\ op'.i = i /\ op'.count = count
        /\ op'.ret = ret /\ op'.current = o.current
        /\ op'.difference = o.difference /\ op'.allocated = o.allocated
        /\ op'.rollback = o.rollback
    BY <1>4 DEF OpType
  <1>6. OwnInv' /\ ChainInv'
    BY <1>1, <1>3, OwnUnchanged, ChainUnchanged DEF SaneInv
  <1>7. FilesInv'
    BY <1>1, <1>3, <1>5, OtherFiles DEF SaneInv, QuietLabels
  <1>8. CallInv'
    <2>1. Len(chain'[n]) \in Nat /\ Len(chain'[n]) > 0 /\ i < Len(chain'[n])
      BY <1>1, <1>2, <1>4, LenProperties
    <2>2. CursorAt(op.node, op.i)'
      BY <1>1, <1>4, <1>5, <2>1 DEF CursorAt
    <2>3. ASSUME ret = "growLoop" PROVE GrowInv'
      <3>1. o.current \in Nat /\ o.difference \in Nat
        BY DEF OpType
      <3> QED
        BY <1>1, <1>3, <1>5, <2>1, <2>3, <3>1 DEF GrowInv, HasClusters
    <2>4. ret = "shrinkCrop" =>
            ShrinksTo(op.current - op.difference)'
      BY <1>1, <1>3, <1>5 DEF ShrinksTo
    <2>5. ArgsOK(op)'
      BY <1>3, <1>5 DEF ArgsOK
    <2> QED
      BY <1>1, <1>3, <1>4, <1>5, <2>2, <2>3, <2>4, <2>5
      DEF CallInv, GrowLabels, HasClusters, ArgsOK
  <1> QED BY <1>6, <1>7, <1>8 DEF SaneInv

\* The loop of exfat_advance_cluster() moves the cursor along the chain.
LEMMA CursorInv ==
  ASSUME TypeOK, TypeOK', SaneInv, Advance PROVE SaneInv'
  <1> DEFINE n == op.node
             s == chain[n]
  <1>0. /\ pc = "advance" /\ n \in Nodes /\ node[n] \in NodeType /\ op \in OpType
        /\ s \in Seq(Clusters) /\ Len(s) \in Nat /\ op.i \in Nat /\ op.count \in Nat
        /\ op.current \in Nat /\ op.difference \in Nat /\ op.allocated \in Nat
    BY LenProperties DEF Advance, AdvanceLoop, AdvanceEnd, TypeOK, OpType
  <1>1. /\ tail = <<>> /\ faults = 0 /\ op.i <= op.count /\ op.count < Len(s)
        /\ node[n].fptr_cluster = s[op.i + 1] /\ ArgsOK(op)
    BY <1>0 DEF SaneInv, CallInv, CursorAt, TypeOK, ArgsOK
  <1>2. CASE AdvanceLoop
    <2>1. PICK r \in NextCluster(n, node[n].fptr_cluster) :
            /\ faults' = faults + r.fault
            /\ IF CLUSTER_INVALID(r.cluster)
               THEN /\ node' = [node EXCEPT ![n].fptr_cluster = r.cluster,
                                            ![n].fptr_index = op.count]
                    /\ Return("EIO")
               ELSE /\ node' = [node EXCEPT ![n].fptr_cluster = r.cluster]
                    /\ op' = [op EXCEPT !.i = op.i + 1]
                    /\ UNCHANGED pc
      BY <1>2 DEF AdvanceLoop
    <2>2. op.i + 1 \in 1 .. Len(s) - 1 /\ op.i < op.count /\ op.i + 2 \in 1 .. Len(s)
      BY <1>0, <1>1, <1>2, SMTT(30) DEF AdvanceLoop
    <2>3. \/ r.fault = 1 /\ r.cluster \notin Clusters
          \/ r.fault = 0 /\ r.cluster = s[op.i + 2] /\ r.cluster \in Clusters
      <3>1. LinkedSeq(n, s)
        BY <1>0 DEF SaneInv, ChainInv, FileChain
      <3>2. \/ r.fault = 1 /\ r.cluster \notin Clusters
            \/ r.fault = 0 /\ r.cluster = s[(op.i + 1) + 1]
        <4> DEFINE k == op.i + 1
        <4>1. r \in NextCluster(n, s[k]) /\ k \in 1 .. Len(s) - 1
          BY <1>1, <2>1, <2>2
        <4> HIDE DEF k
        <4>2. \/ r.fault = 1 /\ r.cluster \notin Clusters
              \/ r.fault = 0 /\ r.cluster = s[k + 1]
          BY <1>0, <3>1, <4>1, NextOfLinked
        <4> QED BY <4>2 DEF k
      <3>3. (op.i + 1) + 1 = op.i + 2
        BY <1>0
      <3> QED BY <1>0, <2>2, <3>2, <3>3, ElementOfSeq
    <2>4. UNCHANGED <<cmap, fat, chain, tail>>
      BY <1>2 DEF AdvanceLoop, disk
    <2>5. CASE r.fault = 1 /\ r.cluster \notin Clusters
      <3>1. /\ Return("EIO") /\ faults' # 0
            /\ node' = [node EXCEPT ![n].fptr_cluster = r.cluster,
                                    ![n].fptr_index = op.count]
        BY <1>1, <2>1, <2>5 DEF CLUSTER_INVALID
      <3>2. FilesInv'
        BY <3>1 DEF FilesInv
      <3>3. \A m \in Nodes : /\ node'[m].start_cluster = node[m].start_cluster
                             /\ node'[m].is_contiguous = node[m].is_contiguous
        BY <1>0, <3>1 DEF TypeOK, NodeType
      <3> QED BY <1>0, <1>1, <2>4, <3>1, <3>2, <3>3, ReturnInv
    <2>6. CASE r.fault = 0 /\ r.cluster = s[op.i + 2] /\ r.cluster \in Clusters
      <3>1. /\ node' = [node EXCEPT ![n].fptr_cluster = r.cluster]
            /\ op' = [op EXCEPT !.i = op.i + 1] /\ pc' = "advance"
            /\ faults' = 0
        BY <1>0, <1>1, <2>1, <2>6 DEF CLUSTER_INVALID
      <3>2. /\ \A m \in Nodes \ {n} : node'[m] = node[m]
            /\ node'[n].start_cluster = node[n].start_cluster
            /\ node'[n].is_contiguous = node[n].is_contiguous
            /\ node'[n].size = node[n].size
            /\ node'[n].fptr_cluster = s[op.i + 2]
        BY <1>0, <2>6, <3>1 DEF TypeOK, NodeType
      <3>3. /\ op'.node = op.node /\ op'.then = op.then /\ op'.size = op.size
            /\ op'.off = op.off /\ op'.len = op.len /\ op'.i = op.i + 1
            /\ op'.count = op.count /\ op'.ret = op.ret
            /\ op'.current = op.current /\ op'.difference = op.difference
            /\ op'.allocated = op.allocated /\ op'.rollback = op.rollback
        BY <1>0, <3>1 DEF OpType
      <3>4. OwnInv' /\ ChainInv'
        BY <2>4, <3>2, OwnUnchanged, ChainUnchanged DEF SaneInv
      <3>5. FilesInv'
        BY <1>1, <2>4, <3>1, <3>2, <3>3, OtherFiles DEF SaneInv, QuietLabels
      <3>6. CursorAt(op.node, op.i)' /\ op'.i <= op'.count
        <4>1. (op.i + 1) + 1 = op.i + 2 /\ op.i + 1 < Len(s) /\ Len(s) # 0
              /\ op.i + 1 <= op.count
          BY <1>0, <1>1, <2>2, SMTT(30)
        <4> QED BY <2>4, <3>2, <3>3, <4>1 DEF CursorAt
      <3>7. CallInv'
        BY <1>0, <1>1, <2>4, <3>1, <3>2, <3>3, <3>6
        DEF SaneInv, CallInv, GrowLabels, HasClusters, GrowInv, ShrinksTo
      <3> QED BY <3>4, <3>5, <3>7 DEF SaneInv
    <2> QED BY <2>3, <2>5, <2>6
  <1>3. CASE AdvanceEnd
    <2>1. op.i = op.count /\ node[n].fptr_cluster = s[op.count + 1]
          /\ op.count + 1 \in 1 .. Len(s)
      BY <1>0, <1>1, <1>3 DEF AdvanceEnd
    <2>2. node[n].fptr_cluster \in Clusters
      BY <1>0, <2>1, ElementOfSeq
    <2>3. /\ node' = [node EXCEPT ![n].fptr_index = op.count]
          /\ op' = [op EXCEPT !.cluster = node[n].fptr_cluster]
          /\ pc' = op.ret
          /\ UNCHANGED <<cmap, fat, chain, tail, faults>>
      BY <1>3, <2>2 DEF AdvanceEnd, CLUSTER_INVALID, disk, history
    <2>4. /\ \A m \in Nodes \ {n} : node'[m] = node[m]
          /\ node'[n].start_cluster = node[n].start_cluster
          /\ node'[n].is_contiguous = node[n].is_contiguous
          /\ node'[n].size = node[n].size
          /\ node'[n].fptr_cluster = s[op.count + 1]
          /\ node'[n].fptr_index = op.count
      BY <1>0, <2>1, <2>3 DEF TypeOK, NodeType
    <2>5. /\ op'.node = op.node /\ op'.then = op.then /\ op'.size = op.size
          /\ op'.off = op.off /\ op'.len = op.len
          /\ op'.cluster = s[op.count + 1]
          /\ op'.current = op.current /\ op'.difference = op.difference
          /\ op'.allocated = op.allocated /\ op'.rollback = op.rollback
      BY <1>0, <2>1, <2>3 DEF OpType
    <2>6. op.ret \in {"growLoop", "shrinkCrop", "eraseFirst", "pwriteLoop",
                      "preadLoop"}
      BY <1>0 DEF TypeOK, OpType
    <2>7. OwnInv' /\ ChainInv'
      BY <2>3, <2>4, OwnUnchanged, ChainUnchanged DEF SaneInv
    <2>8. CursorAt(op.node, node[op.node].fptr_index)'
      BY <1>0, <1>1, <2>3, <2>4, <2>5 DEF CursorAt
    <2>9. FilesInv'
      <3>1. CASE op.ret \in {"growLoop", "shrinkCrop", "eraseFirst"}
        BY <1>1, <2>3, <2>4, <2>5, <3>1, OtherFiles DEF SaneInv, QuietLabels
      <3>2. CASE op.ret \in {"pwriteLoop", "preadLoop"}
        <4>1. SettledFile(op.node)'
          BY <1>0, <2>3, <2>4, <2>5, <2>8, <3>2
          DEF SaneInv, CallInv, SettledFile, HasClusters
        <4>2. ASSUME NEW m \in Nodes, m # n PROVE SettledFile(m)'
          <5>1. SettledFile(m)
            BY <1>1, <4>2 DEF SaneInv, FilesInv
          <5> QED BY <2>3, <2>4, <4>2, <5>1, SettledUnchanged
        <4> QED BY <2>5, <4>1, <4>2 DEF FilesInv
      <3> QED BY <2>6, <3>1, <3>2
    <2>10. CallInv'
      <3>1. tail' = <<>> /\ faults' = 0 /\ ArgsOK(op)'
        BY <1>1, <2>3, <2>4, <2>5 DEF ArgsOK
      <3>2. op'.rollback => op.ret = "shrinkCrop"
        BY <1>0, <2>5 DEF SaneInv, CallInv
      <3>3. CASE op.ret = "growLoop"
        <4>1. /\ Len(s) = op.current + op.allocated /\ op.allocated = 0
              /\ op.count = op.current - 1 /\ GrowInv
          BY <1>0, <3>3 DEF SaneInv, CallInv, GrowInv, HasClusters
        <4>2. op.count + 1 = Len(s)
          BY <1>0, <4>1
        <4>3. GrowInv'
          BY <2>3, <2>4, <2>5, <4>1 DEF GrowInv, HasClusters
        <4> QED
          BY <2>3, <2>4, <2>5, <2>8, <3>1, <3>2, <3>3, <4>2, <4>3
          DEF CallInv, GrowLabels, ArgsOK
      <3>4. CASE op.ret = "shrinkCrop"
        <4>1. /\ Len(s) = op.current /\ op.difference < op.current
              /\ 0 < op.difference /\ ShrinksTo(op.current - op.difference)
              /\ op.count = op.current - op.difference - 1
              /\ op.rollback \/ (op.then = "done" /\ op.size < node[n].size)
          BY <1>0, <3>4 DEF SaneInv, CallInv, HasClusters, TypeOK
        <4>2. op.count + 1 = op.current - op.difference
          BY <1>0, <4>1
        <4>3. ShrinksTo(op.current - op.difference)'
          BY <2>4, <2>5, <4>1 DEF ShrinksTo
        <4> QED
          BY <2>3, <2>4, <2>5, <2>8, <3>1, <3>2, <3>4, <4>1, <4>2, <4>3
          DEF CallInv, GrowLabels, ArgsOK, HasClusters
      <3>5. CASE op.ret = "eraseFirst"
        <4>1. Len(s) = bytes2clusters(op.size)
          BY <1>0, <3>5 DEF SaneInv, CallInv, HasClusters
        <4> QED
          BY <2>3, <2>4, <2>5, <2>8, <3>1, <3>2, <3>5, <4>1
          DEF CallInv, GrowLabels, ArgsOK, HasClusters
      <3>6. CASE op.ret \in {"pwriteLoop", "preadLoop"}
        BY <2>3, <2>4, <2>5, <3>1, <3>2, <3>6 DEF CallInv, GrowLabels, ArgsOK
      <3> QED BY <2>6, <3>3, <3>4, <3>5, <3>6
    <2> QED BY <2>7, <2>9, <2>10 DEF SaneInv
  <1> QED BY <1>2, <1>3 DEF Advance

(* exfat_truncate *)

\* The dispatch of exfat_truncate() keeps the invariant.
LEMMA TruncateInv ==
  ASSUME TypeOK, SaneInv, Truncate PROVE SaneInv'
  <1> DEFINE n == op.node
  <1>0. /\ pc = "truncate" /\ n \in Nodes /\ op \in OpType
        /\ node[n].size \in Nat /\ op.size \in Nat
        /\ UNCHANGED <<node, cmap, fat, chain, tail, faults>>
    BY DEF Truncate, TruncateWithin, TruncateShrink, TypeOK, NodeType, OpType, disk,
           history
  <1>1. /\ tail = <<>> /\ faults = 0 /\ SettledFile(n) /\ ArgsOK(op) /\ ~op.rollback
    BY <1>0 DEF SaneInv, CallInv, FilesInv, QuietLabels, TypeOK, ArgsOK
  <1>2. OwnInv' /\ ChainInv'
    BY <1>0, OwnUnchanged, ChainUnchanged DEF SaneInv
  <1>3. CASE TruncateWithin
    <2>1. CASE node[n].size # op.size
      <3>1. pc' = "erase" /\ op' = op
        BY <1>3, <2>1 DEF TruncateWithin, Goto
      <3>2. FilesInv'
        BY <1>0, <1>1, <3>1, OtherFiles DEF SaneInv, QuietLabels
      <3>3. Current = Target
        BY <1>3 DEF TruncateWithin
      <3>4. CallInv'
        BY <1>0, <1>1, <3>1, <3>3
        DEF CallInv, GrowLabels, ArgsOK, SettledFile, HasClusters, CursorAt,
            Current, Target
      <3> QED BY <1>2, <3>2, <3>4 DEF SaneInv
    <2>2. CASE node[n].size = op.size
      <3>1. op.then = "done"
        BY <1>0, <1>1, <2>2 DEF ArgsOK
      <3>2. Return("ok")
        BY <1>3, <2>2, <3>1 DEF TruncateWithin
      <3>3. FilesInv'
        BY <1>0, AllFiles DEF SaneInv, QuietLabels
      <3> QED BY <1>0, <1>1, <3>2, <3>3, ReturnInv
    <2> QED BY <2>1, <2>2
  <1>4. CASE TruncateShrink
    <2>1. /\ pc' = "shrink" /\ Current > Target
          /\ op' = [op EXCEPT !.current = Current, !.difference = Current - Target]
      BY <1>4 DEF TruncateShrink
    <2>2. /\ op'.node = op.node /\ op'.then = op.then /\ op'.size = op.size
          /\ op'.off = op.off /\ op'.len = op.len /\ op'.current = Current
          /\ op'.difference = Current - Target /\ op'.rollback = op.rollback
      BY <1>0, <2>1 DEF OpType
    <2>3. Current \in Nat /\ Target \in Nat
      BY <1>0, CurrentType
    <2>4. op.size < node[n].size
      <3> SUFFICES ASSUME node[n].size <= op.size PROVE FALSE
        BY <1>0
      <3>1. Current <= Target
        BY <1>0, ClustersMonotone DEF Current, Target
      <3> QED BY <2>1, <2>3, <3>1
    <2>5. op.then = "done"
      BY <1>0, <1>1, <2>4 DEF ArgsOK
    <2>6. FilesInv'
      BY <1>0, <1>1, <2>1, <2>2, OtherFiles DEF SaneInv, QuietLabels
    <2>7. /\ Len(chain'[n]) = Current /\ CursorAt(op.node, node[op.node].fptr_index)'
      BY <1>0, <1>1, <2>2 DEF SettledFile, HasClusters, CursorAt, Current
    <2>8. ShrinksTo(op.current - op.difference)'
      <3>1. Current - (Current - Target) = Target
        BY <2>3
      <3> QED BY <1>0, <1>1, <2>2, <3>1 DEF ShrinksTo, Target
    <2>9. 0 < Current - Target /\ Current - Target <= Current
      BY <2>1, <2>3
    <2>10. CallInv'
      BY <1>0, <1>1, <2>1, <2>2, <2>4, <2>5, <2>7, <2>8, <2>9
      DEF CallInv, GrowLabels, HasClusters
    <2> QED BY <1>2, <2>6, <2>10 DEF SaneInv
  <1> QED BY <1>3, <1>4 DEF Truncate

(* grow_file *)

\* grow_file() of a file with clusters looks for its last one.
LEMMA GrowStartInv ==
  ASSUME TypeOK, SaneInv, GrowStart PROVE SaneInv'
  <1> DEFINE n == op.node
  <1>0. /\ pc = "truncate" /\ n \in Nodes /\ op \in OpType /\ Current < Target
        /\ node[n].start_cluster # EXFAT_CLUSTER_FREE
        /\ CallAdvance(GrowOp, Minus(Current, 1), "growLoop")
        /\ chain[n] \in Seq(Clusters)
    BY DEF GrowStart, TypeOK
  <1>1. /\ tail = <<>> /\ faults = 0 /\ SettledFile(n) /\ ArgsOK(op) /\ ~op.rollback
        /\ op.allocated = 0
    BY <1>0 DEF SaneInv, CallInv, FilesInv, QuietLabels, TypeOK, ArgsOK
  <1>2. Current \in Nat /\ Target \in Nat
    BY <1>0, CurrentType
  <1>3. Len(chain[n]) = Current /\ CursorAt(n, node[n].fptr_index)
    BY <1>1 DEF SettledFile, HasClusters, Current
  <1>4. Current >= 1
    <2>1. Len(chain[n]) # 0
      BY <1>0 DEF SaneInv, ChainInv, FileChain
    <2> QED BY <1>2, <1>3, <2>1
  <1>5. Minus(Current, 1) = Current - 1 /\ Current - 1 \in Nat /\ Current - 1 < Current
    BY <1>2, <1>4 DEF Minus
  <1>6. /\ GrowOp \in OpType /\ GrowOp.node = op.node /\ GrowOp.then = op.then
        /\ GrowOp.size = op.size /\ GrowOp.off = op.off /\ GrowOp.len = op.len
        /\ GrowOp.current = Current /\ GrowOp.difference = Target - Current
        /\ GrowOp.allocated = 0 /\ GrowOp.rollback = op.rollback
    BY <1>0, <1>1, GrowOpType DEF GrowOp, OpType
  <1>7. ArgsOK(GrowOp)
    BY <1>1, <1>6 DEF ArgsOK
  <1>8. Current + (Target - Current) = Target
    BY <1>2
  <1> HIDE DEF n
  <1>9. /\ Current = bytes2clusters(node[op.node].size)
        /\ Target = bytes2clusters(op.size)
    BY DEF Current, Target
  <1> QED
    BY <1>0, <1>1, <1>2, <1>3, <1>5, <1>6, <1>7, <1>8, <1>9, CallAdvanceInv DEF n

\* grow_file() of an empty file takes a cluster nobody owns.
LEMMA GrowEmptyInv ==
  ASSUME TypeOK, SaneInv, GrowEmpty PROVE SaneInv'
  <1> DEFINE n == op.node
  <1>0. /\ pc = "truncate" /\ n \in Nodes /\ op \in OpType /\ Current < Target
        /\ node[n].start_cluster = EXFAT_CLUSTER_FREE /\ node[n].fptr_index = 0
        /\ chain \in [Nodes -> Seq(Clusters)] /\ node \in [Nodes -> NodeType]
        /\ UNCHANGED <<fat, tail, faults>>
    BY DEF GrowEmpty, TypeOK
  <1>1. /\ tail = <<>> /\ faults = 0 /\ SettledFile(n) /\ ArgsOK(op) /\ ~op.rollback
    BY <1>0 DEF SaneInv, CallInv, FilesInv, QuietLabels, TypeOK, ArgsOK
  <1>2. Current \in Nat /\ Target \in Nat
    BY <1>0, CurrentType
  <1>3. Len(chain[n]) = 0 /\ Current = 0
    <2>1. Len(chain[n]) > 0 => chain[n][1] \in Clusters
      BY <1>0
    <2>2. Len(chain[n]) = 0
      BY <1>0, <2>1, ClusterNumbers, LenProperties DEF SaneInv, ChainInv, FileChain
    <2> QED BY <1>1, <2>2 DEF SettledFile, HasClusters, Current
  <1>4. ASSUME NEW c \in Clusters, Allocated(c, 0),
               cmap' = cmap \cup {c},
               node' = [node EXCEPT ![n].start_cluster = c,
                                    ![n].fptr_cluster = c,
                                    ![n].is_contiguous = TRUE],
               op' = [GrowOp EXCEPT !.cluster = c, !.allocated = 1],
               pc' = "growLoop",
               chain' = [chain EXCEPT ![n] = <<c>>]
        PROVE  SaneInv'
    <2>1. c \notin cmap
      BY <1>4, AllocatedFree
    <2>2. /\ chain'[n] = <<c>> /\ Len(chain'[n]) = 1 /\ chain'[n][1] = c
          /\ \A m \in Nodes \ {n} : chain'[m] = chain[m]
      BY <1>0, <1>4
    <2>3. OwnInv'
      <3>1. c \notin Reserved
        BY <2>1 DEF SaneInv, OwnInv
      <3>2. \A m \in Nodes : \A i \in 1 .. Len(chain[m]) : chain[m][i] # c
        BY <2>1 DEF SaneInv, OwnInv
      <3>3. Len(tail') = 0
        BY <1>0, <1>1
      <3>4. \A m \in Nodes : Injective(chain'[m])
        BY <2>2 DEF SaneInv, OwnInv, Injective
      <3> QED
        BY <1>4, <2>2, <3>1, <3>2, <3>3, <3>4 DEF SaneInv, OwnInv, Injective
    <2>4. /\ \A m \in Nodes \ {n} : node'[m] = node[m]
          /\ node'[n].start_cluster = c /\ node'[n].fptr_cluster = c
          /\ node'[n].is_contiguous = TRUE /\ node'[n].fptr_index = 0
          /\ node'[n].size = node[n].size
      BY <1>0, <1>4 DEF NodeType
    <2>5. ChainInv'
      <3> SUFFICES ASSUME NEW m \in Nodes PROVE FileChain(m)'
        BY DEF ChainInv
      <3>1. CASE m # n
        BY <1>0, <2>2, <2>4, <3>1, ChainFrame DEF SaneInv, ChainInv
      <3>2. CASE m = n
        <4>1. c \in Nat /\ c + 1 - 1 = c
          BY ClusterNumbers
        <4> QED BY <2>2, <2>4, <3>2, <4>1 DEF FileChain, LinkedSeq
      <3> QED BY <3>1, <3>2
    <2>6. /\ GrowOp \in OpType /\ GrowOp.node = op.node /\ GrowOp.then = op.then
          /\ GrowOp.size = op.size /\ GrowOp.off = op.off /\ GrowOp.len = op.len
          /\ GrowOp.current = Current /\ GrowOp.difference = Target - Current
          /\ GrowOp.rollback = op.rollback
      BY <1>0, GrowOpType DEF GrowOp, OpType
    <2>7. /\ op'.node = op.node /\ op'.then = op.then
          /\ op'.size = op.size /\ op'.off = op.off /\ op'.len = op.len
          /\ op'.current = 0 /\ op'.difference = Target - 0
          /\ op'.rollback = op.rollback /\ op'.cluster = c /\ op'.allocated = 1
      BY <1>3, <1>4, <2>6 DEF OpType
    <2>8. FilesInv'
      BY <1>0, <1>1, <1>4, <2>2, <2>4, <2>7, OtherFiles DEF SaneInv, QuietLabels
    <2>9. GrowInv'
      <3>1. 0 = bytes2clusters(node[n].size) /\ Target = bytes2clusters(op.size)
        BY <1>3 DEF Current, Target
      <3>2. 0 + (Target - 0) = Target /\ 1 <= Target - 0
        BY <1>0, <1>2, <1>3
      <3> QED BY <2>2, <2>4, <2>7, <3>1, <3>2, SMTT(30) DEF GrowInv, HasClusters
    <2>10. CallInv'
      <3>1. CursorAt(op.node, node[op.node].fptr_index)'
        <4>1. chain'[n][0 + 1] = c
          BY <2>2
        <4>2. /\ op'.node = n /\ node'[n].fptr_index = 0 /\ Len(chain'[n]) = 1
              /\ node'[n].fptr_cluster = c
          BY <2>2, <2>4, <2>7
        <4> HIDE DEF n
        <4> QED BY <4>1, <4>2 DEF CursorAt
      <3>2. ArgsOK(op)'
        BY <1>1, <2>4, <2>7 DEF ArgsOK
      <3> QED
        BY <1>0, <1>1, <1>4, <2>2, <2>7, <2>9, <3>1, <3>2
        DEF CallInv, GrowLabels, ArgsOK
    <2> QED BY <2>3, <2>5, <2>8, <2>10 DEF SaneInv
  <1>5. CASE Return("ENOSPC") /\ UNCHANGED <<node, cmap, chain>>
    <2>1. FilesInv'
      BY <1>0, <1>5, AllFiles DEF SaneInv, QuietLabels
    <2> QED BY <1>0, <1>1, <1>5, <2>1, ReturnInv
  <1> QED BY <1>4, <1>5 DEF GrowEmpty

\* The loop of grow_file() takes a cluster nobody owns.
LEMMA GrowAllocateInv ==
  ASSUME TypeOK, SaneInv, sane', GrowAllocate PROVE SaneInv'
  <1> DEFINE n == op.node
             s == chain[n]
  <1>0. /\ pc = "growLoop" /\ n \in Nodes /\ op \in OpType
        /\ op.allocated < op.difference /\ s \in Seq(Clusters) /\ Len(s) \in Nat
        /\ UNCHANGED <<node, fat, chain, faults>>
    BY LenProperties DEF GrowAllocate, TypeOK
  <1>1. /\ GrowInv /\ CursorAt(n, node[n].fptr_index) /\ op.cluster = s[Len(s)]
        /\ faults = 0 /\ ArgsOK(op) /\ ~op.rollback /\ FileChain(n)
    BY <1>0 DEF SaneInv, CallInv, GrowLabels, TypeOK, ArgsOK, ChainInv
  <1>2. Len(s) > 0
    BY <1>0, <1>1 DEF GrowInv, HasClusters
  <1>3. PICK c \in Clusters :
          /\ Allocated(c, op.cluster + 1)
          /\ cmap' = cmap \cup {c}
          /\ tail' = <<c>>
          /\ op' = [op EXCEPT !.next = c, !.i = node[n].start_cluster]
          /\ \/ pc' = "growFat" /\ node[n].is_contiguous
             \/ pc' = "growLink" /\ ~node[n].is_contiguous
    BY DEF GrowAllocate
  <1>4. c \notin cmap
    BY <1>3, AllocatedFree
  <1>5. /\ op'.node = op.node /\ op'.then = op.then /\ op'.size = op.size
        /\ op'.off = op.off /\ op'.len = op.len /\ op'.current = op.current
        /\ op'.difference = op.difference /\ op'.rollback = op.rollback
        /\ op'.allocated = op.allocated /\ op'.cluster = op.cluster
        /\ op'.next = c /\ op'.i = node[n].start_cluster
    BY <1>0, <1>3 DEF OpType
  <1>6. OwnInv'
    <2>1. c \notin Reserved
      BY <1>4 DEF SaneInv, OwnInv
    <2>2. \A m \in Nodes : \A i \in 1 .. Len(chain[m]) : chain[m][i] # c
      BY <1>4 DEF SaneInv, OwnInv
    <2>3. Len(tail') = 1 /\ tail'[1] = c
      BY <1>3
    <2> QED
      BY <1>0, <1>3, <2>1, <2>2, <2>3 DEF SaneInv, OwnInv, Injective
  <1>7. ChainInv'
    BY <1>0, ChainUnchanged DEF SaneInv
  <1>8. FilesInv'
    BY <1>0, <1>1, <1>3, <1>5, OtherFiles DEF SaneInv, QuietLabels
  <1>9. GrowInv'
    BY <1>0, <1>1, <1>5 DEF GrowInv, HasClusters
  <1>10. CursorAt(op.node, node[op.node].fptr_index)'
    BY <1>0, <1>1, <1>5 DEF CursorAt
  <1>11. ASSUME node[n].is_contiguous
         PROVE  /\ op'.i \in s[1] .. op.cluster
                /\ \A k \in 1 .. Len(s) : ~(s[k] < op'.i)
    <2>1. op'.i = s[1]
      BY <1>1, <1>2, <1>5 DEF FileChain
    <2>2. \A k \in 1 .. Len(s) : s[k] = s[1] + k - 1
      BY <1>1, <1>11 DEF FileChain, LinkedSeq
    <2>3. s[1] \in Clusters
      BY <1>0, <1>2, ElementOfSeq
    <2>4. s[1] \in Nat
      BY <2>3, ClusterNumbers
    <2>5. op.cluster = s[1] + Len(s) - 1
      BY <1>0, <1>1, <1>2, <2>2
    <2>6. s[1] \in s[1] .. op.cluster
      BY <1>0, <1>2, <2>4, <2>5
    <2>7. ASSUME NEW k \in 1 .. Len(s) PROVE ~(s[k] < s[1])
      BY <1>0, <2>2, <2>4
    <2> QED BY <2>1, <2>6, <2>7
  <1>12. ArgsOK(op)'
    BY <1>0, <1>1, <1>5 DEF ArgsOK
  <1>13. CallInv'
    BY <1>0, <1>1, <1>3, <1>5, <1>9, <1>10, <1>11, <1>12
    DEF CallInv, GrowLabels, ArgsOK
  <1> QED BY <1>6, <1>7, <1>8, <1>13 DEF SaneInv

\* The rollback of grow_file() asks shrink_file() for what was allocated.
LEMMA GrowNoSpaceInv ==
  ASSUME TypeOK, SaneInv, GrowNoSpace PROVE SaneInv'
  <1> DEFINE n == op.node
  <1>0. /\ pc = "growLoop" /\ n \in Nodes /\ op \in OpType
        /\ op.current \in Nat /\ op.allocated \in Nat
        /\ UNCHANGED <<node, cmap, fat, chain, tail, faults>>
    BY DEF GrowNoSpace, TypeOK, OpType, disk, history
  <1>1. /\ GrowInv /\ CursorAt(n, node[n].fptr_index)
        /\ faults = 0 /\ ArgsOK(op) /\ tail = <<>>
    BY <1>0 DEF SaneInv, CallInv, GrowLabels, TypeOK, ArgsOK
  <1>2. CASE op.allocated = 0
    <2>1. Return("ENOSPC")
      BY <1>2 DEF GrowNoSpace
    <2>2. SettledFile(n)
      BY <1>0, <1>1, <1>2 DEF GrowInv, HasClusters, SettledFile
    <2>3. FilesInv'
      <3> SUFFICES ASSUME NEW m \in Nodes PROVE SettledFile(m)'
        BY DEF FilesInv
      <3>1. SettledFile(m)
        BY <1>1, <2>2 DEF SaneInv, FilesInv
      <3> QED BY <1>0, <3>1, SettledUnchanged
    <2> QED BY <1>0, <1>1, <2>1, <2>3, ReturnInv
  <1>3. CASE op.allocated # 0
    <2>1. /\ op' = [op EXCEPT !.current = op.current + op.allocated,
                              !.difference = op.allocated, !.rollback = TRUE]
          /\ pc' = "shrink"
      BY <1>3 DEF GrowNoSpace
    <2>2. /\ op'.node = op.node /\ op'.then = op.then /\ op'.size = op.size
          /\ op'.off = op.off /\ op'.len = op.len
          /\ op'.current = op.current + op.allocated
          /\ op'.difference = op.allocated /\ op'.rollback = TRUE
      BY <1>0, <2>1 DEF OpType
    <2>3. OwnInv' /\ ChainInv'
      BY <1>0, OwnUnchanged, ChainUnchanged DEF SaneInv
    <2>4. FilesInv'
      BY <1>0, <1>1, <2>1, <2>2, OtherFiles DEF SaneInv, QuietLabels
    <2>5. /\ (op.current + op.allocated) - op.allocated = op.current
          /\ 0 < op.allocated /\ op.allocated <= op.current + op.allocated
      BY <1>0, <1>3
    <2>6. ShrinksTo(op.current - op.difference)'
      BY <1>0, <1>1, <2>2, <2>5 DEF ShrinksTo, GrowInv
    <2>7. /\ Len(chain'[n]) = op.current + op.allocated
          /\ CursorAt(op.node, node[op.node].fptr_index)' /\ ArgsOK(op)'
      BY <1>0, <1>1, <2>2 DEF GrowInv, HasClusters, CursorAt, ArgsOK
    <2>8. CallInv'
      BY <1>0, <1>1, <2>1, <2>2, <2>5, <2>6, <2>7
      DEF CallInv, GrowLabels, HasClusters, ArgsOK
    <2> QED BY <2>3, <2>4, <2>8 DEF SaneInv
  <1> QED BY <1>2, <1>3

\* make_noncontiguous() writes to entries of the file's own clusters.
LEMMA GrowFatInv ==
  ASSUME TypeOK, SaneInv, GrowFat PROVE SaneInv'
  <1> DEFINE n == op.node
             s == chain[n]
  <1>0. /\ pc = "growFat" /\ pc' = pc /\ n \in Nodes /\ op \in OpType
        /\ op.i < op.cluster /\ s \in Seq(Clusters) /\ Len(s) \in Nat
        /\ op.i \in Nat /\ op.cluster \in Nat /\ op.i \in Clusters
        /\ fat \in [Clusters -> Word]
        /\ chain \in [Nodes -> Seq(Clusters)]
        /\ UNCHANGED <<node, cmap, chain, tail, faults>>
        /\ fat' = [fat EXCEPT ![op.i] = op.i + 1]
        /\ op' = [op EXCEPT !.i = op.i + 1]
    BY LenProperties, ClusterNumbers DEF GrowFat, TypeOK, history
  <1>1. /\ GrowInv /\ CursorAt(n, node[n].fptr_index) /\ op.cluster = s[Len(s)]
        /\ faults = 0 /\ ArgsOK(op) /\ ~op.rollback /\ FileChain(n)
        /\ tail = <<op.next>> /\ op.allocated < op.difference
        /\ node[n].is_contiguous /\ op.i \in s[1] .. op.cluster
        /\ \A k \in 1 .. Len(s) : s[k] < op.i => fat[s[k]] = s[k] + 1
    BY <1>0 DEF SaneInv, CallInv, GrowLabels, TypeOK, ArgsOK, ChainInv
  <1>2. Len(s) > 0
    BY <1>0, <1>1 DEF GrowInv, HasClusters
  <1>3. /\ s[1] \in Nat /\ \A k \in 1 .. Len(s) : s[k] = s[1] + k - 1 /\ s[k] \in Clusters
    <2>1. \A k \in 1 .. Len(s) : s[k] = s[1] + k - 1
      BY <1>1 DEF FileChain, LinkedSeq
    <2>2. \A k \in 1 .. Len(s) : s[k] \in Clusters
      BY <1>0, ElementOfSeq
    <2>3. s[1] \in Clusters
      BY <1>0, <1>2, <2>2
    <2> QED BY <2>1, <2>2, <2>3, ClusterNumbers
  <1>4. /\ op'.node = op.node /\ op'.then = op.then /\ op'.size = op.size
        /\ op'.off = op.off /\ op'.len = op.len /\ op'.current = op.current
        /\ op'.difference = op.difference /\ op'.rollback = op.rollback
        /\ op'.allocated = op.allocated /\ op'.cluster = op.cluster
        /\ op'.next = op.next /\ op'.i = op.i + 1
    BY <1>0 DEF OpType
  \* the entry that is written is one of the file's own
  <1>5. PICK p \in 1 .. Len(s) : op.i = s[p]
    <2>1. s[Len(s)] = s[1] + Len(s) - 1
      <3>1. Len(s) \in 1 .. Len(s)
        BY <1>0, <1>2
      <3> QED BY <1>3, <3>1
    <2>2. op.i - s[1] + 1 \in 1 .. Len(s)
      BY <1>0, <1>1, <1>3, <2>1, SMTT(30)
    <2>3. s[op.i - s[1] + 1] = s[1] + (op.i - s[1] + 1) - 1
      BY <1>3, <2>2
    <2>4. s[1] + (op.i - s[1] + 1) - 1 = op.i
      BY <1>0, <1>3
    <2> QED BY <2>2, <2>3, <2>4
  <1>6. OwnInv'
    BY <1>0, OwnUnchanged DEF SaneInv
  <1>7. ChainInv'
    <2> SUFFICES ASSUME NEW m \in Nodes PROVE FileChain(m)'
      BY DEF ChainInv
    <2>1. CASE m = n
      BY <1>0, <1>1, <2>1 DEF FileChain, LinkedSeq
    <2>2. CASE m # n
      <3>1. \A i \in 1 .. Len(chain[m]) : chain[m][i] # op.i /\ chain[m][i] \in Clusters
        BY <1>0, <1>5, <2>2 DEF SaneInv, OwnInv
      <3>2. \A i \in 1 .. Len(chain[m]) : fat'[chain[m][i]] = fat[chain[m][i]]
        BY <1>0, <3>1
      <3> QED BY <1>0, <3>2, ChainFrame DEF SaneInv, ChainInv
    <2> QED BY <2>1, <2>2
  <1>8. FilesInv'
    BY <1>0, <1>1, <1>4, OtherFiles DEF SaneInv, QuietLabels
  <1>9. GrowInv' /\ CursorAt(op.node, node[op.node].fptr_index)' /\ ArgsOK(op)'
    BY <1>0, <1>1, <1>4 DEF GrowInv, HasClusters, CursorAt, ArgsOK
  <1>10. op.i + 1 \in s[1] .. op.cluster
    BY <1>0, <1>1, <1>3, SMTT(30)
  <1>11. ASSUME NEW k \in 1 .. Len(s), s[k] < op.i + 1
         PROVE  fat'[s[k]] = s[k] + 1
    <2>1. s[k] \in Clusters /\ s[k] \in Nat
      BY <1>3, ClusterNumbers
    <2>2. CASE s[k] = op.i
      BY <1>0, <2>1, <2>2
    <2>3. CASE s[k] # op.i
      <3>1. s[k] < op.i
        BY <1>0, <1>11, <2>1, <2>3
      <3> QED BY <1>0, <1>1, <2>1, <2>3, <3>1
    <2> QED BY <2>2, <2>3
  <1>12. CallInv'
    BY <1>0, <1>1, <1>4, <1>9, <1>10, <1>11 DEF CallInv, GrowLabels, ArgsOK
  <1> QED BY <1>6, <1>7, <1>8, <1>12 DEF SaneInv

\* Positions before the last one of a sequence.
LEMMA BeforeLast ==
  ASSUME NEW first \in Nat, NEW len \in Nat, NEW k \in Nat, k < len,
         NEW i \in Nat, i >= first + len - 1
  PROVE  first + k - 1 < i /\ first + (k + 1) - 1 = (first + k - 1) + 1
OBVIOUS

\* After make_noncontiguous() the FAT holds the chain the run stood for.
LEMMA GrowFatEndInv ==
  ASSUME TypeOK, SaneInv, GrowFatEnd PROVE SaneInv'
  <1> DEFINE n == op.node
             s == chain[n]
  <1>0. /\ pc = "growFat" /\ pc' = "growLink" /\ n \in Nodes /\ op' = op
        /\ op.i >= op.cluster /\ s \in Seq(Clusters) /\ Len(s) \in Nat
        /\ op.i \in Nat /\ op.cluster \in Nat
        /\ chain \in [Nodes -> Seq(Clusters)]
        /\ node \in [Nodes -> NodeType]
        /\ UNCHANGED <<cmap, fat, chain, tail, faults>>
        /\ node' = [node EXCEPT ![n].is_contiguous = FALSE, ![n].is_dirty = TRUE]
    BY LenProperties, ClusterNumbers DEF GrowFatEnd, Goto, TypeOK, disk, history
  <1>1. /\ GrowInv /\ CursorAt(n, node[n].fptr_index) /\ op.cluster = s[Len(s)]
        /\ faults = 0 /\ ArgsOK(op) /\ ~op.rollback /\ FileChain(n)
        /\ tail = <<op.next>> /\ op.allocated < op.difference
        /\ node[n].is_contiguous
        /\ \A k \in 1 .. Len(s) : s[k] < op.i => fat[s[k]] = s[k] + 1
    BY <1>0 DEF SaneInv, CallInv, GrowLabels, TypeOK, ArgsOK, ChainInv
  <1>2. Len(s) > 0
    BY <1>0, <1>1 DEF GrowInv, HasClusters
  <1>3. /\ s[1] \in Nat /\ \A k \in 1 .. Len(s) : s[k] = s[1] + k - 1
    <2>1. s[1] \in Clusters
      BY <1>0, <1>2, ElementOfSeq
    <2> QED BY <1>1, <2>1, ClusterNumbers DEF FileChain, LinkedSeq
  <1>4. /\ \A m \in Nodes \ {n} : node'[m] = node[m]
        /\ node'[n].start_cluster = node[n].start_cluster
        /\ node'[n].size = node[n].size /\ ~node'[n].is_contiguous
        /\ node'[n].fptr_index = node[n].fptr_index
        /\ node'[n].fptr_cluster = node[n].fptr_cluster
    BY <1>0 DEF NodeType
  <1>5. OwnInv'
    BY <1>0, OwnUnchanged DEF SaneInv
  <1>6. ASSUME NEW k \in 1 .. Len(s) - 1 PROVE s[k + 1] = fat[s[k]]
    <2>1. k \in 1 .. Len(s) /\ k + 1 \in 1 .. Len(s) /\ Len(s) \in 1 .. Len(s)
      BY <1>0, <1>2
    <2>2. /\ s[k] = s[1] + k - 1 /\ s[k + 1] = s[1] + (k + 1) - 1
          /\ s[Len(s)] = s[1] + Len(s) - 1
      BY <1>3, <2>1
    <2>3. s[k] < op.i /\ s[k + 1] = s[k] + 1
      <3>1. op.cluster = s[1] + Len(s) - 1
        BY <1>1, <2>2
      <3>2. k \in Nat /\ k < Len(s)
        BY <1>0
      <3>3. s[1] \in Nat /\ Len(s) \in Nat /\ op.i \in Nat
            /\ op.i >= s[1] + Len(s) - 1
        BY <1>0, <1>3, <3>1
      <3>4. s[1] + k - 1 < op.i /\ s[1] + (k + 1) - 1 = (s[1] + k - 1) + 1
        BY <3>2, <3>3, BeforeLast
      <3> QED BY <2>2, <3>4
    <2> QED BY <1>1, <2>1, <2>3
  <1>7. ChainInv'
    <2> SUFFICES ASSUME NEW m \in Nodes PROVE FileChain(m)'
      BY DEF ChainInv
    <2>1. CASE m = n
      BY <1>0, <1>1, <1>4, <1>6, <2>1 DEF FileChain, LinkedSeq
    <2>2. CASE m # n
      BY <1>0, <1>4, <2>2, ChainFrame DEF SaneInv, ChainInv
    <2> QED BY <2>1, <2>2
  <1>8. FilesInv'
    BY <1>0, <1>1, <1>4, OtherFiles DEF SaneInv, QuietLabels
  <1>9. GrowInv' /\ CursorAt(op.node, node[op.node].fptr_index)' /\ ArgsOK(op)'
    BY <1>0, <1>1, <1>4 DEF GrowInv, HasClusters, CursorAt, ArgsOK
  <1>10. CallInv'
    BY <1>0, <1>1, <1>4, <1>9 DEF CallInv, GrowLabels, ArgsOK
  <1> QED BY <1>5, <1>7, <1>8, <1>10 DEF SaneInv

\* set_next_cluster() in grow_file() appends the new cluster to the chain.
LEMMA GrowLinkInv ==
  ASSUME TypeOK, SaneInv, GrowLink PROVE SaneInv'
  <1> DEFINE n == op.node
             s == chain[n]
             c == op.next
  <1>0. /\ pc = "growLink" /\ pc' = "growLoop" /\ n \in Nodes /\ op \in OpType
        /\ s \in Seq(Clusters) /\ Len(s) \in Nat /\ op.next \in Clusters
        /\ op.allocated \in Nat /\ op.current \in Nat /\ op.difference \in Nat
        /\ op.cluster \in Clusters
        /\ chain \in [Nodes -> Seq(Clusters)]
        /\ fat \in [Clusters -> Word]
        /\ UNCHANGED <<node, cmap, faults>> /\ tail' = <<>>
        /\ chain' = [chain EXCEPT ![n] = Append(s, c)]
        /\ op' = [op EXCEPT !.cluster = c, !.allocated = op.allocated + 1]
    BY LenProperties DEF GrowLink, TypeOK, OpType
  <1>1. /\ GrowInv /\ CursorAt(n, node[n].fptr_index) /\ op.cluster = s[Len(s)]
        /\ faults = 0 /\ ArgsOK(op) /\ ~op.rollback /\ FileChain(n)
        /\ tail = <<c>> /\ op.allocated < op.difference
        /\ ~node[n].is_contiguous
    BY <1>0 DEF SaneInv, CallInv, GrowLabels, TypeOK, ArgsOK, ChainInv
  <1>2. Len(s) > 0 /\ Len(s) \in 1 .. Len(s)
    BY <1>0, <1>1 DEF GrowInv, HasClusters
  <1>3. /\ op'.node = op.node /\ op'.then = op.then /\ op'.size = op.size
        /\ op'.off = op.off /\ op'.len = op.len /\ op'.current = op.current
        /\ op'.difference = op.difference /\ op'.rollback = op.rollback
        /\ op'.allocated = op.allocated + 1 /\ op'.cluster = c
    BY <1>0 DEF OpType
  <1>4. fat' = [fat EXCEPT ![s[Len(s)]] = c]
    BY <1>1 DEF GrowLink, SetNext
  <1>5. /\ chain'[n] = Append(s, c) /\ Len(chain'[n]) = Len(s) + 1
        /\ \A i \in 1 .. Len(s) : chain'[n][i] = s[i]
        /\ chain'[n][Len(s) + 1] = c
        /\ \A m \in Nodes \ {n} : chain'[m] = chain[m]
    BY <1>0, AppendProperties
  <1>6. /\ \A m \in Nodes : \A i \in 1 .. Len(chain[m]) : chain[m][i] # c
        /\ c \in cmap /\ c \notin Reserved
    <2>1. Len(tail) = 1 /\ tail[1] = c
      BY <1>1
    <2> QED BY <2>1 DEF SaneInv, OwnInv
  <1>7. OwnInv'
    <2>1. Len(tail') = 0
      BY <1>0
    <2>2. ASSUME NEW i \in 1 .. Len(s) + 1
          PROVE  \/ i \in 1 .. Len(s) /\ chain'[n][i] = s[i]
                 \/ i = Len(s) + 1 /\ chain'[n][i] = c
      BY <1>0, <1>5
    <2>3. Injective(chain'[n])
      BY <1>0, <1>5, <1>6, <2>2 DEF SaneInv, OwnInv, Injective
    <2>4. \A m \in Nodes : Injective(chain'[m])
      BY <1>5, <2>3 DEF SaneInv, OwnInv
    <2>5. ASSUME NEW m \in Nodes, NEW i \in 1 .. Len(chain'[m])
          PROVE  chain'[m][i] \in cmap' /\ chain'[m][i] \notin Reserved
      BY <1>0, <1>5, <1>6, <2>2 DEF SaneInv, OwnInv
    <2>6. ASSUME NEW m \in Nodes, m # n, NEW i \in 1 .. Len(s) + 1,
                 NEW j \in 1 .. Len(chain[m])
          PROVE  chain'[n][i] # chain[m][j]
      BY <1>0, <1>6, <2>2, <2>6 DEF SaneInv, OwnInv
    <2>7. ASSUME NEW m1 \in Nodes, NEW m2 \in Nodes, m1 # m2,
                 NEW i \in 1 .. Len(chain'[m1]), NEW j \in 1 .. Len(chain'[m2])
          PROVE  chain'[m1][i] # chain'[m2][j]
      <3>1. CASE m1 = n
        BY <1>0, <1>5, <2>6, <2>7, <3>1
      <3>2. CASE m2 = n
        BY <1>0, <1>5, <2>6, <2>7, <3>2, SMTT(30)
      <3>3. CASE m1 # n /\ m2 # n
        BY <1>5, <2>7, <3>3 DEF SaneInv, OwnInv
      <3> QED BY <3>1, <3>2, <3>3
    <2>8. Reserved \subseteq cmap'
      BY <1>0 DEF SaneInv, OwnInv
    <2> QED BY <2>1, <2>4, <2>5, <2>7, <2>8 DEF OwnInv, Injective
  <1>8. ChainInv'
    <2> SUFFICES ASSUME NEW m \in Nodes PROVE FileChain(m)'
      BY DEF ChainInv
    <2>1. CASE m = n
      <3>1. ASSUME NEW i \in 1 .. Len(chain'[n]) - 1
            PROVE  chain'[n][i + 1] = fat'[chain'[n][i]]
        <4>1. i \in 1 .. Len(s)
          BY <1>0, <1>5
        <4>2. s[i] \in Clusters /\ s[Len(s)] \in Clusters
          BY <1>0, <1>2, <4>1, ElementOfSeq
        <4>3. CASE i = Len(s)
          BY <1>0, <1>4, <1>5, <4>1, <4>2, <4>3
        <4>4. CASE i # Len(s)
          <5>1. i \in 1 .. Len(s) - 1 /\ i + 1 \in 1 .. Len(s)
            BY <1>0, <4>1, <4>4
          <5>2. s[i + 1] = fat[s[i]]
            BY <1>1, <5>1 DEF FileChain, LinkedSeq
          <5>3. s[i] # s[Len(s)]
            BY <1>0, <1>2, <4>1, <4>4 DEF SaneInv, OwnInv, Injective
          <5> QED BY <1>0, <1>4, <1>5, <4>1, <4>2, <5>1, <5>2, <5>3
        <4> QED BY <4>3, <4>4
      <3>2. node'[n].start_cluster = chain'[n][1]
        BY <1>0, <1>1, <1>2, <1>5 DEF FileChain
      <3>3. Len(chain'[n]) # 0
        BY <1>0, <1>5
      <3> QED BY <1>0, <1>1, <2>1, <3>1, <3>2, <3>3 DEF FileChain, LinkedSeq
    <2>2. CASE m # n
      <3>1. \A i \in 1 .. Len(chain[m]) :
              chain[m][i] # s[Len(s)] /\ chain[m][i] \in Clusters
        BY <1>0, <1>2, <2>2, OtherChain DEF SaneInv
      <3>2. \A i \in 1 .. Len(chain[m]) : fat'[chain[m][i]] = fat[chain[m][i]]
        BY <1>0, <1>4, <3>1
      <3> QED BY <1>0, <1>5, <2>2, <3>2, ChainFrame DEF SaneInv, ChainInv
    <2> QED BY <2>1, <2>2
  <1>9. FilesInv'
    BY <1>0, <1>1, <1>3, <1>5, OtherFiles DEF SaneInv, QuietLabels
  <1>10. GrowInv'
    <2>1. /\ Len(s) = op.current + op.allocated
          /\ op.current = bytes2clusters(node[n].size)
          /\ op.current + op.difference = bytes2clusters(op.size)
      BY <1>1 DEF GrowInv, HasClusters
    <2>2. /\ Len(s) + 1 = op.current + (op.allocated + 1)
          /\ op.current + (op.allocated + 1) > 0
          /\ op.allocated + 1 <= op.difference
      BY <1>0, <1>1, <2>1
    <2> QED BY <1>0, <1>3, <1>5, <2>1, <2>2 DEF GrowInv, HasClusters
  <1>11. CursorAt(op.node, node[op.node].fptr_index)' /\ ArgsOK(op)'
    <2>1. node[n].fptr_index \in Nat
      BY <1>0 DEF TypeOK, NodeType
    <2>2. /\ node[n].fptr_index < Len(s)
          /\ node[n].fptr_cluster = s[node[n].fptr_index + 1]
      BY <1>1, <1>2 DEF CursorAt
    <2>3. /\ node[n].fptr_index + 1 \in 1 .. Len(s) /\ node[n].fptr_index < Len(s) + 1
          /\ Len(s) + 1 # 0
      BY <1>0, <2>1, <2>2
    <2> QED BY <1>0, <1>1, <1>3, <1>5, <2>2, <2>3 DEF CursorAt, ArgsOK
  <1>12. CallInv'
    BY <1>0, <1>1, <1>3, <1>5, <1>10, <1>11 DEF CallInv, GrowLabels, ArgsOK
  <1> QED BY <1>7, <1>8, <1>9, <1>12 DEF SaneInv

\* The end mark of grow_file() goes to the last cluster.
LEMMA GrowEndInv ==
  ASSUME TypeOK, SaneInv, GrowEnd PROVE SaneInv'
  <1> DEFINE n == op.node
             s == chain[n]
  <1>0. /\ pc = "growLoop" /\ pc' = "erase" /\ n \in Nodes /\ op \in OpType
        /\ s \in Seq(Clusters) /\ Len(s) \in Nat /\ op.cluster \in Clusters
        /\ op.allocated \in Nat /\ op.difference \in Nat
        /\ op.allocated >= op.difference
        /\ chain \in [Nodes -> Seq(Clusters)]
        /\ fat \in [Clusters -> Word]
        /\ UNCHANGED <<node, cmap, chain, tail, op, faults>>
    BY LenProperties DEF GrowEnd, Goto, TypeOK, OpType, history
  <1>1. /\ GrowInv /\ CursorAt(n, node[n].fptr_index) /\ op.cluster = s[Len(s)]
        /\ faults = 0 /\ ArgsOK(op) /\ ~op.rollback /\ FileChain(n) /\ tail = <<>>
    BY <1>0 DEF SaneInv, CallInv, GrowLabels, TypeOK, ArgsOK, ChainInv
  <1>2. Len(s) > 0 /\ Len(s) \in 1 .. Len(s)
    BY <1>0, <1>1 DEF GrowInv, HasClusters
  <1>3. Len(s) = bytes2clusters(op.size)
    <2>1. op.allocated = op.difference
      BY <1>0, <1>1 DEF GrowInv
    <2> QED BY <1>1, <2>1 DEF GrowInv, HasClusters
  <1>4. fat' = IF node[n].is_contiguous THEN fat
               ELSE [fat EXCEPT ![s[Len(s)]] = EXFAT_CLUSTER_END]
    BY <1>1 DEF GrowEnd, SetNext
  <1>5. OwnInv'
    BY <1>0, OwnUnchanged DEF SaneInv
  <1>6. ChainInv'
    <2> SUFFICES ASSUME NEW m \in Nodes PROVE FileChain(m)'
      BY DEF ChainInv
    <2>1. CASE node[n].is_contiguous
      BY <1>0, <1>4, <2>1, ChainFrame DEF SaneInv, ChainInv
    <2>2. CASE ~node[n].is_contiguous /\ m = n
      <3>1. ASSUME NEW i \in 1 .. Len(s) - 1 PROVE s[i + 1] = fat'[s[i]]
        <4>1. i \in 1 .. Len(s) /\ i # Len(s)
          BY <1>0
        <4>2. s[i] \in Clusters /\ s[i] # s[Len(s)]
          BY <1>0, <1>2, <4>1, SameChain DEF SaneInv
        <4>3. s[i + 1] = fat[s[i]]
          BY <1>1, <2>2 DEF FileChain, LinkedSeq
        <4> QED BY <1>0, <1>4, <2>2, <4>2, <4>3
      <3> QED BY <1>0, <1>1, <2>2, <3>1 DEF FileChain, LinkedSeq
    <2>3. CASE ~node[n].is_contiguous /\ m # n
      <3>1. \A i \in 1 .. Len(chain[m]) :
              chain[m][i] # s[Len(s)] /\ chain[m][i] \in Clusters
        BY <1>0, <1>2, <2>3, OtherChain DEF SaneInv
      <3>2. \A i \in 1 .. Len(chain[m]) : fat'[chain[m][i]] = fat[chain[m][i]]
        BY <1>0, <1>4, <2>3, <3>1
      <3> QED BY <1>0, <2>3, <3>2, ChainFrame DEF SaneInv, ChainInv
    <2> QED BY <2>1, <2>2, <2>3
  <1>7. FilesInv'
    BY <1>0, <1>1, OtherFiles DEF SaneInv, QuietLabels
  <1>8. CallInv'
    BY <1>0, <1>1, <1>3 DEF CallInv, GrowLabels, ArgsOK, HasClusters, CursorAt
  <1> QED BY <1>5, <1>6, <1>7, <1>8 DEF SaneInv

\* grow_file() keeps the invariant.
LEMMA GrowingInv ==
  ASSUME TypeOK, SaneInv, sane', Grow PROVE SaneInv'
BY GrowStartInv, GrowEmptyInv, GrowAllocateInv, GrowNoSpaceInv, GrowFatInv,
   GrowFatEndInv, GrowLinkInv, GrowEndInv DEF Grow

(* shrink_file *)

\* shrink_file() looks for the last cluster that stays.
LEMMA ShrinkStartInv ==
  ASSUME TypeOK, SaneInv, ShrinkStart PROVE SaneInv'
  <1> DEFINE n == op.node
  <1>0. /\ pc = "shrink" /\ n \in Nodes /\ op \in OpType
        /\ op.current \in Nat /\ op.difference \in Nat /\ op.current > op.difference
        /\ CallAdvance(op, op.current - op.difference - 1, "shrinkCrop")
    BY DEF ShrinkStart, TypeOK, OpType
  <1>1. /\ CursorAt(n, node[n].fptr_index) /\ Len(chain[n]) = op.current
        /\ 0 < op.difference /\ op.difference <= op.current
        /\ ShrinksTo(op.current - op.difference)
        /\ op.rollback \/ (op.then = "done" /\ op.size < node[n].size)
        /\ faults = 0 /\ tail = <<>> /\ ArgsOK(op)
    BY <1>0 DEF SaneInv, CallInv, HasClusters, TypeOK, ArgsOK
  <1>2. /\ op.current - op.difference - 1 \in Nat
        /\ op.current - op.difference - 1 < op.current
    BY <1>0
  <1>3. op.current - op.difference =
          bytes2clusters(IF op.rollback THEN node[op.node].size ELSE op.size)
    BY <1>1 DEF ShrinksTo
  <1> QED BY <1>0, <1>1, <1>2, <1>3, CallAdvanceInv

\* shrink_file() of a whole file unlinks its chain.
LEMMA ShrinkAllInv ==
  ASSUME TypeOK, SaneInv, ShrinkAll PROVE SaneInv'
  <1> DEFINE n == op.node
             s == chain[n]
  <1>0. /\ pc = "shrink" /\ pc' = "shrinkFree" /\ n \in Nodes /\ op \in OpType
        /\ op.current \in Nat /\ op.difference \in Nat /\ op.current = op.difference
        /\ s \in Seq(Clusters) /\ Len(s) \in Nat
        /\ chain \in [Nodes -> Seq(Clusters)] /\ node \in [Nodes -> NodeType]
        /\ UNCHANGED <<cmap, fat, faults>>
        /\ tail' = s /\ chain' = [chain EXCEPT ![n] = <<>>]
        /\ op' = [op EXCEPT !.cluster = node[n].start_cluster]
        /\ node' = [node EXCEPT ![n].start_cluster = EXFAT_CLUSTER_FREE,
                              ![n].is_dirty = TRUE,
                              ![n].fptr_index = 0,
                              ![n].fptr_cluster = EXFAT_CLUSTER_FREE]
    BY LenProperties DEF ShrinkAll, TypeOK, OpType, disk
  <1>1. /\ Len(s) = op.current /\ 0 < op.difference
        /\ ShrinksTo(op.current - op.difference)
        /\ op.rollback \/ (op.then = "done" /\ op.size < node[n].size)
        /\ faults = 0 /\ ArgsOK(op) /\ FileChain(n)
    BY <1>0 DEF SaneInv, CallInv, HasClusters, TypeOK, ArgsOK, ChainInv
  <1>2. /\ op'.node = op.node /\ op'.then = op.then /\ op'.size = op.size
        /\ op'.off = op.off /\ op'.len = op.len
        /\ op'.difference = op.difference /\ op'.rollback = op.rollback
        /\ op'.cluster = node[n].start_cluster
    BY <1>0 DEF OpType
  <1>3. /\ \A m \in Nodes \ {n} : node'[m] = node[m] /\ chain'[m] = chain[m]
        /\ node'[n].start_cluster = EXFAT_CLUSTER_FREE
        /\ node'[n].fptr_index = 0 /\ node'[n].fptr_cluster = EXFAT_CLUSTER_FREE
        /\ node'[n].size = node[n].size
        /\ node'[n].is_contiguous = node[n].is_contiguous
        /\ chain'[n] = <<>> /\ Len(chain'[n]) = 0
    BY <1>0 DEF NodeType
  <1>4. OwnInv'
    <2>1. \A m \in Nodes : Injective(chain'[m])
      BY <1>3 DEF SaneInv, OwnInv, Injective
    <2>2. Injective(tail')
      BY <1>0 DEF SaneInv, OwnInv
    <2>3. ASSUME NEW m \in Nodes, NEW i \in 1 .. Len(chain'[m])
          PROVE  m # n /\ chain'[m] = chain[m] /\ i \in 1 .. Len(chain[m])
      <3>1. m # n
        BY <1>3
      <3> QED BY <1>3, <3>1
    <2>4. ASSUME NEW m1 \in Nodes, NEW m2 \in Nodes, m1 # m2,
                 NEW i \in 1 .. Len(chain'[m1]), NEW j \in 1 .. Len(chain'[m2])
          PROVE  chain'[m1][i] # chain'[m2][j]
      BY <2>3, <2>4 DEF SaneInv, OwnInv
    <2>5. ASSUME NEW m \in Nodes, NEW i \in 1 .. Len(chain'[m]),
                 NEW j \in 1 .. Len(tail')
          PROVE  chain'[m][i] # tail'[j]
      BY <1>0, <2>3 DEF SaneInv, OwnInv
    <2>6. ASSUME NEW m \in Nodes, NEW i \in 1 .. Len(chain'[m])
          PROVE  chain'[m][i] \in cmap' /\ chain'[m][i] \notin Reserved
      BY <1>0, <2>3 DEF SaneInv, OwnInv
    <2>7. ASSUME NEW j \in 1 .. Len(tail')
          PROVE  tail'[j] \in cmap' /\ tail'[j] \notin Reserved
      BY <1>0 DEF SaneInv, OwnInv
    <2>8. Reserved \subseteq cmap'
      BY <1>0 DEF SaneInv, OwnInv
    <2> QED BY <2>1, <2>2, <2>4, <2>5, <2>6, <2>7, <2>8 DEF OwnInv
  <1>5. ChainInv'
    <2> SUFFICES ASSUME NEW m \in Nodes PROVE FileChain(m)'
      BY DEF ChainInv
    <2>1. CASE m = n
      BY <1>3, <2>1 DEF FileChain, LinkedSeq
    <2>2. CASE m # n
      BY <1>0, <1>3, <2>2, ChainFrame DEF SaneInv, ChainInv
    <2> QED BY <2>1, <2>2
  <1>6. FilesInv'
    BY <1>0, <1>1, <1>2, <1>3, OtherFiles DEF SaneInv, QuietLabels
  <1>7. LinkedSeq(op.node, tail)'
    BY <1>0, <1>1, <1>2, <1>3 DEF FileChain, LinkedSeq
  <1>8. ShrinksTo(Len(chain[op.node]))'
    <2>1. op.current - op.difference = 0
      BY <1>0
    <2> QED BY <1>1, <1>2, <1>3, <2>1 DEF ShrinksTo
  <1>9. CursorAt(op.node, node[op.node].fptr_index)' /\ ArgsOK(op)'
    BY <1>1, <1>2, <1>3 DEF CursorAt, ArgsOK
  <1>10. op'.cluster = tail'[1] /\ Len(tail') = op'.difference
    BY <1>0, <1>1, <1>2 DEF FileChain
  <1>11. CallInv'
    BY <1>0, <1>1, <1>2, <1>3, <1>7, <1>8, <1>9, <1>10
    DEF CallInv, GrowLabels, ArgsOK
  <1> QED BY <1>4, <1>5, <1>6, <1>11 DEF SaneInv

\* A prefix of a sequence.
LEMMA FirstPart ==
  ASSUME NEW S, NEW s \in Seq(S), NEW k \in Nat, NEW d \in Nat,
         Len(s) = k + d
  PROVE  /\ Len(SubSeq(s, 1, k)) = k
         /\ \A i \in 1 .. k : SubSeq(s, 1, k)[i] = s[i]
  <1>1. Len(s) \in Nat /\ k <= Len(s)
    BY LenProperties
  <1>2. \A i \in 1 .. k : i \in 1 .. Len(s)
    BY <1>1
  <1>3. Len(SubSeq(s, 1, k)) = k
    <2>1. CASE k = 0
      BY <2>1, <1>1
    <2>2. CASE k > 0
      BY <2>2, <1>1
    <2> QED BY <2>1, <2>2
  <1>4. ASSUME NEW i \in 1 .. k PROVE SubSeq(s, 1, k)[i] = s[i]
    BY <1>1, <1>2
  <1> QED BY <1>3, <1>4

\* Positions in the first part of a sequence of length k + d.
LEMMA InFirstPart ==
  ASSUME NEW k \in Nat, NEW d \in Nat, NEW i \in 1 .. k - 1
  PROVE  /\ i \in 1 .. k /\ i + 1 \in 1 .. k /\ i # k
         /\ i \in 1 .. (k + d) - 1 /\ i \in 1 .. k + d
  OBVIOUS

\* Positions in the second part of a sequence of length k + d.
LEMMA InSecondPart ==
  ASSUME NEW k \in Nat, NEW d \in Nat, NEW i \in 1 .. d - 1
  PROVE  /\ i \in 1 .. d /\ i + 1 \in 1 .. d
         /\ k + i \in 1 .. (k + d) - 1 /\ k + i \in 1 .. k + d
         /\ k + i # k /\ (k + i) + 1 = k + (i + 1)
  OBVIOUS

\* shrink_file() cuts the chain: the first part stays linked, the second part
\* is still a chain of its own.
LEMMA ShrinkCropInv ==
  ASSUME TypeOK, SaneInv, ShrinkCrop PROVE SaneInv'
  <1> DEFINE n == op.node
             s == chain[n]
             d == op.difference
             k == op.current - d
  <1>0. /\ pc = "shrinkCrop" /\ pc' = "shrinkFree" /\ n \in Nodes /\ op \in OpType
        /\ op.current \in Nat /\ op.difference \in Nat /\ op.cluster \in Clusters
        /\ s \in Seq(Clusters) /\ Len(s) \in Nat
        /\ chain \in [Nodes -> Seq(Clusters)] /\ node \in [Nodes -> NodeType]
        /\ fat \in [Clusters -> Word]
        /\ UNCHANGED cmap
        /\ node' = [node EXCEPT ![n].fptr_index = 0,
                                ![n].fptr_cluster = node[n].start_cluster]
    BY LenProperties DEF ShrinkCrop, TypeOK, OpType
  <1>1. /\ Len(s) = op.current /\ 0 < op.difference /\ op.difference < op.current
        /\ ShrinksTo(k) /\ op.cluster = s[k]
        /\ op.rollback \/ (op.then = "done" /\ op.size < node[n].size)
        /\ faults = 0 /\ ArgsOK(op) /\ FileChain(n)
    BY <1>0 DEF SaneInv, CallInv, HasClusters, TypeOK, ArgsOK, ChainInv
  <1>a. /\ k \in Nat /\ d \in Nat /\ Len(s) \in Nat /\ 0 < k /\ 0 < d
        /\ Len(s) = k + d
    BY <1>0, <1>1
  <1>2. /\ k \in 1 .. Len(s) - 1 /\ k \in Nat /\ k \in 1 .. Len(s)
        /\ Lesser(k, Len(s)) = k /\ Len(s) - k = d
    BY <1>0, <1>1 DEF Lesser
  <1>3. /\ chain' = [chain EXCEPT ![n] = SubSeq(s, 1, k)]
        /\ tail' = SubSeq(s, k + 1, Len(s))
    BY <1>2 DEF ShrinkCrop
  <1>4. fat' = IF node[n].is_contiguous THEN fat
               ELSE [fat EXCEPT ![s[k]] = EXFAT_CLUSTER_END]
    BY <1>1 DEF ShrinkCrop, SetNext
  <1>5. PICK r \in NextCluster(n, s[k]) :
          /\ faults' = faults + r.fault
          /\ op' = [op EXCEPT !.cluster = r.cluster]
    BY <1>1 DEF ShrinkCrop
  <1>6. \/ r.fault = 1 /\ r.cluster \notin Clusters
        \/ r.fault = 0 /\ r.cluster = s[k + 1]
    <2> HIDE DEF k
    <2> QED BY <1>0, <1>1, <1>2, <1>5, NextOfLinked DEF FileChain
  <1>7. /\ op'.node = op.node /\ op'.then = op.then /\ op'.size = op.size
        /\ op'.off = op.off /\ op'.len = op.len
        /\ op'.difference = op.difference /\ op'.rollback = op.rollback
        /\ op'.cluster = r.cluster
    BY <1>0, <1>5 DEF OpType
  <1>8. /\ \A m \in Nodes \ {n} : node'[m] = node[m] /\ chain'[m] = chain[m]
        /\ node'[n].start_cluster = node[n].start_cluster
        /\ node'[n].fptr_index = 0 /\ node'[n].fptr_cluster = node[n].start_cluster
        /\ node'[n].size = node[n].size
        /\ node'[n].is_contiguous = node[n].is_contiguous
        /\ chain'[n] = SubSeq(s, 1, k)
    BY <1>0, <1>3, SMTT(30) DEF NodeType
  <1> HIDE DEF k, d
  <1>9. /\ Len(chain'[n]) = k /\ \A i \in 1 .. k : chain'[n][i] = s[i]
    <2>1. /\ Len(SubSeq(s, 1, k)) = k
          /\ \A i \in 1 .. k : SubSeq(s, 1, k)[i] = s[i]
      BY <1>0, <1>a, FirstPart
    <2> QED BY <1>8, <2>1
  <1>10. /\ Len(tail') = d
         /\ \A i \in 1 .. d : tail'[i] = s[k + i]
    <2>1. k + 1 \in Nat /\ k + 1 <= Len(s) /\ Len(s) - (k + 1) + 1 = d
      BY <1>a
    <2>2. /\ Len(tail') = Len(s) - (k + 1) + 1
          /\ \A i \in 1 .. Len(s) - (k + 1) + 1 : tail'[i] = s[(k + 1) + i - 1]
      BY <1>0, <1>3, <2>1, SMTT(30)
    <2>3. \A i \in 1 .. d : (k + 1) + i - 1 = k + i
      BY <1>a
    <2> QED BY <2>1, <2>2, <2>3
  <1>11. /\ \A i \in 1 .. d : k + i \in 1 .. Len(s)
         /\ \A i \in 1 .. k : i \in 1 .. Len(s)
         /\ 1 \in 1 .. k /\ 1 \in 1 .. d
    BY <1>a
  <1>12. OwnInv'
    <2>1. \A m \in Nodes : Injective(chain'[m])
      <3>1. Injective(chain'[n])
        <4>1. \A i, j \in 1 .. k : s[i] = s[j] => i = j
          BY <1>0, <1>11 DEF SaneInv, OwnInv, Injective
        <4> QED BY <1>9, <4>1 DEF Injective
      <3> QED BY <1>8, <3>1 DEF SaneInv, OwnInv
    <2>2. Injective(tail')
      <3> SUFFICES ASSUME NEW i \in 1 .. d, NEW j \in 1 .. d,
                          s[k + i] = s[k + j]
                   PROVE  i = j
        BY <1>10 DEF Injective
      <3>1. k + i = k + j
        BY <1>0, <1>11 DEF SaneInv, OwnInv, Injective
      <3> QED BY <1>a, <3>1
    <2>3. ASSUME NEW m \in Nodes, NEW i \in 1 .. Len(chain'[m])
          PROVE  i \in 1 .. Len(chain[m]) /\ chain'[m][i] = chain[m][i]
      <3>1. CASE m = n
        BY <1>9, <1>11, <3>1
      <3>2. CASE m # n
        BY <1>8, <3>2
      <3> QED BY <3>1, <3>2
    <2>4. ASSUME NEW m1 \in Nodes, NEW m2 \in Nodes, m1 # m2,
                 NEW i \in 1 .. Len(chain'[m1]), NEW j \in 1 .. Len(chain'[m2])
          PROVE  chain'[m1][i] # chain'[m2][j]
      BY <2>3, <2>4 DEF SaneInv, OwnInv
    <2>5. ASSUME NEW m \in Nodes, NEW i \in 1 .. Len(chain'[m]),
                 NEW j \in 1 .. d
          PROVE  chain'[m][i] # s[k + j]
      <3>1. CASE m = n
        <4>1. i \in 1 .. k /\ i # k + j /\ i \in 1 .. Len(s) /\ k + j \in 1 .. Len(s)
          <5>1. i \in 1 .. k
            BY <1>9, <3>1
          <5>2. i # k + j
            BY <1>a, <5>1
          <5> QED BY <1>11, <5>1, <5>2
        <4>2. s[i] # s[k + j]
          BY <1>0, <4>1 DEF SaneInv, OwnInv, Injective
        <4> QED BY <1>9, <3>1, <4>1, <4>2
      <3>2. CASE m # n
        BY <1>0, <1>11, <2>3, <3>2 DEF SaneInv, OwnInv
      <3> QED BY <3>1, <3>2
    <2>6. ASSUME NEW m \in Nodes, NEW i \in 1 .. Len(chain'[m])
          PROVE  chain'[m][i] \in cmap' /\ chain'[m][i] \notin Reserved
      BY <1>0, <2>3 DEF SaneInv, OwnInv
    <2>7. ASSUME NEW j \in 1 .. d
          PROVE  s[k + j] \in cmap' /\ s[k + j] \notin Reserved
      BY <1>0, <1>11 DEF SaneInv, OwnInv
    <2>8. Reserved \subseteq cmap'
      BY <1>0 DEF SaneInv, OwnInv
    <2> QED BY <1>10, <2>1, <2>2, <2>4, <2>5, <2>6, <2>7, <2>8 DEF OwnInv
  <1>13. \A i \in 1 .. Len(s) : i # k => fat'[s[i]] = fat[s[i]]
    <2>1. \A i \in 1 .. Len(s) : i # k => s[i] # s[k] /\ s[i] \in Clusters
      BY <1>0, <1>2, SameChain DEF SaneInv
    <2> QED BY <1>0, <1>4, <2>1
  <1>14. ChainInv'
    <2> SUFFICES ASSUME NEW m \in Nodes PROVE FileChain(m)'
      BY DEF ChainInv
    <2>1. CASE m = n
      <3>1. Len(chain'[n]) # 0 /\ node'[n].start_cluster = chain'[n][1]
        <4>1. node[n].start_cluster = s[1]
          BY <1>a, <1>1 DEF FileChain
        <4>2. chain'[n][1] = s[1] /\ Len(chain'[n]) = k
          BY <1>9, <1>11
        <4> QED BY <1>a, <1>8, <4>1, <4>2
      <3>2. CASE node[n].is_contiguous
        <4>2. \A i \in 1 .. k : s[i] = s[1] + i - 1
          BY <1>1, <1>11, <3>2 DEF FileChain, LinkedSeq
        <4>3. \A i \in 1 .. Len(chain'[n]) : chain'[n][i] = chain'[n][1] + i - 1
          BY <1>9, <1>11, <4>2
        <4>4. node'[n].is_contiguous
          BY <1>8, <3>2
        <4> QED BY <2>1, <3>1, <4>3, <4>4 DEF FileChain, LinkedSeq
      <3>3. CASE ~node[n].is_contiguous
        <4>1. ASSUME NEW i \in 1 .. k - 1
              PROVE  chain'[n][i + 1] = fat'[chain'[n][i]]
          <5>1. /\ i \in 1 .. k /\ i + 1 \in 1 .. k /\ i # k
                /\ i \in 1 .. Len(s) - 1 /\ i \in 1 .. Len(s)
            BY <1>a, InFirstPart
          <5>2. s[i + 1] = fat[s[i]]
            BY <1>1, <3>3, <5>1 DEF FileChain, LinkedSeq
          <5> QED BY <1>9, <1>13, <5>1, <5>2
        <4> QED BY <1>8, <1>9, <2>1, <3>1, <3>3, <4>1 DEF FileChain, LinkedSeq
      <3> QED BY <3>2, <3>3
    <2>2. CASE m # n
      <3>1. \A i \in 1 .. Len(chain[m]) :
              chain[m][i] # s[k] /\ chain[m][i] \in Clusters
        BY <1>0, <1>2, <2>2, OtherChain DEF SaneInv
      <3>2. \A i \in 1 .. Len(chain[m]) : fat'[chain[m][i]] = fat[chain[m][i]]
        BY <1>0, <1>4, <3>1
      <3> QED BY <1>0, <1>8, <2>2, <3>2, ChainFrame DEF SaneInv, ChainInv
    <2> QED BY <2>1, <2>2
  <1>15. FilesInv'
    BY <1>0, <1>1, <1>7, <1>8, OtherFiles DEF SaneInv, QuietLabels
  <1>16. LinkedSeq(op.node, tail)'
    <2>1. CASE node[n].is_contiguous
      <3>1. s[1] \in Nat
        <4>1. s[1] \in Clusters
          BY <1>0, <1>11, ElementOfSeq
        <4> QED BY <4>1, ClusterNumbers
      <3>2. ASSUME NEW i \in 1 .. d
            PROVE  s[k + i] = s[k + 1] + i - 1
        <4>1. k + i \in 1 .. Len(s) /\ k + 1 \in 1 .. Len(s)
          BY <1>11
        <4>2. s[k + i] = s[1] + (k + i) - 1 /\ s[k + 1] = s[1] + (k + 1) - 1
          BY <1>1, <2>1, <4>1 DEF FileChain, LinkedSeq
        <4>3. s[1] + (k + i) - 1 = (s[1] + (k + 1) - 1) + i - 1
          BY <1>a, <3>1
        <4> QED BY <4>2, <4>3
      <3>3. 1 \in 1 .. d
        BY <1>11
      <3> QED BY <1>7, <1>8, <1>10, <2>1, <3>2, <3>3 DEF LinkedSeq
    <2>2. CASE ~node[n].is_contiguous
      <3>1. ASSUME NEW i \in 1 .. d - 1
            PROVE  tail'[i + 1] = fat'[tail'[i]]
        <4>1. /\ i \in 1 .. d /\ i + 1 \in 1 .. d
              /\ k + i \in 1 .. Len(s) - 1 /\ k + i \in 1 .. Len(s) /\ k + i # k
              /\ (k + i) + 1 = k + (i + 1)
          BY <1>a, InSecondPart
        <4>2. s[(k + i) + 1] = fat[s[k + i]]
          BY <1>1, <2>2, <4>1 DEF FileChain, LinkedSeq
        <4>3. fat'[s[k + i]] = fat[s[k + i]]
          BY <1>13, <4>1
        <4> QED BY <1>10, <4>1, <4>2, <4>3
      <3> QED BY <1>7, <1>8, <1>10, <2>2, <3>1 DEF LinkedSeq
    <2> QED BY <2>1, <2>2
  <1>17. ShrinksTo(Len(chain[op.node]))'
    <2>1. /\ Len(chain'[op'.node]) = k /\ op'.rollback = op.rollback
          /\ node'[op'.node].size = node[op.node].size /\ op'.size = op.size
      BY <1>7, <1>8, <1>9
    <2> QED BY <1>1, <2>1 DEF ShrinksTo
  <1>18. CursorAt(op.node, node[op.node].fptr_index)' /\ ArgsOK(op)'
    <2>a. node[n].start_cluster = s[1]
      BY <1>a, <1>1 DEF FileChain
    <2>b. chain'[n][1] = s[1]
      BY <1>9, <1>11
    <2>1. node[n].start_cluster = s[1] /\ chain'[n][1] = s[1] /\ 0 + 1 = 1
      BY <2>a, <2>b
    <2>2. /\ node'[n].fptr_cluster = chain'[n][0 + 1] /\ 0 < Len(chain'[n])
          /\ Len(chain'[n]) # 0 /\ op'.node = n /\ node'[n].fptr_index = 0
      BY <1>a, <1>7, <1>8, <1>9, <2>1
    <2>3. CursorAt(op.node, node[op.node].fptr_index)'
      <3> HIDE DEF n
      <3> QED BY <2>2 DEF CursorAt
    <2> QED BY <1>1, <1>7, <1>8, <2>3 DEF ArgsOK
  <1>19. r.fault = 0 => op'.cluster = tail'[1]
    BY <1>6, <1>7, <1>10, <1>11
  <1>20. CallInv'
    BY <1>0, <1>1, <1>5, <1>6, <1>7, <1>8, <1>10, <1>16, <1>17, <1>18, <1>19
    DEF CallInv, GrowLabels, ArgsOK, d
  <1> QED BY <1>12, <1>14, <1>15, <1>20 DEF SaneInv


\* A sequence without its first element.
LEMMA RestOfSeq ==
  ASSUME NEW S, NEW s \in Seq(S), NEW d \in Nat, d > 0, Len(s) = d
  PROVE  /\ Len(SubSeq(s, 2, Len(s))) = d - 1
         /\ \A i \in 1 .. d - 1 : SubSeq(s, 2, Len(s))[i] = s[i + 1]
  <1>1. CASE d = 1
    BY <1>1
  <1>2. CASE d > 1
    <2>1. Len(SubSeq(s, 2, Len(s))) = d - 1
      BY <1>2
    <2>2. ASSUME NEW i \in 1 .. d - 1
          PROVE  SubSeq(s, 2, Len(s))[i] = s[i + 1]
      <3>1. SubSeq(s, 2, Len(s))[i] = s[2 + i - 1] /\ 2 + i - 1 = i + 1
        BY <1>2
      <3> QED BY <3>1
    <2> QED BY <2>1, <2>2
  <1> QED BY <1>1, <1>2

\* Positions in a sequence without its first element.
LEMMA InRest ==
  ASSUME NEW d \in Nat, d > 0
  PROVE  /\ d - 1 \in Nat /\ 1 \in 1 .. d /\ (d - 1 = 0 \/ d - 1 > 0)
         /\ d - 1 > 0 => 1 \in 1 .. d - 1
         /\ \A i \in 1 .. d - 1 : i + 1 \in 1 .. d /\ i + 1 # 1 /\ i \in Nat
         /\ \A i \in 1 .. (d - 1) - 1 : i \in 1 .. d - 1 /\ i + 1 \in 1 .. d - 1
  OBVIOUS

\* One cluster is freed: its FAT entry and its bit are cleared, and nothing
\* that is still owned is touched.
LEMMA ShrinkFreeInv ==
  ASSUME TypeOK, SaneInv, ShrinkFree PROVE SaneInv'
  <1> DEFINE n == op.node
             d == op.difference
  <1>0. /\ pc = "shrinkFree" /\ pc' = "shrinkFree" /\ n \in Nodes /\ op \in OpType
        /\ d \in Nat /\ d > 0 /\ op.cluster \in Clusters
        /\ tail \in Seq(Clusters)
        /\ chain \in [Nodes -> Seq(Clusters)] /\ node \in [Nodes -> NodeType]
        /\ fat \in [Clusters -> Word] /\ faults \in Nat
        /\ UNCHANGED <<node, chain>>
        /\ cmap' = cmap \ {op.cluster} /\ tail' = SubSeq(tail, 2, Len(tail))
    BY SMTT(30) DEF ShrinkFree, free_cluster, TypeOK, OpType, CLUSTER_INVALID
  <1>1. /\ Len(tail) = d /\ ShrinksTo(Len(chain[n])) /\ LinkedSeq(n, tail)
        /\ CursorAt(n, node[n].fptr_index) /\ op.cluster = tail[1]
        /\ op.rollback \/ (op.then = "done" /\ op.size < node[n].size)
        /\ faults = 0 /\ ArgsOK(op)
    BY <1>0 DEF SaneInv, CallInv, ArgsOK
  <1>2. fat' = IF node[n].is_contiguous THEN fat
               ELSE [fat EXCEPT ![tail[1]] = EXFAT_CLUSTER_FREE]
    BY <1>1 DEF ShrinkFree, SetNext
  <1>3. PICK r \in NextCluster(n, tail[1]) :
          /\ faults' = faults + r.fault
          /\ op' = [op EXCEPT !.cluster = r.cluster, !.difference = op.difference - 1]
    BY <1>1 DEF ShrinkFree
  <1>4. /\ op'.node = op.node /\ op'.then = op.then /\ op'.size = op.size
        /\ op'.off = op.off /\ op'.len = op.len
        /\ op'.difference = d - 1 /\ op'.rollback = op.rollback
        /\ op'.cluster = r.cluster
    BY <1>0, <1>3 DEF OpType
  <1> HIDE DEF d
  <1>5. /\ d - 1 \in Nat /\ 1 \in 1 .. d /\ (d - 1 = 0 \/ d - 1 > 0)
        /\ d - 1 > 0 => 1 \in 1 .. d - 1
        /\ \A i \in 1 .. d - 1 : i + 1 \in 1 .. d /\ i + 1 # 1 /\ i \in Nat
        /\ \A i \in 1 .. (d - 1) - 1 : i \in 1 .. d - 1 /\ i + 1 \in 1 .. d - 1
    BY <1>0, InRest
  <1>6. Len(tail') = d - 1 /\ \A i \in 1 .. d - 1 : tail'[i] = tail[i + 1]
    BY <1>0, <1>1, RestOfSeq
  <1>7. \A i \in 1 .. d : tail[i] \in Clusters
    BY <1>0, <1>1, ElementOfSeq
  <1>8. \A i \in 1 .. d - 1 : tail[i + 1] # tail[1]
    BY <1>1, <1>5 DEF SaneInv, OwnInv, Injective
  <1>9. \A m \in Nodes : \A i \in 1 .. Len(chain[m]) :
          chain[m][i] # tail[1] /\ chain[m][i] \in Clusters
    <2>1. \A m \in Nodes : chain[m] \in Seq(Clusters)
      BY <1>0
    <2>2. ASSUME NEW m \in Nodes, NEW i \in 1 .. Len(chain[m])
          PROVE  chain[m][i] # tail[1] /\ chain[m][i] \in Clusters
      BY <1>1, <1>5, <2>1, ElementOfSeq DEF SaneInv, OwnInv
    <2> QED BY <2>2
  <1>10. OwnInv'
    <2>1. \A m \in Nodes : Injective(chain'[m])
      BY <1>0 DEF SaneInv, OwnInv
    <2>2. Injective(tail')
      <3> SUFFICES ASSUME NEW i \in 1 .. d - 1, NEW j \in 1 .. d - 1,
                          tail[i + 1] = tail[j + 1]
                   PROVE  i = j
        BY <1>6 DEF Injective
      <3>1. i + 1 = j + 1
        BY <1>1, <1>5 DEF SaneInv, OwnInv, Injective
      <3> QED BY <1>5, <3>1
    <2>4. ASSUME NEW m1 \in Nodes, NEW m2 \in Nodes, m1 # m2,
                 NEW i \in 1 .. Len(chain'[m1]), NEW j \in 1 .. Len(chain'[m2])
          PROVE  chain'[m1][i] # chain'[m2][j]
      BY <1>0, <2>4 DEF SaneInv, OwnInv
    <2>5. ASSUME NEW m \in Nodes, NEW i \in 1 .. Len(chain'[m]),
                 NEW j \in 1 .. Len(tail')
          PROVE  chain'[m][i] # tail'[j]
      BY <1>0, <1>1, <1>5, <1>6 DEF SaneInv, OwnInv
    <2>6. ASSUME NEW m \in Nodes, NEW i \in 1 .. Len(chain'[m])
          PROVE  chain'[m][i] \in cmap' /\ chain'[m][i] \notin Reserved
      BY <1>0, <1>1, <1>9 DEF SaneInv, OwnInv
    <2>7. ASSUME NEW j \in 1 .. Len(tail')
          PROVE  tail'[j] \in cmap' /\ tail'[j] \notin Reserved
      BY <1>0, <1>1, <1>5, <1>6, <1>8 DEF SaneInv, OwnInv
    <2>8. Reserved \subseteq cmap'
      <3>1. tail[1] \notin Reserved
        BY <1>1, <1>5 DEF SaneInv, OwnInv
      <3> QED BY <1>0, <1>1, <3>1 DEF SaneInv, OwnInv
    <2> QED BY <2>1, <2>2, <2>4, <2>5, <2>6, <2>7, <2>8 DEF OwnInv
  <1>11. ChainInv'
    <2> SUFFICES ASSUME NEW m \in Nodes PROVE FileChain(m)'
      BY DEF ChainInv
    <2>1. \A i \in 1 .. Len(chain[m]) : fat'[chain[m][i]] = fat[chain[m][i]]
      BY <1>0, <1>2, <1>9
    <2> QED BY <1>0, <2>1, ChainFrame DEF SaneInv, ChainInv
  <1>12. FilesInv'
    BY <1>0, <1>1, <1>4, OtherFiles DEF SaneInv, QuietLabels
  <1>13. LinkedSeq(op.node, tail)'
    <2>1. CASE node[n].is_contiguous
      <3>1. ASSUME NEW i \in 1 .. d - 1
            PROVE  tail'[i] = tail'[1] + i - 1
        <4>1. 1 \in 1 .. d - 1 /\ i \in Nat /\ i + 1 \in 1 .. d /\ 1 + 1 \in 1 .. d
          BY <1>0, <1>5
        <4>2. tail'[i] = tail[i + 1] /\ tail'[1] = tail[1 + 1]
          BY <1>6, <4>1
        <4>3. tail[i + 1] = tail[1] + (i + 1) - 1
          BY <1>1, <2>1, <4>1 DEF LinkedSeq
        <4>4. tail[1 + 1] = tail[1] + (1 + 1) - 1
          BY <1>1, <2>1, <4>1 DEF LinkedSeq
        <4>5. tail[1] \in Nat
          BY <1>5, <1>7, ClusterNumbers
        <4> QED BY <4>1, <4>2, <4>3, <4>4, <4>5
      <3> QED BY <1>0, <1>4, <1>6, <2>1, <3>1 DEF LinkedSeq
    <2>2. CASE ~node[n].is_contiguous
      <3>1. ASSUME NEW i \in 1 .. (d - 1) - 1
            PROVE  tail'[i + 1] = fat'[tail'[i]]
        <4>1. i \in 1 .. d - 1 /\ i + 1 \in 1 .. d - 1 /\ i + 1 \in 1 .. d
          BY <1>5
        <4>2. tail'[i] = tail[i + 1] /\ tail'[i + 1] = tail[(i + 1) + 1]
          BY <1>6, <4>1
        <4>3. tail[(i + 1) + 1] = fat[tail[i + 1]]
          BY <1>1, <2>2, <4>1 DEF LinkedSeq
        <4>4. fat'[tail[i + 1]] = fat[tail[i + 1]]
          BY <1>0, <1>2, <1>7, <1>8, <4>1
        <4> QED BY <4>2, <4>3, <4>4
      <3> QED BY <1>0, <1>4, <1>6, <2>2, <3>1 DEF LinkedSeq
    <2> QED BY <2>1, <2>2
  <1>14. ShrinksTo(Len(chain[op.node]))' /\ ArgsOK(op)'
         /\ CursorAt(op.node, node[op.node].fptr_index)'
    BY <1>0, <1>1, <1>4 DEF ShrinksTo, ArgsOK, CursorAt
  <1>15. d - 1 > 0 => \/ r.fault = 1 /\ r.cluster \notin Clusters
                      \/ r.fault = 0 /\ r.cluster = tail'[1]
    <2> SUFFICES ASSUME d - 1 > 0
                 PROVE  \/ r.fault = 1 /\ r.cluster \notin Clusters
                        \/ r.fault = 0 /\ r.cluster = tail'[1]
      OBVIOUS
    <2>1. 1 \in 1 .. Len(tail) - 1 /\ tail'[1] = tail[1 + 1]
      BY <1>1, <1>5, <1>6
    <2> HIDE DEF n
    <2> QED BY <1>0, <1>1, <1>3, <2>1, NextOfLinked
  <1>17. CallInv'
    BY <1>0, <1>1, <1>3, <1>4, <1>6, <1>13, <1>14, <1>15, <1>5
    DEF CallInv, GrowLabels, ArgsOK
  <1> QED BY <1>10, <1>11, <1>12, <1>17 DEF SaneInv

\* The chain to be freed ends early only if the FAT could not be read.
LEMMA ShrinkInvalidInv ==
  ASSUME TypeOK, SaneInv, ShrinkInvalid PROVE SaneInv'
  <1>0. /\ pc = "shrinkFree" /\ op.difference > 0 /\ op.cluster \notin Clusters
        /\ op \in OpType /\ op.node \in Nodes /\ op.difference \in Nat
        /\ tail \in Seq(Clusters) /\ tail' = <<>> /\ Return("EIO")
        /\ UNCHANGED <<node, fat, cmap, chain, faults>>
    BY DEF ShrinkInvalid, TypeOK, OpType, CLUSTER_INVALID, disk
  <1>1. faults # 0
    <2> SUFFICES ASSUME faults = 0 PROVE FALSE
      OBVIOUS
    <2>1. Len(tail) = op.difference /\ op.cluster = tail[1]
      BY <1>0 DEF SaneInv, CallInv
    <2>2. 1 \in 1 .. Len(tail)
      BY <1>0, <2>1
    <2> QED BY <1>0, <2>1, <2>2, ElementOfSeq
  <1>2. FilesInv'
    BY <1>0, <1>1 DEF FilesInv
  <1> QED BY <1>0, <1>2, ReturnInv

\* The other files and the file of the call, when it is settled again.
LEMMA CallFileSettled ==
  ASSUME FilesInv, faults' = 0 => faults = 0, op'.node = op.node,
         \A n \in Nodes \ {op.node} : node'[n] = node[n] /\ chain'[n] = chain[n],
         faults' = 0 /\ op.node \in Nodes => SettledFile(op.node)'
  PROVE  FilesInv'
  <1> SUFFICES ASSUME faults' = 0, NEW n \in Nodes PROVE SettledFile(n)'
    BY DEF FilesInv
  <1>1. CASE n = op.node
    BY <1>1
  <1>2. CASE n # op.node
    <2>1. SettledFile(n)
      BY <1>2 DEF FilesInv
    <2> QED BY <1>2, <2>1, SettledUnchanged
  <1> QED BY <1>1, <1>2

\* The end of shrink_file(): the file has the clusters its size, or its new
\* size, calls for.
LEMMA ShrinkEndInv ==
  ASSUME TypeOK, SaneInv, ShrinkEnd PROVE SaneInv'
  <1> DEFINE n == op.node
  <1>0. /\ pc = "shrinkFree" /\ op.difference = 0 /\ n \in Nodes /\ op \in OpType
        /\ tail' = <<>> /\ UNCHANGED <<node, fat, cmap, chain, faults>>
        /\ IF op.rollback THEN Return("ENOSPC") ELSE Goto("erase")
    BY DEF ShrinkEnd, TypeOK, disk
  <1>1. /\ ShrinksTo(Len(chain[n])) /\ CursorAt(n, node[n].fptr_index)
        /\ op.rollback \/ (op.then = "done" /\ op.size < node[n].size)
        /\ ArgsOK(op)
    BY <1>0 DEF SaneInv, CallInv, ArgsOK
  <1>2. CASE op.rollback
    <2>1. op'.node = op.node
      BY <1>0, <1>2 DEF Return, OpType
    <2>2. SettledFile(op.node)'
      BY <1>0, <1>1, <1>2, <2>1 DEF SettledFile, HasClusters, ShrinksTo, CursorAt
    <2>3. FilesInv'
      BY <1>0, <2>1, <2>2, CallFileSettled DEF SaneInv
    <2> QED BY <1>0, <1>2, <2>3, ReturnInv
  <1>3. CASE ~op.rollback
    <2>1. pc' = "erase" /\ op' = op
      BY <1>0, <1>3 DEF Goto
    <2>2. OwnInv' /\ ChainInv'
      BY <1>0, OwnUnchanged, ChainUnchanged DEF SaneInv
    <2>3. FilesInv'
      <3> SUFFICES ASSUME faults' = 0, NEW m \in Nodes, m # op.node
                   PROVE  SettledFile(m)'
        BY <2>1 DEF FilesInv, QuietLabels
      <3>1. SettledFile(m)
        BY <1>0 DEF SaneInv, FilesInv
      <3> QED BY <1>0, <3>1, SettledUnchanged
    <2>4. CallInv'
      BY <1>0, <1>1, <1>3, <2>1
      DEF CallInv, GrowLabels, ArgsOK, HasClusters, ShrinksTo, CursorAt
    <2> QED BY <2>2, <2>3, <2>4 DEF SaneInv
  <1> QED BY <1>2, <1>3

\* shrink_file() keeps the invariant.
LEMMA ShrinkingInv ==
  ASSUME TypeOK, SaneInv, Shrink PROVE SaneInv'
BY ShrinkStartInv, ShrinkAllInv, ShrinkCropInv, ShrinkFreeInv, ShrinkInvalidInv,
   ShrinkEndInv DEF Shrink

(* erase_range and the end of exfat_truncate *)

\* The end of exfat_truncate(): the file is settled at its new size.
LEMMA TruncatedInv ==
  ASSUME TypeOK, SaneInv, pc \in {"erase", "eraseLoop"}, Truncated PROVE SaneInv'
  <1> DEFINE n == op.node
  <1>0. /\ n \in Nodes /\ op \in OpType /\ node \in [Nodes -> NodeType]
        /\ op.off \in Nat /\ op.len \in Nat /\ op.size \in Nat
        /\ UNCHANGED <<fat, cmap, chain, tail, faults>>
        /\ node' = [node EXCEPT ![op.node].size = op.size,
                                ![op.node].is_dirty = TRUE]
    BY DEF Truncated, TypeOK, OpType, disk, history
  <1>1. /\ tail = <<>> /\ HasClusters(n, bytes2clusters(op.size))
        /\ CursorAt(n, node[n].fptr_index) /\ ~op.rollback
        /\ op.then = "pwriteData" => op.size = op.off + op.len
        /\ op.then # "done" => faults = 0
    BY DEF SaneInv, CallInv, TypeOK
  <1>2. /\ \A m \in Nodes \ {n} : node'[m] = node[m]
        /\ \A m \in Nodes : /\ node'[m].start_cluster = node[m].start_cluster
                            /\ node'[m].is_contiguous = node[m].is_contiguous
        /\ node'[n].fptr_index = node[n].fptr_index
        /\ node'[n].fptr_cluster = node[n].fptr_cluster
        /\ node'[n].size = op.size
    BY <1>0 DEF NodeType
  <1>a. op'.node = op.node
    BY <1>0, ZenonT(30) DEF Truncated, Return, NoOp, OpType
  <1>3. SettledFile(op.node)'
    <2>1. HasClusters(op.node, bytes2clusters(node[op.node].size))'
      BY <1>0, <1>1, <1>2, <1>a DEF HasClusters
    <2>2. CursorAt(op.node, node[op.node].fptr_index)'
      BY <1>0, <1>1, <1>2, <1>a DEF CursorAt
    <2> QED BY <2>1, <2>2 DEF SettledFile
  <1>4. CASE op.then = "done"
    <2>1. Return("ok")
      BY <1>4 DEF Truncated
    <2>2. op'.node = op.node
      BY <1>0, <2>1 DEF Return, OpType
    <2>3. FilesInv'
      BY <1>0, <1>2, <1>3, <2>2, CallFileSettled DEF SaneInv
    <2> QED BY <1>0, <1>1, <1>2, <2>1, <2>3, ReturnInv
  <1>5. CASE op.then # "done"
    <2>1. /\ pc' = op.then /\ pc' \in {"pwriteExtend", "pwriteData"}
          /\ op' = [NoOp EXCEPT !.kind = op.kind, !.node = op.node,
                      !.off = op.off, !.buf = op.buf, !.len = op.len]
      BY <1>0, <1>5 DEF Truncated, OpType
    <2>2. /\ op'.node = op.node /\ op'.then = "done" /\ ~op'.rollback
          /\ op'.allocated = 0 /\ op'.off = op.off /\ op'.len = op.len
      BY <2>1 DEF NoOp
    <2>3. FilesInv'
      BY <1>0, <1>2, <1>3, <2>2, CallFileSettled DEF SaneInv
    <2>4. OwnInv' /\ ChainInv'
      BY <1>0, <1>2, OwnUnchanged, ChainUnchanged DEF SaneInv
    <2>5. pc' = "pwriteData" => op'.off + op'.len <= node'[n].size
      BY <1>0, <1>1, <1>2, <2>1, <2>2
    <2>6. CallInv'
      BY <1>0, <1>1, <1>5, <2>1, <2>2, <2>5 DEF CallInv, GrowLabels
    <2> QED BY <2>3, <2>4, <2>6 DEF SaneInv
  <1> QED BY <1>4, <1>5

\* erase_range() starts at a cluster that the grown file has.
LEMMA EraseStartInv ==
  ASSUME TypeOK, SaneInv, EraseStart PROVE SaneInv'
  <1> DEFINE n == op.node
             index == node[n].size \div ClusterSize
             o == [op EXCEPT !.boundary = (index + 1) * ClusterSize]
  <1>0. /\ pc = "erase" /\ n \in Nodes /\ op \in OpType
        /\ node[n].size \in Nat /\ op.size \in Nat
    BY DEF EraseStart, TypeOK, NodeType, OpType
  <1>1. CASE op.erase /\ node[n].size < op.size
    <2>1. CallAdvance(o, index, "eraseFirst")
      BY <1>1 DEF EraseStart
    <2>2. index \in Nat /\ index < bytes2clusters(op.size)
      BY <1>0, <1>1, ClusterOfByte
    <2>3. /\ tail = <<>> /\ HasClusters(n, bytes2clusters(op.size)) /\ faults = 0
          /\ CursorAt(n, node[n].fptr_index) /\ ~op.rollback /\ ArgsOK(op)
      BY <1>0, <1>1 DEF SaneInv, CallInv, TypeOK, ArgsOK
    <2>4. (index + 1) * ClusterSize \in Nat
      <3> HIDE DEF index
      <3> QED BY <2>2, ClusterAssumption
    <2> HIDE DEF index
    <2>5. /\ o \in OpType /\ o.node = op.node /\ o.then = op.then
          /\ o.size = op.size /\ o.off = op.off /\ o.len = op.len
          /\ o.rollback = op.rollback
      BY <1>0, <2>4 DEF OpType
    <2>6. ArgsOK(o) /\ Len(chain[op.node]) = bytes2clusters(o.size)
          /\ index < Len(chain[op.node])
      BY <2>2, <2>3, <2>5 DEF ArgsOK, HasClusters
    <2> HIDE DEF o
    <2> QED BY <1>0, <2>1, <2>2, <2>3, <2>5, <2>6, CallAdvanceInv
  <1>2. CASE ~(op.erase /\ node[n].size < op.size)
    <2>1. Truncated
      BY <1>2 DEF EraseStart
    <2> QED BY <1>0, <2>1, TruncatedInv
  <1> QED BY <1>1, <1>2

\* erase_range() in the first cluster keeps the invariant.
LEMMA EraseFirstInv ==
  ASSUME TypeOK, SaneInv, EraseFirst PROVE SaneInv'
  <1>0. /\ pc = "eraseFirst" /\ pc' = "eraseLoop" /\ op' = op /\ op.node \in Nodes
        /\ UNCHANGED <<node, fat, cmap, chain, tail, faults>>
    BY DEF EraseFirst, Goto, TypeOK, history
  <1>1. OwnInv' /\ ChainInv'
    BY <1>0, OwnUnchanged, ChainUnchanged DEF SaneInv
  <1>2. faults = 0
    BY <1>0 DEF SaneInv, CallInv, TypeOK
  <1>3. FilesInv'
    BY <1>0, <1>2, OtherFiles DEF SaneInv, QuietLabels
  <1>4. CallInv'
    BY <1>0, <1>2 DEF SaneInv, CallInv, GrowLabels, HasClusters, CursorAt
  <1> QED BY <1>1, <1>3, <1>4 DEF SaneInv

\* erase_range() in the next cluster keeps the invariant.
LEMMA EraseNextInv ==
  ASSUME TypeOK, SaneInv, EraseNext PROVE SaneInv'
  <1> DEFINE n == op.node
  <1>0. /\ pc = "eraseLoop" /\ n \in Nodes /\ op \in OpType /\ op.cluster \in Clusters
        /\ UNCHANGED <<node, fat, cmap, chain, tail>>
    BY DEF EraseNext, TypeOK
  <1>1. /\ tail = <<>> /\ HasClusters(n, bytes2clusters(op.size)) /\ faults = 0
        /\ CursorAt(n, node[n].fptr_index) /\ ~op.rollback /\ ArgsOK(op)
    BY <1>0 DEF SaneInv, CallInv, TypeOK, ArgsOK
  <1>2. PICK r \in NextCluster(op.node, op.cluster) :
       /\ faults' = faults + r.fault
       /\ IF CLUSTER_INVALID(r.cluster)
          THEN exfat_bug("invalid cluster after allocation") /\ UNCHANGED data
          ELSE /\ Overwrite(r.cluster, Zeros(0, ClusterSize))
               /\ op' = [op EXCEPT !.cluster = r.cluster,
                                   !.boundary = op.boundary + ClusterSize]
               /\ UNCHANGED pc
    BY DEF EraseNext
  <1>3. /\ op'.node = op.node /\ op'.then = op.then /\ op'.size = op.size
        /\ op'.off = op.off /\ op'.len = op.len /\ op'.rollback = op.rollback
        /\ pc' \in {"eraseLoop", "bug"}
        /\ pc' = "eraseLoop" => r.cluster \in Clusters
    BY <1>0, <1>2, ZenonT(30) DEF OpType, exfat_bug, CLUSTER_INVALID
  <1>4. pc' = "eraseLoop" => faults' = 0
    <2> SUFFICES ASSUME pc' = "eraseLoop" PROVE faults' = 0
      OBVIOUS
    <2>1. r.fault = 0
      BY <1>0, <1>2, <1>3, NextOutcome
    <2>2. faults' = 0 + 0
      BY <1>1, <1>2, <2>1
    <2> QED BY <2>2
  <1>5. OwnInv' /\ ChainInv'
    BY <1>0, OwnUnchanged, ChainUnchanged DEF SaneInv
  <1>6. FilesInv'
    BY <1>0, <1>1, <1>3, OtherFiles DEF SaneInv, QuietLabels
  <1>7. CallInv'
    BY <1>0, <1>1, <1>3, <1>4 DEF CallInv, GrowLabels, HasClusters, CursorAt, ArgsOK
  <1> QED BY <1>5, <1>6, <1>7 DEF SaneInv

\* erase_range() keeps the invariant.
LEMMA ErasingInv ==
  ASSUME TypeOK, SaneInv, Erase PROVE SaneInv'
BY EraseStartInv, EraseFirstInv, EraseNextInv, TruncatedInv DEF Erase, EraseEnd

(* exfat_generic_pwrite and exfat_generic_pread *)

\* The exfat_truncate() calls of exfat_generic_pwrite() only grow the file.
LEMMA WriteExtendingInv ==
  ASSUME TypeOK, SaneInv, WriteGap \/ WriteExtend PROVE SaneInv'
  <1> DEFINE n == op.node
  <1>0. /\ pc \in {"pwrite", "pwriteExtend"} /\ n \in Nodes /\ op \in OpType
        /\ op.off \in Nat /\ op.len \in Nat /\ node[n].size \in Nat
        /\ UNCHANGED <<node, fat, cmap, chain, tail, faults>>
    BY DEF WriteGap, WriteExtend, TypeOK, OpType, NodeType, disk, history
  <1>1. tail = <<>> /\ faults = 0 /\ ~op.rollback /\ op.allocated = 0 /\ ArgsOK(op)
    BY <1>0 DEF SaneInv, CallInv, TypeOK, ArgsOK
  <1>2. OwnInv' /\ ChainInv'
    BY <1>0, OwnUnchanged, ChainUnchanged DEF SaneInv
  <1>3. FilesInv'
    BY <1>0, AllFiles DEF SaneInv, QuietLabels
  <1>4. ASSUME NEW size \in Nat, NEW erase \in BOOLEAN,
               NEW then \in {"pwriteExtend", "pwriteData"},
               SubTruncate(size, erase, then), size > node[n].size,
               then = "pwriteData" => size = op.off + op.len
        PROVE  CallInv'
    <2>1. /\ pc' = "truncate"
          /\ op'.node = op.node /\ op'.then = then /\ op'.size = size
          /\ op'.off = op.off /\ op'.len = op.len /\ op'.allocated = op.allocated
          /\ op'.rollback = op.rollback
      BY <1>0, <1>4 DEF SubTruncate, OpType
    <2> QED BY <1>0, <1>1, <1>4, <2>1 DEF CallInv, GrowLabels
  <1>5. CASE WriteGap
    <2>1. CASE op.off > node[n].size
      <3>1. SubTruncate(op.off, TRUE, "pwriteExtend")
        BY <1>5, <2>1 DEF WriteGap
      <3> QED BY <1>0, <1>2, <1>3, <1>4, <2>1, <3>1 DEF SaneInv
    <2>2. CASE ~(op.off > node[n].size)
      <3>1. pc' = "pwriteExtend" /\ op' = op
        BY <1>5, <2>2 DEF WriteGap, Goto
      <3>2. CallInv'
        BY <1>0, <1>1, <3>1 DEF CallInv, GrowLabels, ArgsOK
      <3> QED BY <1>2, <1>3, <3>2 DEF SaneInv
    <2> QED BY <2>1, <2>2
  <1>6. CASE WriteExtend
    <2>1. CASE op.off + op.len > node[n].size
      <3>1. SubTruncate(op.off + op.len, FALSE, "pwriteData")
        BY <1>6, <2>1 DEF WriteExtend
      <3>2. op.off + op.len \in Nat
        BY <1>0
      <3> QED BY <1>2, <1>3, <1>4, <2>1, <3>1, <3>2 DEF SaneInv
    <2>2. CASE ~(op.off + op.len > node[n].size)
      <3>1. pc' = "pwriteData" /\ op' = op
        BY <1>6, <2>2 DEF WriteExtend, Goto
      <3>2. op.off + op.len <= node[n].size
        BY <1>0, <2>2
      <3>3. CallInv'
        BY <1>0, <1>1, <3>1, <3>2 DEF CallInv, GrowLabels, ArgsOK
      <3> QED BY <1>2, <1>3, <3>3 DEF SaneInv
    <2> QED BY <2>1, <2>2
  <1> QED BY <1>5, <1>6

\* The read and write loops start at a cluster that the file has.
LEMMA IoStartInv ==
  ASSUME TypeOK, SaneInv, pc \in {"pwriteData", "pread"}, NEW remainder \in Nat,
         NEW loop \in {"pwriteLoop", "preadLoop"}, IoStart(remainder, loop),
         remainder # 0 => op.off < node[op.node].size
  PROVE  SaneInv'
  <1> DEFINE n == op.node
  <1>0. /\ n \in Nodes /\ op \in OpType /\ op.off \in Nat /\ node[n].size \in Nat
    BY DEF TypeOK, OpType, NodeType
  <1>1. /\ tail = <<>> /\ faults = 0 /\ ~op.rollback /\ ArgsOK(op) /\ SettledFile(n)
    BY <1>0 DEF SaneInv, CallInv, TypeOK, ArgsOK, FilesInv, QuietLabels
  <1>2. CASE remainder = 0
    <2>1. Return("ok") /\ UNCHANGED <<node, fat, cmap, chain, tail, faults>>
      BY <1>2 DEF IoStart, disk, history
    <2>2. FilesInv'
      BY <2>1, AllFiles DEF SaneInv, QuietLabels
    <2> QED BY <1>0, <1>1, <2>1, <2>2, ReturnInv
  <1>3. CASE remainder # 0
    <2> DEFINE o == [op EXCEPT !.loffset = op.off % ClusterSize,
                               !.remainder = remainder]
               index == op.off \div ClusterSize
    <2>1. op.off % ClusterSize \in 0 .. ClusterSize - 1
      BY <1>0, ClusterAssumption
    <2>2. index \in Nat /\ index < bytes2clusters(node[n].size)
      BY <1>0, <1>3, ClusterOfByte
    <2>3. o \in OpType
      BY <1>0, <2>1, Zenon DEF OpType
    <2>4. /\ o.node = op.node /\ o.then = op.then /\ o.size = op.size
          /\ o.off = op.off /\ o.len = op.len /\ o.rollback = op.rollback
      BY <1>0 DEF OpType
    <2>5. CallAdvance(o, index, loop)
      BY <1>3 DEF IoStart
    <2> HIDE DEF o, index
    <2>6. ArgsOK(o)
      BY <1>1, <2>4 DEF ArgsOK
    <2>7. /\ Len(chain[op.node]) = bytes2clusters(node[op.node].size)
          /\ CursorAt(op.node, node[op.node].fptr_index)
          /\ index < Len(chain[op.node])
      BY <1>1, <2>2 DEF SettledFile, HasClusters
    <2> QED BY <1>0, <1>1, <2>2, <2>3, <2>4, <2>5, <2>6, <2>7, CallAdvanceInv
  <1> QED BY <1>2, <1>3

\* exfat_generic_pwrite() starts within the extended file.
LEMMA WriteStartInv ==
  ASSUME TypeOK, SaneInv, WriteStart PROVE SaneInv'
  <1>0. /\ pc = "pwriteData" /\ op.node \in Nodes /\ op \in OpType
        /\ op.off \in Nat /\ op.len \in Nat /\ node[op.node].size \in Nat
        /\ IoStart(op.len, "pwriteLoop")
    BY DEF WriteStart, TypeOK, OpType, NodeType
  <1>1. op.off + op.len <= node[op.node].size
    BY <1>0 DEF SaneInv, CallInv
  <1>2. op.len # 0 => op.off < node[op.node].size
    BY <1>0, <1>1
  <1> QED BY <1>0, <1>2, IoStartInv

\* exfat_generic_pread() starts within the file.
LEMMA ReadStartInv ==
  ASSUME TypeOK, SaneInv, ReadStart PROVE SaneInv'
  <1> DEFINE size == node[op.node].size
             remainder == IF op.off >= size THEN 0 ELSE Lesser(op.len, size - op.off)
  <1>0. /\ pc = "pread" /\ op.node \in Nodes /\ op \in OpType
        /\ op.off \in Nat /\ op.len \in Nat /\ size \in Nat
        /\ IoStart(remainder, "preadLoop")
    BY DEF ReadStart, TypeOK, OpType, NodeType
  <1>1. remainder \in Nat /\ (remainder # 0 => op.off < size)
    BY <1>0 DEF Lesser
  <1> HIDE DEF remainder
  <1> QED BY <1>0, <1>1, IoStartInv

\* Reading and writing clusters keeps the invariant.
LEMMA IoLoopInv ==
  ASSUME TypeOK, SaneInv, IoLoop PROVE SaneInv'
  <1>0. /\ pc \in {"pwriteLoop", "preadLoop"} /\ pc' = pc /\ op.node \in Nodes
        /\ op \in OpType /\ op.cluster \in Clusters /\ faults \in Nat
        /\ UNCHANGED <<node, fat, cmap, chain, tail>>
    BY DEF IoLoop, TypeOK, CLUSTER_INVALID
  <1>1. tail = <<>> /\ ~op.rollback /\ ArgsOK(op)
    BY <1>0 DEF SaneInv, CallInv, ArgsOK
  <1>2. PICK r \in NextCluster(op.node, op.cluster) :
          /\ faults' = faults + r.fault
          /\ op' = [op EXCEPT
               !.cluster = r.cluster, !.loffset = 0, !.remainder = @ - Chunk,
               !.out = IF pc = "pwriteLoop" THEN @
                       ELSE @ \o [j \in 1 .. Chunk |->
                                    data[op.cluster][op.loffset + j - 1]]]
    BY DEF IoLoop
  <1>3. faults' = 0 => faults = 0
    <2>1. r.fault = 0 \/ r.fault = 1
      BY <1>0, <1>2, NextOutcome
    <2> QED BY <1>0, <1>2, <2>1
  <1>4. /\ op'.node = op.node /\ op'.then = op.then /\ op'.size = op.size
        /\ op'.off = op.off /\ op'.len = op.len /\ op'.rollback = op.rollback
    BY <1>0, <1>2 DEF OpType
  <1>5. OwnInv' /\ ChainInv'
    BY <1>0, OwnUnchanged, ChainUnchanged DEF SaneInv
  <1>6. FilesInv'
    BY <1>0, <1>3, AllFiles DEF SaneInv, QuietLabels
  <1>7. CallInv'
    BY <1>0, <1>1, <1>4 DEF CallInv, GrowLabels, ArgsOK
  <1> QED BY <1>5, <1>6, <1>7 DEF SaneInv

\* The end of the read and write loops keeps the invariant.
LEMMA IoDoneInv ==
  ASSUME TypeOK, SaneInv, IoInvalid \/ IoEnd PROVE SaneInv'
  <1>0. /\ pc \in {"pwriteLoop", "preadLoop"} /\ op.node \in Nodes /\ op \in OpType
        /\ node \in [Nodes -> NodeType] 
        /\ (Return("EIO") \/ Return("ok"))
        /\ UNCHANGED <<fat, cmap, chain, tail, faults>>
    BY DEF IoInvalid, IoEnd, TypeOK, disk, history
  <1>1. node' = node \/ node' = [node EXCEPT ![op.node].is_dirty = TRUE]
    BY DEF IoInvalid, IoEnd
  <1>2. \A n \in Nodes : /\ node'[n].start_cluster = node[n].start_cluster
                         /\ node'[n].is_contiguous = node[n].is_contiguous
                         /\ node'[n].size = node[n].size
                         /\ node'[n].fptr_index = node[n].fptr_index
                         /\ node'[n].fptr_cluster = node[n].fptr_cluster
    BY <1>0, <1>1 DEF NodeType
  <1>3. FilesInv'
    BY <1>0, <1>2, AllFiles DEF SaneInv, QuietLabels
  <1>4. tail' = <<>>
    BY <1>0 DEF SaneInv, CallInv
  <1> QED BY <1>0, <1>2, <1>3, <1>4, ReturnInv

\* exfat_generic_pread() and exfat_generic_pwrite() keep the invariant.
LEMMA IoInv ==
  ASSUME TypeOK, SaneInv, Io PROVE SaneInv'
BY WriteExtendingInv, WriteStartInv, ReadStartInv, IoLoopInv, IoDoneInv DEF Io

(* All steps *)

\* A volume that is sane after a step was sane before it.
LEMMA SaneBefore ==
  ASSUME [Next]_vars, sane' PROVE sane
  <1>1. ASSUME Grow, sane' PROVE sane
    <2>1. \/ UNCHANGED sane \/ GrowAllocate
      BY <1>1 DEF Grow, GrowStart, GrowEmpty, GrowNoSpace, GrowFat, GrowFatEnd,
                  GrowLink, GrowEnd, CallAdvance, history
    <2> QED BY <1>1, <2>1 DEF GrowAllocate
  <1>2. ASSUME Call, sane' PROVE sane
    BY <1>2 DEF Call, exfat_truncate, exfat_generic_pwrite, exfat_generic_pread,
                Begin
  <1>3. ASSUME Advance \/ Truncate \/ Shrink PROVE UNCHANGED sane
    BY <1>3 DEF Advance, AdvanceLoop, AdvanceEnd, Truncate, TruncateWithin,
                TruncateShrink, Shrink, ShrinkStart, ShrinkAll, ShrinkCrop,
                ShrinkFree, ShrinkInvalid, ShrinkEnd, CallAdvance, history
  <1>4. ASSUME Erase \/ Io PROVE UNCHANGED sane
    BY <1>4 DEF Erase, EraseStart, EraseFirst, EraseNext, EraseEnd, Truncated,
                Io, WriteGap, WriteExtend, WriteStart, ReadStart, IoStart,
                IoLoop, IoInvalid, IoEnd, CallAdvance, history
  <1>5. ASSUME DeviceFails \/ AssertionFails \/ Done \/ Aborted \/ UNCHANGED vars
        PROVE  UNCHANGED sane
    BY <1>5 DEF DeviceFails, AssertionFails, Done, Aborted, vars, history
  <1> QED
    BY <1>1, <1>2, <1>3, <1>4, <1>5 DEF Next, Step

\* Every step keeps the invariant, as long as the volume is sane.
LEMMA SaneNext ==
  TypeOK /\ TypeOK' /\ IInv /\ [Next]_vars => IInv'
  <1> SUFFICES ASSUME TypeOK, TypeOK', IInv, [Next]_vars, sane'
               PROVE  SaneInv'
    BY DEF IInv
  <1>1. sane /\ SaneInv
    <2>1. sane
      BY SaneBefore
    <2> QED BY <2>1 DEF IInv
  <1>2. CASE UNCHANGED vars
    BY <1>1, <1>2 DEF vars, disk, history, SaneInv, OwnInv, Injective, ChainInv,
       FileChain, LinkedSeq, FilesInv, SettledFile, HasClusters, CursorAt, CallInv,
       GrowInv, ShrinksTo
  <1>3. CASE Call
    BY <1>1, <1>3, BeginInv
  <1>4. CASE Step
    BY <1>1, <1>4, CursorInv, TruncateInv, GrowingInv, ShrinkingInv, ErasingInv,
       IoInv, DeviceFailsInv, AssertionFailsInv, DoneInv DEF Step
  <1>5. CASE Aborted
    BY <1>2, <1>5 DEF Aborted
  <1> QED BY <1>2, <1>3, <1>4, <1>5 DEF Next

\* The inductive invariant of cluster.c: what holds of the chains, the
\* bitmap, the cursor and the clusters in flight at each step of a call.
THEOREM InvariantHolds == Spec => []IInv
  <1>1. Init => IInv
    BY InitInv DEF IInv
  <1> QED BY <1>1, SaneNext, TypeCorrect, PTL DEF Spec

\* The invariant implies that clusters have one owner.
LEMMA InvariantOwnership == TypeOK /\ IInv => Ownership
  <1> SUFFICES ASSUME TypeOK, SaneInv, sane PROVE Ownership
    BY DEF IInv, Ownership
  <1>1. /\ \A n \in Nodes : DOMAIN chain[n] = 1 .. Len(chain[n])
        /\ DOMAIN tail = 1 .. Len(tail)
    BY DEF TypeOK
  <1>2. OwnInv
    BY DEF SaneInv
  <1>3. /\ \A n \in Nodes : \A i, j \in DOMAIN chain[n] :
             chain[n][i] = chain[n][j] => i = j
        /\ \A n \in Nodes : Members(chain[n]) \cap Members(tail) = {}
    BY <1>1, <1>2 DEF OwnInv, Injective, Members
  <1>4. \A n, m \in Nodes :
          n # m => Members(chain[n]) \cap Members(chain[m]) = {}
    BY <1>1, <1>2 DEF OwnInv, Members
  <1>5. /\ \A n \in Nodes : Members(chain[n]) \subseteq cmap \ Reserved
        /\ Members(tail) \subseteq cmap \ Reserved
    BY <1>1, <1>2 DEF OwnInv, Members
  <1> QED BY <1>3, <1>4, <1>5 DEF Ownership

\* No cluster is ever given to two files or to two places of one file, and
\* allocate_cluster() and free_cluster() keep the bit of every owned cluster
\* set: for every number of files and clusters, at every step of every call,
\* and also when a device access fails in the middle of one.
THEOREM OwnershipHolds == Spec => []Ownership
BY InvariantHolds, TypeCorrect, InvariantOwnership, PTL

=============================================================================
