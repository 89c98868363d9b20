------------------------- MODULE FileClustersGrowth -------------------------
(***************************************************************************)
(* What a call that extends its file keeps: a truncate that fails, for     *)
(* lack of space or because the device fails, leaves the bytes of the file *)
(* and, for lack of space, the bitmap as they were.  With it the invariant *)
(* of ClusterProgress is complete, and what the runs check of cluster.c    *)
(* follows.                                                                *)
(***************************************************************************)
EXTENDS FileClustersCalls

-----------------------------------------------------------------------------
(* How a step treats the arguments and the result of its call *)

\* Results of calls, as opposed to the marks of failed assertions.
Returned == {"ok", "EIO", "ENOSPC"}

\* Returning from a call keeps its arguments; a rollback reports ENOSPC.
LEMMA ReturnKind ==
  ASSUME TypeOK, NEW rc \in Returned, Return(rc)
  PROVE  /\ pc' = "done" /\ op'.size = op.size /\ op'.rollback = op.rollback
         /\ op'.rc = IF op.rollback THEN "ENOSPC" ELSE rc
  <1>1. op \in OpType
    BY DEF TypeOK
  <1> QED BY <1>1 DEF Return, OpType

\* How a step treats the size asked for, the rollback and the result.  The
\* call's file keeps its size until exfat_truncate() has succeeded.
Running ==
  /\ op'.size = op.size /\ op'.rollback = op.rollback
  /\ node'[op.node].size = node[op.node].size
  /\ \/ op'.rc \notin Returned
     \/ pc' = "done" /\ op'.rc \in {"ok", "EIO"}
     \/ /\ pc' = "done" /\ op'.rc = "ENOSPC"
        /\ op.rollback \/ op.size > node[op.node].size

\* exfat_advance_cluster() is entered with the arguments of the call.
LEMMA AdvanceRuns ==
  ASSUME TypeOK, op.node \in Nodes, NEW o \in OpType, NEW count, NEW ret,
         CallAdvance(o, count, ret), o.size = op.size, o.rollback = op.rollback,
         o.rc = op.rc, op.rc \notin Returned
  PROVE  Running
  <1>1. op'.size = o.size /\ op'.rollback = o.rollback /\ op'.rc = o.rc
    BY DEF CallAdvance, OpType
  <1>2. node'[op.node].size = node[op.node].size
    BY DEF CallAdvance, TypeOK, NodeType
  <1> QED BY <1>1, <1>2 DEF Running

\* Fewer clusters than are asked for: the file is to become larger.
LEMMA Larger ==
  ASSUME NEW s1 \in Nat, NEW s2 \in Nat, bytes2clusters(s1) < bytes2clusters(s2)
  PROVE  s2 > s1
  <1>1. bytes2clusters(s1) \in Nat /\ bytes2clusters(s2) \in Nat
    BY Bytes2ClustersNat
  <1>2. ASSUME s2 <= s1 PROVE FALSE
    <2>1. bytes2clusters(s2) <= bytes2clusters(s1)
      BY <1>2, ClustersMonotone
    <2> QED BY <1>1, <2>1
  <1> QED BY <1>2

\* The steps of grow_file().
LEMMA GrowRuns ==
  ASSUME TypeOK, SaneInv, Grow, op.rc \notin Returned
  PROVE  \/ Running
         \/ GrowNoSpace /\ op.allocated # 0 /\ op'.rc = op.rc /\ op'.size = op.size
            /\ node' = node /\ op.size > node[op.node].size /\ pc' = "shrink"
  <1> DEFINE n == op.node
  <1>0. n \in Nodes /\ op \in OpType /\ node \in [Nodes -> NodeType]
        /\ op.size \in Nat /\ node[n].size \in Nat
    <2>1. pc # "idle"
      BY DEF Grow, GrowStart, GrowEmpty, GrowAllocate, GrowNoSpace, GrowFat,
         GrowFatEnd, GrowLink, GrowEnd
    <2> QED BY <2>1 DEF TypeOK, OpType, NodeType
  <1>1. ASSUME Return("ENOSPC"), UNCHANGED node, op.size > node[n].size PROVE Running
    BY <1>1, ReturnKind DEF Running, Returned
  <1>2. CASE GrowStart
    <2>1. GrowOp \in OpType
      BY <1>0, <1>2, GrowOpType DEF GrowStart
    <2>2. GrowOp.size = op.size /\ GrowOp.rollback = op.rollback /\ GrowOp.rc = op.rc
      BY <1>0 DEF GrowOp, OpType
    <2> QED BY <1>0, <1>2, <2>1, <2>2, AdvanceRuns DEF GrowStart
  <1>3. CASE GrowEmpty
    <2>1. op.size > node[n].size
      BY <1>0, <1>3, Larger DEF GrowEmpty, Current, Target
    <2>2. CASE Return("ENOSPC") /\ UNCHANGED node
      BY <1>1, <2>1, <2>2
    <2>3. ASSUME NEW c \in Clusters,
                 node' = [node EXCEPT ![n].start_cluster = c, ![n].fptr_cluster = c,
                                      ![n].is_contiguous = TRUE],
                 op' = [GrowOp EXCEPT !.cluster = c, !.allocated = 1]
          PROVE  Running
      <3>1. GrowOp \in OpType
        BY <1>0, <1>3, GrowOpType DEF GrowEmpty
      <3>2. GrowOp.size = op.size /\ GrowOp.rollback = op.rollback /\ GrowOp.rc = op.rc
        BY <1>0 DEF GrowOp, OpType
      <3>3. op'.size = op.size /\ op'.rollback = op.rollback /\ op'.rc = op.rc
        BY <2>3, <3>1, <3>2 DEF OpType
      <3>4. node'[n].size = node[n].size
        BY <1>0, <2>3 DEF NodeType
      <3> QED BY <3>3, <3>4 DEF Running
    <2> QED BY <1>3, <2>2, <2>3 DEF GrowEmpty
  <1>4. CASE GrowAllocate
    <2>1. op'.size = op.size /\ op'.rollback = op.rollback /\ op'.rc = op.rc
      BY <1>0, <1>4 DEF GrowAllocate, OpType
    <2> QED BY <1>4, <2>1 DEF GrowAllocate, Running
  <1>5. CASE GrowNoSpace
    <2>1. op.size > node[n].size
      <3>1. pc = "growLoop" /\ op.allocated < op.difference
        BY <1>5 DEF GrowNoSpace
      <3>2. /\ op.current = bytes2clusters(node[n].size)
            /\ op.current + op.difference = bytes2clusters(op.size)
        BY <3>1 DEF SaneInv, CallInv, GrowInv, GrowLabels
      <3>3. op.current \in Nat /\ op.difference \in Nat /\ op.allocated \in Nat
        BY <1>0 DEF OpType
      <3>4. bytes2clusters(node[n].size) < bytes2clusters(op.size)
        BY <3>1, <3>2, <3>3
      <3> QED BY <1>0, <3>4, Larger
    <2>2. UNCHANGED node
      BY <1>5 DEF GrowNoSpace
    <2>3. CASE op.allocated = 0
      BY <1>1, <1>5, <2>1, <2>2, <2>3 DEF GrowNoSpace
    <2>4. CASE op.allocated # 0
      <3>1. op'.rc = op.rc /\ op'.size = op.size
        BY <1>0, <1>5, <2>4 DEF GrowNoSpace, OpType
      <3> QED BY <1>5, <2>1, <2>2, <2>4, <3>1 DEF GrowNoSpace
    <2> QED BY <2>3, <2>4
  <1>6. CASE GrowFat \/ GrowLink
    <2>1. op'.size = op.size /\ op'.rollback = op.rollback /\ op'.rc = op.rc
      BY <1>0, <1>6 DEF GrowFat, GrowLink, OpType
    <2> QED BY <1>6, <2>1 DEF GrowFat, GrowLink, Running
  <1>7. CASE GrowFatEnd \/ GrowEnd
    <2>1. UNCHANGED op /\ node'[n].size = node[n].size
      BY <1>0, <1>7 DEF GrowFatEnd, GrowEnd, Goto, NodeType
    <2> QED BY <2>1 DEF Running
  <1> QED BY <1>2, <1>3, <1>4, <1>5, <1>6, <1>7 DEF Grow

\* The steps of shrink_file().
LEMMA ShrinkRuns ==
  ASSUME TypeOK, Shrink, op.rc \notin Returned PROVE Running
  <1> DEFINE n == op.node
  <1>0. n \in Nodes /\ op \in OpType /\ node \in [Nodes -> NodeType]
    <2>1. pc # "idle"
      BY DEF Shrink, ShrinkStart, ShrinkAll, ShrinkCrop, ShrinkFree,
         ShrinkInvalid, ShrinkEnd
    <2> QED BY <2>1 DEF TypeOK
  <1>1. CASE ShrinkStart
    BY <1>0, <1>1, AdvanceRuns DEF ShrinkStart
  <1>2. CASE ShrinkAll
    <2>1. op'.size = op.size /\ op'.rollback = op.rollback /\ op'.rc = op.rc
      BY <1>0, <1>2 DEF ShrinkAll, OpType
    <2>2. node'[n].size = node[n].size
      BY <1>0, <1>2 DEF ShrinkAll, NodeType
    <2> QED BY <2>1, <2>2 DEF Running
  <1>3. CASE ShrinkCrop
    <2>1. op'.size = op.size /\ op'.rollback = op.rollback /\ op'.rc = op.rc
      BY <1>0, <1>3 DEF ShrinkCrop, OpType
    <2>2. node'[n].size = node[n].size
      BY <1>0, <1>3 DEF ShrinkCrop, NodeType
    <2> QED BY <2>1, <2>2 DEF Running
  <1>4. CASE ShrinkFree
    <2>1. op'.size = op.size /\ op'.rollback = op.rollback /\ op'.rc = op.rc
      BY <1>0, <1>4 DEF ShrinkFree, OpType
    <2> QED BY <1>4, <2>1 DEF ShrinkFree, Running
  <1>5. CASE ShrinkInvalid
    BY <1>5, ReturnKind DEF ShrinkInvalid, Running, Returned
  <1>6. CASE ShrinkEnd
    BY <1>6, ReturnKind DEF ShrinkEnd, Running, Returned, Goto
  <1> QED BY <1>1, <1>2, <1>3, <1>4, <1>5, <1>6 DEF Shrink

\* Every step of a call keeps what it was asked for, unless it begins or ends
\* an exfat_truncate(), or begins a rollback.
LEMMA StepRuns ==
  ASSUME TypeOK, SaneInv, Step, ~Done, op.rc \notin Returned
  PROVE  \/ Running
         \/ Truncated /\ pc \in {"erase", "eraseLoop"}
         \/ WriteGap \/ WriteExtend
         \/ GrowNoSpace /\ op.allocated # 0 /\ op'.rc = op.rc /\ op'.size = op.size
            /\ node' = node /\ op.size > node[op.node].size /\ pc' = "shrink"
  <1> DEFINE n == op.node
  <1>0. n \in Nodes /\ op \in OpType /\ node \in [Nodes -> NodeType]
    BY CallSteps DEF TypeOK
  <1>1. CASE Advance
    <2>1. node'[n].size = node[n].size
      BY <1>0, <1>1, AdvanceStep
    <2>2. CASE Return("EIO")
      BY <2>1, <2>2, ReturnKind DEF Running, Returned
    <2>3. ASSUME NEW i, NEW c,
                 op' = [op EXCEPT !.i = i] \/ op' = [op EXCEPT !.cluster = c]
          PROVE  Running
      <3>1. op'.size = op.size /\ op'.rollback = op.rollback /\ op'.rc = op.rc
        BY <1>0, <2>3 DEF OpType
      <3> QED BY <2>1, <3>1 DEF Running
    <2> QED BY <1>1, <2>2, <2>3, AdvanceStep
  <1>2. CASE Truncate
    <2>1. UNCHANGED node
      BY <1>2 DEF Truncate, TruncateWithin, TruncateShrink
    <2>2. CASE TruncateShrink
      <3>1. op'.size = op.size /\ op'.rollback = op.rollback /\ op'.rc = op.rc
        BY <1>0, <2>2 DEF TruncateShrink, OpType
      <3> QED BY <2>1, <3>1 DEF Running
    <2>3. CASE Return("ok")
      BY <2>1, <2>3, ReturnKind DEF Running, Returned
    <2> QED BY <1>2, <2>1, <2>2, <2>3 DEF Truncate, TruncateWithin, Goto, Running
  <1>3. CASE Grow
    BY <1>3, GrowRuns
  <1>4. CASE Shrink
    BY <1>4, ShrinkRuns
  <1>5. CASE EraseFirst
    BY <1>5 DEF EraseFirst, Goto, Running
  <1>6. CASE EraseNext
    <2>1. /\ op'.size = op.size /\ op'.rollback = op.rollback
          /\ op'.rc \notin Returned
      BY <1>0, <1>6 DEF EraseNext, exfat_bug, OpType, Returned
    <2> QED BY <1>6, <2>1 DEF EraseNext, Running
  <1>7. CASE EraseEnd
    BY <1>7 DEF EraseEnd
  <1>8. CASE EraseStart
    <2> DEFINE index == node[n].size \div ClusterSize
               o == [op EXCEPT !.boundary = (index + 1) * ClusterSize]
    <2>1. \/ Truncated /\ pc = "erase"
          \/ CallAdvance(o, index, "eraseFirst")
      BY <1>8 DEF EraseStart
    <2>2. index \in Nat
      <3>1. node[n].size \in Nat
        BY <1>0 DEF NodeType
      <3> QED BY <3>1, ClusterAssumption
    <2> HIDE DEF index
    <2>3. (index + 1) * ClusterSize \in Nat
      BY <2>2, ClusterAssumption
    <2>4. o \in OpType /\ o.size = op.size /\ o.rollback = op.rollback /\ o.rc = op.rc
      BY <1>0, <2>3 DEF OpType
    <2> HIDE DEF o
    <2> QED BY <1>0, <2>1, <2>4, AdvanceRuns
  <1>9. ASSUME NEW remainder \in Nat, NEW loop, IoStart(remainder, loop)
        PROVE  Running
    <2>1. CASE remainder = 0
      BY <1>9, <2>1, ReturnKind DEF IoStart, Running, Returned
    <2>2. CASE remainder # 0
      <3> DEFINE o == [op EXCEPT !.loffset = op.off % ClusterSize,
                                 !.remainder = remainder]
      <3>1. op.off % ClusterSize \in 0 .. ClusterSize - 1
        <4>1. op.off \in Nat
          BY <1>0 DEF OpType
        <4> QED BY <4>1, ClusterAssumption
      <3>2. o \in OpType
        BY <1>0, <1>9, <3>1, Zenon DEF OpType
      <3>3. o.size = op.size /\ o.rollback = op.rollback /\ o.rc = op.rc
        BY <1>0 DEF OpType
      <3>4. CallAdvance(o, op.off \div ClusterSize, loop)
        BY <1>9, <2>2 DEF IoStart
      <3> HIDE DEF o
      <3> QED BY <1>0, <3>2, <3>3, <3>4, AdvanceRuns
    <2> QED BY <2>1, <2>2
  <1>10. CASE WriteStart
    BY <1>0, <1>9, <1>10 DEF WriteStart, OpType
  <1>11. CASE ReadStart
    <2> DEFINE size == node[n].size
               rest == IF op.off >= size THEN 0 ELSE Lesser(op.len, size - op.off)
    <2>1. op.off \in Nat /\ op.len \in Nat /\ size \in Nat
      BY <1>0 DEF OpType, NodeType
    <2>2. rest \in Nat
      BY <2>1 DEF Lesser
    <2>3. IoStart(rest, "preadLoop")
      BY <1>11 DEF ReadStart
    <2> HIDE DEF rest
    <2> QED BY <1>9, <2>2, <2>3
  <1>12. CASE IoLoop
    <2>1. op'.size = op.size /\ op'.rollback = op.rollback /\ op'.rc = op.rc
      BY <1>0, <1>12 DEF IoLoop, OpType
    <2> QED BY <1>12, <2>1 DEF IoLoop, Running
  <1>13. CASE IoInvalid
    BY <1>13, ReturnKind DEF IoInvalid, Running, Returned
  <1>14. CASE IoEnd
    <2>1. node'[n].size = node[n].size
      BY <1>0, <1>14 DEF IoEnd, NodeType
    <2> QED BY <1>14, <2>1, ReturnKind DEF IoEnd, Running, Returned
  <1>15. CASE DeviceFails
    BY <1>15, ReturnKind DEF DeviceFails, Running, Returned
  <1>16. CASE AssertionFails
    <2>1. /\ op'.size = op.size /\ op'.rollback = op.rollback
          /\ op'.rc \notin Returned
      BY <1>0, <1>16 DEF AssertionFails, BadCluster, BadPointer, exfat_bug, OpType,
         Returned
    <2> QED BY <1>16, <2>1 DEF AssertionFails, Running
  <1> QED
    BY <1>1, <1>2, <1>3, <1>4, <1>5, <1>6, <1>7, <1>8, <1>10, <1>11, <1>12, <1>13,
       <1>14, <1>15, <1>16
    DEF Step, Erase, Io

-----------------------------------------------------------------------------
(* The bytes and the clusters of a file that is being extended *)

\* The steps that write to the cluster heap.
LEMMA DataSteps ==
  ASSUME Step
  PROVE  UNCHANGED data \/ EraseFirst \/ EraseNext \/ IoLoop
  <1> USE DEF disk
  <1>1. CASE Advance \/ Truncate
    BY <1>1 DEF Advance, AdvanceLoop, AdvanceEnd, Truncate, TruncateWithin, TruncateShrink
  <1>2. CASE Grow
    BY <1>2 DEF Grow, GrowStart, GrowEmpty, GrowAllocate, GrowNoSpace, GrowFat,
       GrowFatEnd, GrowLink, GrowEnd, CallAdvance
  <1>3. CASE Shrink
    BY <1>3 DEF Shrink, ShrinkStart, ShrinkAll, ShrinkCrop, ShrinkFree,
       ShrinkInvalid, ShrinkEnd, CallAdvance
  <1>4. CASE Erase
    BY <1>4 DEF Erase, EraseStart, EraseEnd, Truncated, CallAdvance
  <1>5. CASE Io
    BY <1>5 DEF Io, WriteGap, WriteExtend, WriteStart, ReadStart, IoStart,
       IoInvalid, IoEnd, CallAdvance
  <1>6. CASE DeviceFails \/ AssertionFails \/ Done
    BY <1>6 DEF DeviceFails, AssertionFails, Done
  <1> QED BY <1>1, <1>2, <1>3, <1>4, <1>5, <1>6 DEF Step

\* A write leaves other clusters, and other bytes of its cluster, alone.
LEMMA OverwriteElsewhere ==
  ASSUME TypeOK, NEW c \in Clusters, NEW bytes, Overwrite(c, bytes),
         NEW d \in Clusters, NEW j \in 0 .. ClusterSize - 1,
         d # c \/ j \notin DOMAIN bytes
  PROVE  data'[d][j] = data[d][j]
  <1>1. data \in [Clusters -> [0 .. ClusterSize - 1 -> Cells]]
    BY DEF TypeOK
  <1>2. CASE d # c
    BY <1>1, <1>2 DEF Overwrite
  <1>3. CASE d = c
    <2>1. data'[d] = [i \in 0 .. ClusterSize - 1 |->
                        IF i \in DOMAIN bytes THEN bytes[i] ELSE data[c][i]]
      BY <1>1, <1>3 DEF Overwrite
    <2> QED BY <1>3, <2>1
  <1> QED BY <1>2, <1>3

\* Where byte number k of a file, from 1, is.
LEMMA ByteAt ==
  ASSUME NEW size \in Nat, NEW k \in 1 .. size
  PROVE  /\ (k - 1) \div ClusterSize \in Nat
         /\ (k - 1) \div ClusterSize + 1 \in 1 .. bytes2clusters(size)
         /\ (k - 1) \div ClusterSize <= size \div ClusterSize
         /\ (k - 1) % ClusterSize \in 0 .. ClusterSize - 1
         /\ (k - 1) \div ClusterSize = size \div ClusterSize =>
              (k - 1) % ClusterSize < size % ClusterSize
  <1>0. k - 1 \in Nat /\ k - 1 < size /\ k - 1 <= size
    OBVIOUS
  <1>1. ClusterSize \in Nat \ {0}
    BY ClusterAssumption
  <1> DEFINE b == k - 1
             q == b \div ClusterSize
             p == size \div ClusterSize
             r == b % ClusterSize
             t == size % ClusterSize
  <1>2. q \in Nat /\ q < bytes2clusters(size)
    BY <1>0, ClusterOfByte
  <1>3. q <= p
    BY <1>0, <1>1, DivMonotone
  <1>4. r \in 0 .. ClusterSize - 1
    BY <1>0, <1>1
  <1>5. b = q * ClusterSize + r /\ size = p * ClusterSize + t
    BY <1>0, <1>1, DivMod
  <1>6. t \in Nat /\ r \in Nat /\ b < size /\ p \in Nat
    BY <1>0, <1>1
  <1>7. bytes2clusters(size) \in Nat
    BY Bytes2ClustersNat
  <1>8. q + 1 \in 1 .. bytes2clusters(size)
    <2> HIDE DEF q
    <2> QED BY <1>2, <1>7
  <1>9. q = p => r < t
    <2> DEFINE z == q * ClusterSize
    <2>1. q = p => b = z + r /\ size = z + t
      BY <1>5
    <2>2. z \in Nat
      BY <1>1, <1>2
    <2> HIDE DEF b, q, p, r, t, z
    <2> QED BY <1>6, <2>1, <2>2
  <1> QED BY <1>2, <1>3, <1>4, <1>8, <1>9

\* The clusters that hold the bytes of the file of the call stay its first
\* ones, as long as the call does not make the file smaller.
LEMMA PrefixKept ==
  ASSUME TypeOK, SaneInv, Step, ~Done, op.size > node[op.node].size,
         bytes2clusters(node[op.node].size) <= Len(chain[op.node])
  PROVE  LET len == bytes2clusters(node[op.node].size)
         IN  /\ len <= Len(chain'[op.node])
             /\ \A i \in 1 .. len : chain'[op.node][i] = chain[op.node][i]
  <1> DEFINE n == op.node
             s == chain[n]
             len == bytes2clusters(node[n].size)
             Kept == len <= Len(chain'[n]) /\ \A i \in 1 .. len : chain'[n][i] = s[i]
  <1> SUFFICES Kept
    OBVIOUS
  <1>0. /\ n \in Nodes /\ s \in Seq(Clusters) /\ Len(s) \in Nat /\ op \in OpType
        /\ chain \in [Nodes -> Seq(Clusters)] /\ node[n].size \in Nat /\ len \in Nat
        /\ op.size \in Nat
    <2>1. n \in Nodes /\ op \in OpType /\ chain \in [Nodes -> Seq(Clusters)]
          /\ node[n].size \in Nat /\ op.size \in Nat
      BY CallSteps DEF TypeOK, NodeType, OpType
    <2> QED BY <2>1, LenProperties, Bytes2ClustersNat
  <1> HIDE DEF len
  <1>1. len <= Len(s)
    BY DEF len
  <1>2. ASSUME len = 0, Len(chain'[n]) \in Nat PROVE Kept
    BY <1>2
  <1>3. CASE UNCHANGED chain
    BY <1>1, <1>3
  <1>4. CASE GrowEmpty
    <2>1. CASE UNCHANGED chain
      BY <1>3, <2>1
    <2>2. ASSUME NEW c \in Clusters, chain' = [chain EXCEPT ![n] = <<c>>] PROVE Kept
      <3>1. Len(s) = 0
        <4>1. Len(s) > 0 => s[1] \in Clusters
          BY <1>0, ElementOfSeq
        <4>2. node[n].start_cluster = EXFAT_CLUSTER_FREE
          BY <1>4 DEF GrowEmpty
        <4> QED BY <1>0, <4>1, <4>2, ClusterNumbers DEF SaneInv, ChainInv, FileChain
      <3>2. Len(chain'[n]) = 1
        BY <1>0, <2>2
      <3> QED BY <1>0, <1>1, <1>2, <3>1, <3>2
    <2> QED BY <1>4, <2>1, <2>2 DEF GrowEmpty
  <1>5. CASE GrowLink
    <2>1. chain'[n] = Append(s, op.next) /\ op.next \in Clusters
      BY <1>0, <1>5 DEF GrowLink, TypeOK
    <2>2. Len(chain'[n]) = Len(s) + 1 /\ \A i \in 1 .. Len(s) : chain'[n][i] = s[i]
      BY <1>0, <2>1
    <2> QED BY <1>0, <1>1, <2>2
  <1>6. CASE ShrinkAll \/ ShrinkCrop
    <2>1. /\ op.rollback /\ Len(s) = op.current
          /\ ShrinksTo(op.current - op.difference)
      <3>1. pc \in {"shrink", "shrinkCrop"}
        BY <1>6 DEF ShrinkAll, ShrinkCrop
      <3>2. ~(op.size < node[n].size)
        BY <1>0
      <3> QED BY <3>1, <3>2 DEF SaneInv, CallInv, HasClusters
    <2>2. len = op.current - op.difference /\ op.current \in Nat /\ op.difference \in Nat
      BY <1>0, <2>1 DEF ShrinksTo, len, OpType
    <2>3. CASE ShrinkAll
      <3>1. op.current = op.difference /\ chain'[n] = <<>>
        BY <1>0, <2>3 DEF ShrinkAll
      <3> QED BY <1>2, <2>2, <3>1
    <2>4. CASE ShrinkCrop
      <3>1. chain'[n] = SubSeq(s, 1, Lesser(op.current - op.difference, Len(s)))
        BY <1>0, <2>4 DEF ShrinkCrop
      <3>2. Lesser(op.current - op.difference, Len(s)) = len
        BY <1>0, <1>1, <2>2 DEF Lesser
      <3>3. Len(s) = len + op.difference
        BY <1>0, <2>1, <2>2
      <3>4. Len(SubSeq(s, 1, len)) = len /\ \A i \in 1 .. len : SubSeq(s, 1, len)[i] = s[i]
        BY <1>0, <2>2, <3>3, FirstPart
      <3>5. chain'[n] = SubSeq(s, 1, len)
        BY <3>1, <3>2
      <3> QED BY <1>0, <3>4, <3>5
    <2> QED BY <1>6, <2>3, <2>4
  <1>7. CASE GrowAllocate \/ DeviceFails \/ ShrinkFree \/ ShrinkInvalid \/ ShrinkEnd
    BY <1>3, <1>7 DEF GrowAllocate, DeviceFails, ShrinkFree, ShrinkInvalid, ShrinkEnd
  <1> QED
    BY <1>3, <1>4, <1>5, <1>6, <1>7, HeapSteps DEF Next

\* exfat_truncate() does not write to the bytes of its file: erase_range()
\* begins behind them.
LEMMA DataKept ==
  ASSUME TypeOK, SaneInv, EraseAt, Step, ~Done, op.kind = "truncate",
         bytes2clusters(node[op.node].size) <= Len(chain[op.node]),
         NEW k \in 1 .. node[op.node].size
  PROVE  LET c == chain[op.node][(k - 1) \div ClusterSize + 1]
         IN  data'[c][(k - 1) % ClusterSize] = data[c][(k - 1) % ClusterSize]
  <1> DEFINE n == op.node
             s == chain[n]
             q == (k - 1) \div ClusterSize
             r == (k - 1) % ClusterSize
             size == node[n].size
  <1> SUFFICES data'[s[q + 1]][r] = data[s[q + 1]][r]
    OBVIOUS
  <1>0. /\ n \in Nodes /\ s \in Seq(Clusters) /\ Len(s) \in Nat /\ op \in OpType
        /\ chain \in [Nodes -> Seq(Clusters)] /\ size \in Nat
    <2>1. n \in Nodes /\ op \in OpType /\ chain \in [Nodes -> Seq(Clusters)]
          /\ size \in Nat
      BY CallSteps DEF TypeOK, NodeType
    <2> QED BY <2>1, LenProperties
  <1>1. /\ q \in Nat /\ q + 1 \in 1 .. bytes2clusters(size) /\ q <= EndCluster
        /\ r \in 0 .. ClusterSize - 1
        /\ q = EndCluster => r < size % ClusterSize
    BY <1>0, ByteAt DEF EndCluster
  <1>2. EndCluster \in Nat /\ bytes2clusters(size) \in Nat
    BY <1>0, EndClusterNat, Bytes2ClustersNat
  <1>3. bytes2clusters(size) <= Len(s)
    OBVIOUS
  <1> HIDE DEF q, r, n
  <1>4. q + 1 \in 1 .. Len(s)
    BY <1>0, <1>1, <1>2, <1>3
  <1>5. s[q + 1] \in Clusters
    BY <1>0, <1>4, ElementOfSeq
  <1>6. CASE UNCHANGED data
    BY <1>6
  <1>7. CASE EraseFirst
    <2> DEFINE lo == size % ClusterSize
               hi == lo + Lesser(op.boundary, op.size) - size
    <2>1. /\ pc = "eraseFirst" /\ Overwrite(op.cluster, Zeros(lo, hi))
      BY <1>7 DEF EraseFirst, n
    <2>2. EndCluster < Len(s) /\ op.cluster = s[EndCluster + 1]
      BY <2>1 DEF EraseAt, n
    <2>3. EndCluster + 1 \in 1 .. Len(s)
      BY <1>0, <1>2, <2>2
    <2>4. op.cluster \in Clusters
      BY <1>0, <2>2, <2>3, ElementOfSeq
    <2>5. lo \in Nat
      BY <1>0, ClusterAssumption
    <2>6. DOMAIN Zeros(lo, hi) = lo .. hi - 1
      BY DEF Zeros
    <2> HIDE DEF hi
    <2>7. s[q + 1] # op.cluster \/ r \notin DOMAIN Zeros(lo, hi)
      <3>1. CASE q = EndCluster
        <4>1. r < lo /\ r \in Nat
          BY <1>1, <3>1, ClusterAssumption
        <4> HIDE DEF lo
        <4> QED BY <2>5, <2>6, <4>1
      <3>2. CASE q # EndCluster
        <4>1. q + 1 # EndCluster + 1
          BY <1>1, <1>2, <3>2
        <4> QED BY <1>0, <1>4, <2>2, <2>3, <4>1, SameChain DEF SaneInv
      <3> QED BY <3>1, <3>2
    <2> HIDE DEF lo
    <2> QED BY <1>1, <1>5, <2>1, <2>4, <2>7, OverwriteElsewhere
  <1>8. CASE EraseNext
    <2>1. CASE UNCHANGED data
      BY <1>6, <2>1
    <2>2. ASSUME NEW j \in 1 .. Len(s) - 1, EndCluster < j,
                 Overwrite(s[j + 1], Zeros(0, ClusterSize))
          PROVE  data'[s[q + 1]][r] = data[s[q + 1]][r]
      <3>1. j + 1 \in 1 .. Len(s) /\ q + 1 # j + 1
        BY <1>0, <1>1, <1>2, <2>2
      <3>2. s[j + 1] \in Clusters /\ s[q + 1] # s[j + 1]
        BY <1>0, <1>4, <3>1, ElementOfSeq, SameChain DEF SaneInv
      <3> QED BY <1>1, <1>5, <2>2, <3>2, OverwriteElsewhere
    <2> QED BY <1>8, <2>1, <2>2, EraseNextStep DEF n
  <1>9. CASE IoLoop
    <2>1. pc # "pwriteLoop"
      BY DEF TypeOK, WriteLabels
    <2> QED BY <1>6, <1>9, <2>1 DEF IoLoop
  <1> QED BY <1>6, <1>7, <1>8, <1>9, DataSteps

\* What a step has to leave alone for the bytes to be kept.
LEMMA BytesFrame ==
  ASSUME BytesKept, node[op.node].size \in Nat,
         op'.node = op.node, node'[op.node].size = node[op.node].size, UNCHANGED pre,
         bytes2clusters(node[op.node].size) <= Len(chain'[op.node]),
         \A i \in 1 .. bytes2clusters(node[op.node].size) :
           chain'[op.node][i] = chain[op.node][i],
         \A k \in 1 .. node[op.node].size :
           LET c == chain[op.node][(k - 1) \div ClusterSize + 1]
           IN  data'[c][(k - 1) % ClusterSize] = data[c][(k - 1) % ClusterSize]
  PROVE  BytesKept'
  <1> DEFINE n == op.node
             at(k) == (k - 1) \div ClusterSize + 1
             cell(k) == (k - 1) % ClusterSize
  <1>1. ASSUME NEW k \in 1 .. node[n].size
        PROVE  data'[chain'[n][at(k)]][cell(k)] = pre.content[k]
    <2>1. at(k) \in 1 .. bytes2clusters(node[n].size)
      BY ByteAt
    <2>2. chain'[n][at(k)] = chain[n][at(k)]
      <3> HIDE DEF at
      <3> QED BY <2>1
    <2>3. data'[chain[n][at(k)]][cell(k)] = data[chain[n][at(k)]][cell(k)]
      OBVIOUS
    <2>4. data[chain[n][at(k)]][cell(k)] = pre.content[k]
      BY DEF BytesKept
    <2> HIDE DEF at, cell
    <2> QED BY <2>2, <2>3, <2>4
  <1>2. bytes2clusters(node'[n].size) = bytes2clusters(node[n].size)
    OBVIOUS
  <1>3. BytesKept' <=>
          /\ bytes2clusters(node'[op'.node].size) <= Len(chain'[op'.node])
          /\ \A k \in 1 .. node'[op'.node].size :
               data'[chain'[op'.node][at(k)]][cell(k)] = pre'.content[k]
    BY DEF BytesKept, bytes2clusters
  <1> HIDE DEF at, cell
  <1> QED BY <1>1, <1>2, <1>3

LEMMA MapFrame ==
  ASSUME MapKept, op'.node = op.node, node'[op.node].size = node[op.node].size,
         UNCHANGED pre,
         \A m \in Nodes \ {op.node} : chain'[m] = chain[m],
         \A i \in 1 .. bytes2clusters(node[op.node].size) :
           chain'[op.node][i] = chain[op.node][i]
  PROVE  MapKept'
  <1> DEFINE n == op.node
             len == bytes2clusters(node[n].size)
  <1>1. MapKept' <=>
          /\ pre'.cmap \subseteq Clusters
          /\ \A c \in Clusters :
               c \in pre'.cmap <=>
                 \/ c \in Reserved
                 \/ \E m \in Nodes \ {op'.node} : InSeq(c, chain'[m])
                 \/ \E i \in 1 .. bytes2clusters(node'[op'.node].size) : chain'[op'.node][i] = c
    BY DEF MapKept, bytes2clusters, InSeq
  <1>2. pre.cmap \subseteq Clusters
        /\ \A c \in Clusters :
             c \in pre.cmap <=>
               \/ c \in Reserved
               \/ \E m \in Nodes \ {n} : InSeq(c, chain[m])
               \/ \E i \in 1 .. len : chain[n][i] = c
    BY DEF MapKept
  <1>3. bytes2clusters(node'[n].size) = len
    OBVIOUS
  <1> HIDE DEF len
  <1>4. \A i \in 1 .. len : chain'[n][i] = chain[n][i]
    BY DEF len
  <1> QED BY <1>1, <1>2, <1>3, <1>4

\* The bytes of a file, read along its chain.
LEMMA ContentOfChain ==
  ASSUME TypeOK, SaneInv, NEW n \in Nodes,
         bytes2clusters(node[n].size) <= Len(chain[n])
  PROVE  /\ Content(n) \in Seq(Cells) /\ Len(Content(n)) = node[n].size
         /\ \A k \in 1 .. node[n].size :
              Content(n)[k]
                = data[chain[n][(k - 1) \div ClusterSize + 1]][(k - 1) % ClusterSize]
  <1> DEFINE s == chain[n]
             size == node[n].size
             byte(k) == data[s[(k - 1) \div ClusterSize + 1]][(k - 1) % ClusterSize]
             read(k) == LET c == ClusterAt(n, (k - 1) \div ClusterSize)
                        IN  IF c \in Clusters THEN data[c][(k - 1) % ClusterSize]
                            ELSE "none"
  <1>0. /\ size \in Nat /\ s \in Seq(Clusters) /\ Len(s) \in Nat
        /\ data \in [Clusters -> [0 .. ClusterSize - 1 -> Cells]]
    BY LenProperties DEF TypeOK, NodeType
  <1>1. ASSUME NEW k \in 1 .. size
        PROVE  read(k) = byte(k) /\ byte(k) \in Cells
    <2> DEFINE q == (k - 1) \div ClusterSize
               r == (k - 1) % ClusterSize
    <2>1. q \in Nat /\ q + 1 \in 1 .. bytes2clusters(size) /\ r \in 0 .. ClusterSize - 1
      BY <1>0, ByteAt
    <2>2. bytes2clusters(size) \in Nat /\ bytes2clusters(size) <= Len(s)
      BY <1>0, Bytes2ClustersNat
    <2> SUFFICES /\ ClusterAt(n, q) = s[q + 1] /\ s[q + 1] \in Clusters
                 /\ data[s[q + 1]][r] \in Cells
      OBVIOUS
    <2> HIDE DEF q, r
    <2>3. q + 1 \in 1 .. Len(s) /\ (q + 1) - 1 = q
      BY <1>0, <2>1, <2>2
    <2>4. ClusterAt(n, (q + 1) - 1) = s[q + 1]
      BY <2>3, WalkOfChain
    <2>5. s[q + 1] \in Clusters
      BY <1>0, <2>3, ElementOfSeq
    <2> QED BY <1>0, <2>1, <2>3, <2>4, <2>5
  <1>2. Content(n) = [k \in 1 .. size |-> read(k)]
    BY DEF Content
  <1> HIDE DEF read, byte
  <1>3. \A k \in 1 .. size : Content(n)[k] = byte(k) /\ byte(k) \in Cells
    BY <1>1, <1>2
  <1>4. Content(n) \in [1 .. size -> Cells]
    BY <1>1, <1>2
  <1>5. Content(n) \in Seq(Cells) /\ Len(Content(n)) = size
    BY <1>0, <1>4
  <1> QED BY <1>3, <1>5 DEF byte

\* Between calls the bitmap is what the files need.
LEMMA MapOfChains ==
  ASSUME TypeOK, SaneInv, NoneLost, faults = 0, tail = <<>>, NEW n \in Nodes,
         Len(chain[n]) = bytes2clusters(node[n].size), NEW c \in Clusters
  PROVE  c \in cmap <=>
           \/ c \in Reserved
           \/ \E m \in Nodes \ {n} : InSeq(c, chain[m])
           \/ \E i \in 1 .. bytes2clusters(node[n].size) : chain[n][i] = c
  <1>1. ASSUME c \in cmap
        PROVE  c \in Reserved \/ \E m \in Nodes : InSeq(c, chain[m])
    <2>1. ~InSeq(c, tail)
      BY DEF InSeq
    <2> QED BY <1>1, <2>1 DEF NoneLost
  <1>2. ASSUME NEW m \in Nodes, InSeq(c, chain[m]) PROVE c \in cmap
    BY <1>2 DEF InSeq, SaneInv, OwnInv
  <1>3. Reserved \subseteq cmap
    BY DEF SaneInv, OwnInv
  <1> QED BY <1>1, <1>2, <1>3 DEF InSeq

-----------------------------------------------------------------------------
(* The parts of GrowthKept *)

\* A call that has returned takes no further step.
LEMMA NotReturned ==
  ASSUME TypeOK, GrowthKept, Step, ~Done PROVE op.rc \notin Returned
  <1>1. pc # "done"
    BY DEF Step, Advance, AdvanceLoop, AdvanceEnd, Truncate, TruncateWithin,
       TruncateShrink, Grow, GrowStart, GrowEmpty, GrowAllocate, GrowNoSpace, GrowFat,
       GrowFatEnd, GrowLink, GrowEnd, Shrink, ShrinkStart, ShrinkAll, ShrinkCrop,
       ShrinkFree, ShrinkInvalid, ShrinkEnd, Erase, EraseStart, EraseFirst, EraseNext,
       EraseEnd, Io, WriteGap, WriteExtend, WriteStart, ReadStart, IoLoop, IoInvalid,
       IoEnd, DeviceFails, WritesFat, WritesData, ReadsData, AssertionFails,
       BadCluster, BadPointer
  <1> QED BY <1>1 DEF GrowthKept, Returned

\* The part of GrowthKept about the file of a truncate, for a step that keeps
\* the size asked for and the size of the file.
FileKept ==
  pc # "idle" /\ op.kind = "truncate" /\ op.rc # "ok" =>
    /\ pre.content \in Seq(Cells) /\ Len(pre.content) = node[op.node].size
    /\ op.size > node[op.node].size => BytesKept /\ (faults = 0 => MapKept)

LEMMA FileKeptStep ==
  ASSUME TypeOK, SaneInv, EraseAt, FileKept, Step, ~Done, op.rc # "ok",
         op'.size = op.size, node'[op.node].size = node[op.node].size
  PROVE  FileKept'
  <1> DEFINE n == op.node
  <1>0. /\ n \in Nodes /\ pc # "idle" /\ op'.node = n /\ op'.kind = op.kind
        /\ UNCHANGED pre /\ \A m \in Nodes \ {n} : chain'[m] = chain[m]
        /\ node[n].size \in Nat
    BY CallSteps DEF TypeOK, NodeType
  <1> SUFFICES ASSUME op.kind = "truncate" PROVE FileKept'
    BY <1>0 DEF FileKept
  <1>1. /\ pre.content \in Seq(Cells) /\ Len(pre.content) = node[n].size
        /\ op.size > node[n].size => BytesKept /\ (faults = 0 => MapKept)
    BY <1>0 DEF FileKept
  <1>2. ASSUME op.size > node[n].size PROVE BytesKept' /\ (faults' = 0 => MapKept')
    <2>0. BytesKept /\ (faults = 0 => MapKept)
      BY <1>1, <1>2
    <2>1. bytes2clusters(node[n].size) <= Len(chain[n])
      BY <2>0 DEF BytesKept
    <2>2. /\ bytes2clusters(node[n].size) <= Len(chain'[n])
          /\ \A i \in 1 .. bytes2clusters(node[n].size) : chain'[n][i] = chain[n][i]
      BY <1>2, <2>1, PrefixKept
    <2>3. \A k \in 1 .. node[n].size :
            LET c == chain[n][(k - 1) \div ClusterSize + 1]
            IN  data'[c][(k - 1) % ClusterSize] = data[c][(k - 1) % ClusterSize]
      BY <2>1, DataKept
    <2>4. BytesKept'
      BY <1>0, <2>0, <2>2, <2>3, BytesFrame
    <2>5. ASSUME faults' = 0 PROVE MapKept'
      <3>1. faults = 0
        BY <2>5, FaultsGrow DEF Next
      <3> QED BY <1>0, <2>0, <2>2, <3>1, MapFrame
    <2> QED BY <2>4, <2>5
  <1> QED BY <1>0, <1>1, <1>2 DEF FileKept

\* A call begins with the file as it is.
LEMMA FileKeptCall ==
  ASSUME TypeOK, SaneInv, NoneLost, Call, sane' PROVE FileKept'
  <1> SUFFICES ASSUME op'.kind = "truncate" PROVE FileKept'
    BY DEF FileKept
  <1>1. PICK n \in Nodes : /\ op'.node = n /\ pc = "idle" /\ faults = 0
                           /\ pre' = [content |-> Content(n), cmap |-> cmap]
                           /\ UNCHANGED <<node, cmap, data, chain, tail, faults>>
    <2>1. PICK m \in Nodes : op'.node = m /\ \E o, label : Begin(m, o, label)
      <3>1. ASSUME NEW m \in Nodes, NEW size, exfat_truncate(m, size)
            PROVE  op'.node = m /\ \E o, label : Begin(m, o, label)
        <4> DEFINE args == [NoOp EXCEPT !.kind = "truncate", !.size = size, !.erase = TRUE]
        <4>1. Begin(m, args, "truncate")
          BY <3>1 DEF exfat_truncate
        <4>2. op' = [args EXCEPT !.node = m]
          BY <4>1, Zenon DEF Begin
        <4>3. op'.node = m
          BY <4>2 DEF NoOp
        <4> HIDE DEF args
        <4> QED BY <4>1, <4>3, Zenon
      <3>2. ASSUME NEW m \in Nodes, NEW off, NEW buf, exfat_generic_pwrite(m, off, buf)
            PROVE  op'.node = m /\ \E o, label : Begin(m, o, label)
        <4> DEFINE args == [NoOp EXCEPT !.kind = "pwrite", !.off = off, !.buf = buf,
                                      !.len = Len(buf)]
        <4>1. Begin(m, args, "pwrite")
          BY <3>2 DEF exfat_generic_pwrite
        <4>2. op' = [args EXCEPT !.node = m]
          BY <4>1, Zenon DEF Begin
        <4>3. op'.node = m
          BY <4>2 DEF NoOp
        <4> HIDE DEF args
        <4> QED BY <4>1, <4>3, Zenon
      <3>3. ASSUME NEW m \in Nodes, NEW off, NEW len, exfat_generic_pread(m, off, len)
            PROVE  op'.node = m /\ \E o, label : Begin(m, o, label)
        <4> DEFINE args == [NoOp EXCEPT !.kind = "pread", !.off = off, !.len = len]
        <4>1. Begin(m, args, "pread")
          BY <3>3 DEF exfat_generic_pread
        <4>2. op' = [args EXCEPT !.node = m]
          BY <4>1, Zenon DEF Begin
        <4>3. op'.node = m
          BY <4>2 DEF NoOp
        <4> HIDE DEF args
        <4> QED BY <4>1, <4>3, Zenon
      <3> QED BY <3>1, <3>2, <3>3, Zenon DEF Call
    <2> QED BY <2>1 DEF Begin, disk
  <1>2. SettledFile(n) /\ tail = <<>>
    BY <1>1 DEF SaneInv, FilesInv, CallInv, QuietLabels
  <1>3. Len(chain[n]) = bytes2clusters(node[n].size) /\ bytes2clusters(node[n].size) \in Nat
    <2>1. node[n].size \in Nat
      BY DEF TypeOK, NodeType
    <2> QED BY <1>2, <2>1, Bytes2ClustersNat DEF SettledFile, HasClusters
  <1>4. /\ Content(n) \in Seq(Cells) /\ Len(Content(n)) = node[n].size
        /\ \A k \in 1 .. node[n].size :
             Content(n)[k]
               = data[chain[n][(k - 1) \div ClusterSize + 1]][(k - 1) % ClusterSize]
    <2>1. bytes2clusters(node[n].size) <= Len(chain[n])
      BY <1>3
    <2> QED BY <2>1, ContentOfChain
  <1>5. pre'.content = Content(n) /\ pre'.cmap = cmap
    BY <1>1
  <1>6. BytesKept'
    <2>1. bytes2clusters(node[n].size) <= Len(chain[n])
      BY <1>3
    <2> QED BY <1>1, <1>4, <1>5, <2>1 DEF BytesKept, bytes2clusters
  <1>7. MapKept'
    <2>1. cmap \subseteq Clusters
      BY DEF TypeOK
    <2>2. \A c \in Clusters :
            c \in cmap <=>
              \/ c \in Reserved
              \/ \E m \in Nodes \ {n} : InSeq(c, chain[m])
              \/ \E i \in 1 .. bytes2clusters(node[n].size) : chain[n][i] = c
      BY <1>1, <1>2, <1>3, MapOfChains
    <2>3. bytes2clusters(node'[op'.node].size) = bytes2clusters(node[n].size)
      BY <1>1
    <2> QED BY <1>1, <1>5, <2>1, <2>2, <2>3 DEF MapKept, InSeq, bytes2clusters
  <1> QED BY <1>1, <1>4, <1>5, <1>6, <1>7 DEF FileKept

LEMMA GrowthKeptNext ==
  ASSUME TypeOK, SaneInv, NoneLost, EraseAt, GrowthKept, [Next]_vars, sane'
  PROVE  GrowthKept'
  <1> DEFINE n == op.node
  <1>0. op \in OpType /\ FileKept
    BY DEF TypeOK, GrowthKept, FileKept
  <1>1. CASE UNCHANGED vars \/ Aborted
    <2>1. UNCHANGED vars
      BY <1>1 DEF Aborted
    <2> QED BY <2>1 DEF vars, disk, history, GrowthKept, BytesKept, MapKept, InSeq,
               bytes2clusters
  <1>2. CASE Done
    <2>1. pc' = "idle" /\ op'.rc = "none"
      BY <1>2 DEF Done, NoOp
    <2> QED BY <2>1 DEF GrowthKept
  <1>3. CASE Call
    <2>1. op'.rc = "none" /\ ~op'.rollback
      BY <1>3, ZenonT(30) DEF Call, exfat_truncate, exfat_generic_pwrite, exfat_generic_pread,
         Begin, NoOp
    <2>2. FileKept'
      BY <1>3, FileKeptCall
    <2> QED BY <2>1, <2>2 DEF GrowthKept, FileKept
  <1>4. CASE Step /\ ~Done
    <2>0. /\ pc # "idle" /\ n \in Nodes /\ op'.node = n /\ op'.kind = op.kind
          /\ op.rc \notin Returned
      BY <1>4, CallSteps, NotReturned
    <2>1. CASE Running
      <3>1. FileKept'
        BY <1>0, <1>4, <2>0, <2>1, FileKeptStep DEF Running, Returned
      <3>2. op.rollback => op.size > node[n].size
        BY <2>0 DEF GrowthKept
      <3>3. op'.rollback \/ op'.rc = "ENOSPC" => op'.size > node'[n].size
        BY <2>1, <3>2 DEF Running, Returned
      <3>4. op'.rc \in {"ok", "EIO", "ENOSPC"} => pc' = "done"
        BY <2>1 DEF Running, Returned
      <3> QED BY <2>0, <3>1, <3>3, <3>4 DEF GrowthKept, FileKept
    <2>2. CASE Truncated /\ pc \in {"erase", "eraseLoop"}
      <3>1. ~op.rollback
        BY <2>2 DEF SaneInv, CallInv
      <3>2. CASE op.then = "done"
        <4>1. pc' = "done" /\ op'.rollback = op.rollback /\ op'.rc = "ok"
          BY <2>2, <3>1, <3>2, ReturnKind DEF Truncated, Returned
        <4> QED BY <3>1, <4>1 DEF GrowthKept
      <3>3. CASE op.then # "done"
        <4>1. ~op'.rollback /\ op'.rc = "none"
          BY <2>2, <3>3 DEF Truncated, NoOp
        <4>2. op.kind = "pwrite"
          BY <1>0, <3>3 DEF TypeOK, OpType, WriteLabels
        <4> QED BY <2>0, <4>1, <4>2 DEF GrowthKept
      <3> QED BY <3>2, <3>3
    <2>3. CASE WriteGap \/ WriteExtend
      <3>1. ~op.rollback /\ op.kind = "pwrite"
        BY <2>3 DEF WriteGap, WriteExtend, SaneInv, CallInv, TypeOK, WriteLabels
      <3>2. op'.rollback = op.rollback /\ op'.rc = op.rc
        BY <1>0, <2>3 DEF WriteGap, WriteExtend, SubTruncate, Goto, OpType
      <3> QED BY <2>0, <3>1, <3>2 DEF GrowthKept, Returned
    <2>4. CASE /\ GrowNoSpace /\ op'.rc = op.rc /\ op'.size = op.size
               /\ node' = node /\ op.size > node[n].size
      <3>1. FileKept'
        BY <1>0, <1>4, <2>0, <2>4, FileKeptStep DEF Returned
      <3> QED BY <2>0, <2>4, <3>1 DEF GrowthKept, FileKept, Returned
    <2> QED BY <1>4, <2>0, <2>1, <2>2, <2>3, <2>4, StepRuns
  <1> QED BY <1>1, <1>2, <1>3, <1>4 DEF Next

-----------------------------------------------------------------------------
(* The invariant of ClusterProgress *)

\* When the volume is mounted.
LEMMA ProgressInit == Init => SaneProgress
  <1> SUFFICES ASSUME NEW l \in Layouts, NEW g \in FatGarbage, Init!(l, g)
               PROVE  SaneProgress
    BY DEF Init
  <1>0. /\ pc = "idle" /\ op.rc = "none" /\ ~op.rollback /\ faults = 0
    BY DEF NoOp
  <1>1. ASSUME NEW n \in Nodes
        PROVE  /\ l[n].first \in Nat /\ l[n].size \in Nat
               /\ bytes2clusters(l[n].size) \in Nat
               /\ Len(chain[n]) = bytes2clusters(l[n].size)
               /\ \A i \in 1 .. bytes2clusters(l[n].size) :
                    chain[n][i] = l[n].first + i - 1
    <2>1. l[n].first \in Nat /\ l[n].size \in Nat
      BY LayoutAssumption, ConstantTypes
    <2>2. bytes2clusters(l[n].size) \in Nat
      BY <2>1, Bytes2ClustersNat
    <2>3. chain[n] = [i \in 1 .. bytes2clusters(l[n].size) |-> l[n].first + i - 1]
      BY DEF LayoutRun
    <2>4. chain[n] \in Seq(Clusters)
      BY TypeInit DEF TypeOK, Init
    <2> QED BY <2>1, <2>2, <2>3, <2>4
  <1>2. EndsMarked
    <2>1. ASSUME NEW n \in Nodes, Len(chain[n]) > 0 PROVE node[n].is_contiguous
      <3>1. l[n].size # 0
        BY <1>1, <2>1, ZeroClusters
      <3> QED BY <3>1
    <2> QED BY <2>1 DEF EndsMarked, Terminated
  <1>3. NoneLost
    <2> SUFFICES ASSUME NEW n \in Nodes, NEW c \in LayoutClusters(l[n])
                 PROVE  InSeq(c, chain[n])
      BY DEF NoneLost
    <2>1. c \in l[n].first .. l[n].first + bytes2clusters(l[n].size) - 1
      BY DEF LayoutClusters
    <2>2. (c - l[n].first) + 1 \in 1 .. bytes2clusters(l[n].size)
          /\ l[n].first + ((c - l[n].first) + 1) - 1 = c
      BY <1>1, <2>1, SMTT(30)
    <2> QED BY <1>1, <2>2 DEF InSeq
  <1>4. NoAbort /\ EraseAt /\ IoAt /\ GrowthKept
    BY <1>0 DEF NoAbort, EraseAt, IoAt, IoLoops, GrowthKept
  <1> QED BY <1>2, <1>3, <1>4 DEF SaneProgress

LEMMA ProgressNext ==
  TypeOK /\ IInv /\ Progress /\ [Next]_vars => Progress'
  <1> SUFFICES ASSUME TypeOK, IInv, Progress, [Next]_vars, sane' PROVE SaneProgress'
    BY DEF Progress
  <1>1. SaneInv /\ SaneProgress
    BY SaneBefore DEF IInv, Progress
  <1>2. EndsMarked /\ NoneLost /\ NoAbort /\ EraseAt /\ IoAt /\ GrowthKept
    BY <1>1 DEF SaneProgress
  <1>3. EndsMarked' /\ NoneLost' /\ NoAbort'
    BY <1>1, <1>2, EndsMarkedNext, NoneLostNext, NoAbortNext
  <1>4. EraseAt' /\ IoAt' /\ GrowthKept'
    BY <1>1, <1>2, EraseAtNext, IoAtNext, GrowthKeptNext
  <1> QED BY <1>3, <1>4 DEF SaneProgress

LEMMA ProgressHolds == Spec => []Progress
  <1>1. Init => Progress
    BY ProgressInit DEF Progress
  <1> QED BY <1>1, ProgressNext, InvariantHolds, TypeCorrect, PTL DEF Spec

-----------------------------------------------------------------------------
(* What follows *)

LEMMA InvariantNoLeak == TypeOK /\ IInv /\ Progress => NoLeak
  <1> SUFFICES ASSUME TypeOK, SaneInv, NoneLost, faults = 0
               PROVE  cmap = Reserved \cup Members(tail)
                               \cup UNION {Members(chain[n]) : n \in Nodes}
    BY DEF IInv, Progress, SaneProgress, NoLeak
  <1>1. /\ \A n \in Nodes : DOMAIN chain[n] = 1 .. Len(chain[n])
        /\ DOMAIN tail = 1 .. Len(tail)
    BY DEF TypeOK
  <1>2. /\ \A n \in Nodes : \A c : c \in Members(chain[n]) <=> InSeq(c, chain[n])
        /\ \A c : c \in Members(tail) <=> InSeq(c, tail)
    BY <1>1 DEF Members, InSeq
  <1>3. /\ \A n \in Nodes : \A c : InSeq(c, chain[n]) => c \in cmap
        /\ \A c : InSeq(c, tail) => c \in cmap
        /\ Reserved \subseteq cmap
    BY DEF SaneInv, OwnInv, InSeq
  <1>4. \A c \in cmap : c \in Reserved \/ InSeq(c, tail)
                        \/ \E n \in Nodes : InSeq(c, chain[n])
    BY DEF NoneLost
  <1> QED BY <1>2, <1>3, <1>4

\* While the device works, every set bit of the bitmap is a system file's, a
\* file's, or in the hands of the running call: grow_file(), shrink_file() and
\* the rollback lose no cluster.
THEOREM NoLeakHolds == Spec => []NoLeak
BY ProgressHolds, InvariantHolds, TypeCorrect, InvariantNoLeak, PTL

\* No assertion of cluster.c fails while the device works.
THEOREM NoBugHolds == Spec => []NoBug
  <1>1. Progress => NoBug
    BY DEF Progress, SaneProgress, NoAbort, NoBug
  <1> QED BY <1>1, ProgressHolds, PTL

LEMMA InvariantSettled == TypeOK /\ IInv /\ Progress => Settled
  <1> SUFFICES ASSUME TypeOK, SaneInv, EndsMarked, faults = 0, pc \in {"idle", "done"},
                      NEW n \in Nodes
               PROVE  /\ Len(chain[n]) = bytes2clusters(node[n].size)
                      /\ Len(chain[n]) # 0 /\ ~node[n].is_contiguous =>
                           fat[chain[n][Len(chain[n])]] = EXFAT_CLUSTER_END
                      /\ node[n].fptr_cluster = ClusterAt(n, node[n].fptr_index)
                      /\ node[n].fptr_index < Len(chain[n]) \/ node[n].fptr_index = 0
    BY DEF IInv, Progress, SaneProgress, Settled
  <1>0. chain[n] \in Seq(Clusters) /\ Len(chain[n]) \in Nat /\ node[n].fptr_index \in Nat
    BY LenProperties DEF TypeOK, NodeType
  <1>1. SettledFile(n) /\ FileChain(n)
    BY DEF SaneInv, FilesInv, ChainInv, QuietLabels
  <1>2. Terminated(n)
    BY DEF EndsMarked, OpenEnded
  <1>3. CursorAt(n, node[n].fptr_index)
    BY <1>1 DEF SettledFile
  <1>4. CASE Len(chain[n]) = 0
    <2>1. node[n].fptr_index = 0 /\ node[n].fptr_cluster = EXFAT_CLUSTER_FREE
      BY <1>3, <1>4 DEF CursorAt
    <2>2. ClusterAt(n, 0) = EXFAT_CLUSTER_FREE
      BY <1>1, <1>4, WalkStep DEF FileChain
    <2> QED BY <1>1, <1>4, <2>1, <2>2 DEF SettledFile, HasClusters
  <1>5. CASE Len(chain[n]) # 0
    <2> DEFINE k == node[n].fptr_index
    <2>1. k < Len(chain[n]) /\ node[n].fptr_cluster = chain[n][k + 1]
      BY <1>3, <1>5 DEF CursorAt
    <2>2. k + 1 \in 1 .. Len(chain[n]) /\ (k + 1) - 1 = k
      BY <1>0, <2>1
    <2>3. ClusterAt(n, (k + 1) - 1) = chain[n][k + 1]
      BY <2>2, WalkOfChain
    <2>4. ClusterAt(n, k) = chain[n][k + 1]
      BY <2>2, <2>3
    <2>5. Len(chain[n]) > 0
      BY <1>0, <1>5
    <2> QED BY <1>1, <1>2, <2>1, <2>4, <2>5 DEF SettledFile, HasClusters, Terminated
  <1> QED BY <1>4, <1>5

\* Between calls on a working device a file has the clusters its size calls
\* for, its chain is terminated, and exfat_advance_cluster()'s cached cursor
\* points into it.
THEOREM SettledHolds == Spec => []Settled
BY ProgressHolds, InvariantHolds, TypeCorrect, InvariantSettled, PTL

LEMMA InvariantEnospc == TypeOK /\ IInv /\ Progress => EnospcRestores
  <1> DEFINE n == op.node
  <1> SUFFICES ASSUME TypeOK, SaneInv, SaneProgress, faults = 0, pc = "done",
                      op.rc = "ENOSPC", op.kind = "truncate"
               PROVE  Content(n) = pre.content /\ cmap = pre.cmap
    BY DEF IInv, Progress, EnospcRestores
  <1>0. n \in Nodes /\ node[n].size \in Nat
    BY DEF TypeOK, NodeType
  <1>1. /\ pre.content \in Seq(Cells) /\ Len(pre.content) = node[n].size
        /\ BytesKept /\ MapKept
    BY DEF SaneProgress, GrowthKept
  <1>2. Content(n) = pre.content
    <2>1. /\ Content(n) \in Seq(Cells) /\ Len(Content(n)) = node[n].size
          /\ \A k \in 1 .. node[n].size :
               Content(n)[k]
                 = data[chain[n][(k - 1) \div ClusterSize + 1]][(k - 1) % ClusterSize]
      BY <1>0, <1>1, ContentOfChain DEF BytesKept
    <2>2. \A k \in 1 .. node[n].size : Content(n)[k] = pre.content[k]
      BY <1>1, <2>1 DEF BytesKept
    <2> QED BY <1>0, <1>1, <2>1, <2>2, SeqEqual
  <1>3. cmap = pre.cmap
    <2>1. /\ tail = <<>> /\ Len(chain[n]) = bytes2clusters(node[n].size)
          /\ cmap \subseteq Clusters /\ NoneLost
      BY <1>0 DEF SaneInv, CallInv, FilesInv, QuietLabels, SettledFile, HasClusters,
         TypeOK, SaneProgress
    <2>2. \A c \in Clusters :
            c \in cmap <=>
              \/ c \in Reserved
              \/ \E m \in Nodes \ {n} : InSeq(c, chain[m])
              \/ \E i \in 1 .. bytes2clusters(node[n].size) : chain[n][i] = c
      BY <1>0, <2>1, MapOfChains
    <2>3. pre.cmap \subseteq Clusters /\ \A c \in Clusters : c \in cmap <=> c \in pre.cmap
      BY <1>1, <2>2 DEF MapKept
    <2> QED BY <2>1, <2>3
  <1> QED BY <1>2, <1>3

\* A truncate that fails for lack of space on a working device leaves the
\* file's bytes and the bitmap as they were: the rollback of grow_file() is
\* complete.
THEOREM EnospcRestoresHolds == Spec => []EnospcRestores
BY ProgressHolds, InvariantHolds, TypeCorrect, InvariantEnospc, PTL

LEMMA InvariantFailedGrow == TypeOK /\ IInv /\ Progress => FailedGrowKeepsData
  <1> DEFINE n == op.node
  <1> SUFFICES ASSUME TypeOK, SaneInv, SaneProgress, pc = "done", op.kind = "truncate",
                      op.rc \in {"EIO", "ENOSPC"}, op.size > Len(pre.content)
               PROVE  Content(n) = pre.content
    BY DEF IInv, Progress, FailedGrowKeepsData
  <1>0. n \in Nodes /\ node[n].size \in Nat
    BY DEF TypeOK, NodeType
  <1>1. pre.content \in Seq(Cells) /\ Len(pre.content) = node[n].size /\ BytesKept
    BY DEF SaneProgress, GrowthKept
  <1>2. /\ Content(n) \in Seq(Cells) /\ Len(Content(n)) = node[n].size
        /\ \A k \in 1 .. node[n].size :
             Content(n)[k]
               = data[chain[n][(k - 1) \div ClusterSize + 1]][(k - 1) % ClusterSize]
    BY <1>0, <1>1, ContentOfChain DEF BytesKept
  <1>3. \A k \in 1 .. node[n].size : Content(n)[k] = pre.content[k]
    BY <1>1, <1>2 DEF BytesKept
  <1> QED BY <1>0, <1>1, <1>2, <1>3, SeqEqual

\* A truncate to a larger size that fails, for lack of space or because any
\* access to the device fails, leaves the file's bytes as they were.
THEOREM FailedGrowKeepsDataHolds == Spec => []FailedGrowKeepsData
BY ProgressHolds, InvariantHolds, TypeCorrect, InvariantFailedGrow, PTL

\* What a step writes to the cluster heap.
LEMMA DataWrites ==
  ASSUME TypeOK, SaneInv, EraseAt, IoAt, [Next]_vars, NEW c \in Clusters,
         data'[c] # data[c]
  PROVE  InSeq(c, chain[op.node])
  <1> DEFINE n == op.node
  <1>0. data \in [Clusters -> [0 .. ClusterSize - 1 -> Cells]]
    BY DEF TypeOK
  <1>1. ASSUME NEW d, NEW bytes, Overwrite(d, bytes) PROVE c = d
    BY <1>0, <1>1 DEF Overwrite
  <1>2. CASE Call \/ Aborted \/ UNCHANGED vars
    BY <1>2 DEF Call, exfat_truncate, exfat_generic_pwrite, exfat_generic_pread,
       Begin, Aborted, vars, disk
  <1>3. CASE EraseFirst
    <2>1. pc = "eraseFirst" /\ c = op.cluster /\ n \in Nodes
      BY <1>1, <1>3 DEF EraseFirst, TypeOK
    <2>2. EndCluster < Len(chain[n]) /\ op.cluster = chain[n][EndCluster + 1]
      BY <2>1 DEF EraseAt
    <2>3. EndCluster \in Nat /\ Len(chain[n]) \in Nat
      BY <2>1, EndClusterNat, LenProperties DEF TypeOK
    <2>4. EndCluster + 1 \in 1 .. Len(chain[n])
      BY <2>2, <2>3
    <2> QED BY <2>1, <2>2, <2>4 DEF InSeq
  <1>4. CASE EraseNext
    <2>1. PICK k \in 1 .. Len(chain[n]) - 1 :
            Overwrite(chain[n][k + 1], Zeros(0, ClusterSize))
      BY <1>4, EraseNextStep
    <2>2. c = chain[n][k + 1]
      BY <1>1, <2>1
    <2>3. k + 1 \in 1 .. Len(chain[n])
      <3>1. chain[n] \in Seq(Clusters)
        BY <1>4, EraseNextStep DEF TypeOK
      <3> QED BY <3>1, LenProperties
    <2> QED BY <2>2, <2>3 DEF InSeq
  <1>5. CASE IoLoop
    <2>1. /\ pc \in IoLoops /\ op.remainder > 0 /\ op.cluster \in Clusters
          /\ c = op.cluster
      BY <1>1, <1>5 DEF IoLoop, IoLoops, CLUSTER_INVALID
    <2>2. \E k \in 1 .. Len(chain[n]) : op.cluster = chain[n][k]
      BY <2>1 DEF IoAt
    <2> QED BY <2>1, <2>2 DEF InSeq
  <1> QED BY <1>2, <1>3, <1>4, <1>5, DataSteps DEF Next

\* A call writes to FAT entries and clusters of its own file only, or of the
\* clusters it has in its hands, also when the device fails under it.
THEOREM OwnWritesHolds == Spec => OwnWrites
  <1> DEFINE Own == sane' => \A c \in Clusters :
                      fat'[c] # fat[c] \/ data'[c] # data[c] =>
                        c \in Members(chain[op.node]) \cup Members(tail)
  <1>1. TypeOK /\ IInv /\ Progress /\ [Next]_vars => [Own]_vars
    <2> SUFFICES ASSUME TypeOK, IInv, Progress, [Next]_vars, ~UNCHANGED vars, sane',
                        NEW c \in Clusters, fat'[c] # fat[c] \/ data'[c] # data[c]
                 PROVE  c \in Members(chain[op.node]) \cup Members(tail)
      OBVIOUS
    <2>1. SaneInv /\ EraseAt /\ IoAt
      BY SaneBefore DEF IInv, Progress, SaneProgress
    <2>2. InSeq(c, chain[op.node]) \/ InSeq(c, tail)
      BY <2>1, FatWrites, DataWrites
    <2>3. op.node \in Nodes
      <3>1. CASE Call \/ Aborted
        BY <3>1 DEF Call, exfat_truncate, exfat_generic_pwrite, exfat_generic_pread,
           Begin, Aborted, vars, disk
      <3>2. CASE Done
        BY <3>2 DEF Done, TypeOK
      <3>3. CASE Step /\ ~Done
        BY <3>3, CallSteps
      <3> QED BY <3>1, <3>2, <3>3 DEF Next
    <2>4. /\ DOMAIN chain[op.node] = 1 .. Len(chain[op.node])
          /\ DOMAIN tail = 1 .. Len(tail)
      BY <2>3 DEF TypeOK
    <2> QED BY <2>2, <2>4 DEF InSeq, Members
  <1> QED
    BY <1>1, ProgressHolds, InvariantHolds, TypeCorrect, PTL DEF Spec, OwnWrites

=============================================================================
