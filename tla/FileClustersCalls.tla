------------------------- MODULE FileClustersCalls --------------------------
(***************************************************************************)
(* What the calls of cluster.c and io.c do, beyond ownership: whoever      *)
(* follows the start cluster and the FAT visits the clusters of a file,    *)
(* chains are terminated, no cluster is lost, no assertion fails, and the  *)
(* loops of a call are inside its file.                                    *)
(***************************************************************************)
EXTENDS FileClustersProofs, Iteration, ClusterProgress

-----------------------------------------------------------------------------
(* The walk along a chain that ClusterAt defines recursively. *)

\* Where a walk along the chain of n goes from c.
NextOf(n) ==
  [c \in Word |-> IF c \notin Clusters THEN EXFAT_CLUSTER_BAD
                  ELSE IF node[n].is_contiguous THEN c + 1 ELSE fat[c]]

LEMMA NextOfType ==
  ASSUME TypeOK, NEW n \in Nodes
  PROVE  NextOf(n) \in [Word -> Word] /\ node[n].start_cluster \in Word
  <1>1. \A c \in Clusters : c + 1 \in Word /\ c \in Word
    BY ClusterAssumption DEF Clusters, Word
  <1>2. \A c \in Clusters : fat[c] \in Word
    BY DEF TypeOK
  <1>3. node[n].start_cluster \in Word
    BY ConstantTypes DEF TypeOK, NodeType, EXFAT_CLUSTER_FREE
  <1> QED BY <1>1, <1>2, <1>3, ConstantTypes DEF NextOf

\* The walk begins at the start cluster and goes on from each cluster.
LEMMA WalkStep ==
  ASSUME TypeOK, NEW n \in Nodes
  PROVE  /\ ClusterAt(n, 0) = node[n].start_cluster
         /\ \A k \in Nat : ClusterAt(n, k) \in Clusters =>
              ClusterAt(n, k + 1) = IF node[n].is_contiguous
                                    THEN ClusterAt(n, k) + 1
                                    ELSE fat[ClusterAt(n, k)]
  <1> DEFINE F(g) == [j \in Nat |->
                        IF j = 0 THEN node[n].start_cluster
                        ELSE LET c == g[j - 1]
                             IN  IF c \notin Clusters THEN EXFAT_CLUSTER_BAD
                                 ELSE IF node[n].is_contiguous THEN c + 1
                                      ELSE fat[c]]
             at == CHOOSE g : g = F(g)
             f == [k \in Nat |-> NextOf(n)]
             a == node[n].start_cluster
  <1>1. f \in [Nat -> [Word -> Word]] /\ a \in Word
    BY NextOfType
  <1>2. PICK g : Iterates(g, Word, a, f)
    <2> HIDE DEF f, a
    <2> QED BY <1>1, IterationExists
  <1>3. g = F(g)
    <2>0. g \in [Nat -> Word] /\ \A k \in Nat : g[k] = IF k = 0 THEN a ELSE f[k][g[k - 1]]
      BY <1>2 DEF Iterates
    <2>1. ASSUME NEW k \in Nat, k # 0 PROVE k - 1 \in Nat /\ g[k - 1] \in Word
      BY <2>0, <2>1
    <2>2. \A k \in Nat : g[k] = F(g)[k]
      BY <2>0, <2>1 DEF NextOf
    <2> QED BY <2>0, <2>2
  <1>4. at = F(at)
    <2> HIDE DEF F
    <2> QED BY <1>3
  <1>5. \A k \in Nat : ClusterAt(n, k) = at[k]
    BY DEF ClusterAt
  <1> HIDE DEF at
  <1>6. at[0] = a
    BY <1>4
  <1>7. ASSUME NEW k \in Nat, at[k] \in Clusters
        PROVE  at[k + 1] = IF node[n].is_contiguous THEN at[k] + 1 ELSE fat[at[k]]
    <2>1. k + 1 \in Nat /\ k + 1 # 0 /\ (k + 1) - 1 = k
      OBVIOUS
    <2> QED BY <1>4, <1>7, <2>1
  <1> QED BY <1>5, <1>6, <1>7

\* The walk visits the clusters of the chain in order.
LEMMA WalkOfChain ==
  ASSUME TypeOK, SaneInv, NEW n \in Nodes, NEW i \in 1 .. Len(chain[n])
  PROVE  ClusterAt(n, i - 1) = chain[n][i]
  <1> DEFINE len == Len(chain[n])
             S == {k \in 0 .. len - 1 : ClusterAt(n, k) = chain[n][k + 1]}
  <1>0. /\ chain[n] \in Seq(Clusters) /\ len \in Nat /\ len > 0
        /\ \A j \in 1 .. len : chain[n][j] \in Clusters /\ chain[n][j] \in Nat
    <2>1. chain[n] \in Seq(Clusters)
      BY DEF TypeOK
    <2> QED BY <2>1, ElementOfSeq, ClusterNumbers
  <1>1. FileChain(n)
    BY DEF SaneInv, ChainInv
  <1>2. 0 \in S
    BY <1>0, <1>1, WalkStep DEF FileChain
  <1>3. ASSUME NEW k \in 0 .. (len - 1) - 1, k \in S PROVE k + 1 \in S
    <2>1. k \in Nat /\ k + 1 \in 1 .. len /\ k + 2 \in 1 .. len
          /\ k + 1 \in 0 .. len - 1 /\ (k + 1) + 1 = k + 2 /\ 1 \in 1 .. len
          /\ k + 1 \in 1 .. len - 1
      BY <1>0
    <2>2. ClusterAt(n, k) = chain[n][k + 1] /\ chain[n][k + 1] \in Clusters
      BY <1>0, <1>3, <2>1
    <2>3. ClusterAt(n, k + 1) = IF node[n].is_contiguous
                                THEN chain[n][k + 1] + 1 ELSE fat[chain[n][k + 1]]
      BY <2>1, <2>2, WalkStep
    <2>4. chain[n][k + 2] = IF node[n].is_contiguous
                            THEN chain[n][k + 1] + 1 ELSE fat[chain[n][k + 1]]
      <3>1. CASE node[n].is_contiguous
        <4>1. /\ chain[n][k + 2] = chain[n][1] + (k + 2) - 1
              /\ chain[n][k + 1] = chain[n][1] + (k + 1) - 1
          BY <1>1, <2>1, <3>1 DEF FileChain, LinkedSeq
        <4> QED BY <1>0, <2>1, <3>1, <4>1
      <3>2. CASE ~node[n].is_contiguous
        BY <1>1, <2>1, <3>2 DEF FileChain, LinkedSeq
      <3> QED BY <3>1, <3>2
    <2> QED BY <2>1, <2>3, <2>4
  <1> HIDE DEF S, len
  <1>4. len - 1 \in Nat /\ i - 1 \in 0 .. len - 1 /\ (i - 1) + 1 = i
    BY <1>0 DEF len
  <1>5. i - 1 \in S
    BY <1>2, <1>3, <1>4, BoundedInduction
  <1> QED BY <1>4, <1>5 DEF S

\* The invariant implies Linked.
LEMMA InvariantLinked == TypeOK /\ IInv => Linked
  <1> SUFFICES ASSUME TypeOK, SaneInv, NEW n \in Nodes
               PROVE  /\ chain[n] = <<>> => node[n].start_cluster = EXFAT_CLUSTER_FREE
                      /\ \A i \in DOMAIN chain[n] : ClusterAt(n, i - 1) = chain[n][i]
    BY DEF IInv, Linked
  <1>1. DOMAIN chain[n] = 1 .. Len(chain[n])
    BY DEF TypeOK
  <1>2. chain[n] = <<>> => node[n].start_cluster = EXFAT_CLUSTER_FREE
    BY DEF SaneInv, ChainInv, FileChain
  <1> QED BY <1>1, <1>2, WalkOfChain

\* Whoever follows the start cluster and the FAT, as exfat_advance_cluster()
\* does, visits exactly the clusters handed out to the file: in every state of
\* every call, also when a device access has failed.
THEOREM LinkedHolds == Spec => []Linked
BY InvariantHolds, TypeCorrect, InvariantLinked, PTL

-----------------------------------------------------------------------------
(* What a step leaves alone *)

\* The number of failures never goes down.
LEMMA FaultsGrow ==
  ASSUME TypeOK, [Next]_vars, faults' = 0 PROVE faults = 0
  <1>0. faults \in Nat
    BY DEF TypeOK
  <1>1. ASSUME NEW n, NEW c, NEW r \in NextCluster(n, c), faults' = faults + r.fault
        PROVE  faults = 0
    <2>1. r.fault \in {0, 1}
      <3>1. CASE node[n].is_contiguous
        BY <3>1, <1>1 DEF NextCluster
      <3>2. CASE ~node[n].is_contiguous
        BY <3>2, <1>1 DEF NextCluster
      <3> QED BY <3>1, <3>2
    <2> QED BY <1>0, <1>1, <2>1
  <1>2. ASSUME UNCHANGED faults \/ faults' = faults + 1 PROVE faults = 0
    BY <1>0, <1>2
  <1>3. CASE AdvanceLoop \/ ShrinkCrop \/ ShrinkFree \/ EraseNext \/ IoLoop
    BY <1>1, <1>3 DEF AdvanceLoop, ShrinkCrop, ShrinkFree, EraseNext, IoLoop
  <1>4. CASE AdvanceEnd \/ Truncate \/ Grow
    BY <1>2, <1>4 DEF AdvanceEnd, Truncate, TruncateWithin, TruncateShrink, Grow,
       GrowStart, GrowEmpty, GrowAllocate, GrowNoSpace, GrowFat, GrowFatEnd,
       GrowLink, GrowEnd, CallAdvance, history
  <1>5. CASE ShrinkStart \/ ShrinkAll \/ ShrinkInvalid \/ ShrinkEnd
    BY <1>2, <1>5 DEF ShrinkStart, ShrinkAll, ShrinkInvalid, ShrinkEnd,
       CallAdvance, history
  <1>6. CASE EraseStart \/ EraseFirst \/ EraseEnd \/ WriteGap \/ WriteExtend
             \/ WriteStart \/ ReadStart \/ IoInvalid \/ IoEnd
    BY <1>2, <1>6 DEF EraseStart, EraseFirst, EraseEnd, Truncated, WriteGap,
       WriteExtend, WriteStart, ReadStart, IoStart, IoInvalid, IoEnd,
       CallAdvance, history
  <1>7. CASE DeviceFails \/ AssertionFails \/ Done \/ Aborted \/ UNCHANGED vars
    BY <1>2, <1>7 DEF DeviceFails, AssertionFails, Done, Aborted, vars, history
  <1>8. CASE Call
    BY <1>2, <1>8 DEF Call, exfat_truncate, exfat_generic_pwrite,
       exfat_generic_pread, Begin
  <1> QED
    BY <1>3, <1>4, <1>5, <1>6, <1>7, <1>8
    DEF Next, Step, Advance, Shrink, Erase, Io

\* The steps that change the bitmap, a chain or the clusters in flight.
LEMMA HeapSteps ==
  ASSUME [Next]_vars
  PROVE  \/ UNCHANGED <<cmap, chain, tail>>
         \/ GrowEmpty \/ GrowAllocate \/ GrowLink \/ DeviceFails
         \/ ShrinkAll \/ ShrinkCrop \/ ShrinkFree \/ ShrinkInvalid \/ ShrinkEnd
  <1>1. CASE Advance \/ Truncate \/ Erase
    BY <1>1 DEF Advance, AdvanceLoop, AdvanceEnd, Truncate, TruncateWithin,
       TruncateShrink, Erase, EraseStart, EraseFirst, EraseNext, EraseEnd,
       Truncated, CallAdvance, disk, history
  <1>2. CASE Grow \/ Shrink
    BY <1>2 DEF Grow, GrowStart, GrowNoSpace, GrowFat, GrowFatEnd, GrowEnd,
       Shrink, ShrinkStart, CallAdvance, disk, history
  <1>3. CASE Io
    BY <1>3 DEF Io, WriteGap, WriteExtend, WriteStart, ReadStart, IoStart,
       IoLoop, IoInvalid, IoEnd, CallAdvance, disk, history
  <1>4. CASE AssertionFails \/ Done \/ Aborted \/ Call \/ UNCHANGED vars
    BY <1>4 DEF AssertionFails, Done, Aborted, Call, exfat_truncate,
       exfat_generic_pwrite, exfat_generic_pread, Begin, vars, disk, history
  <1> QED BY <1>1, <1>2, <1>3, <1>4 DEF Next, Step

\* A step of a call is on the node of the call, and on no other one.
LEMMA CallSteps ==
  ASSUME TypeOK, Step, ~Done
  PROVE  /\ pc # "idle" /\ op.node \in Nodes /\ pc' # "idle"
         /\ op'.node = op.node /\ op'.kind = op.kind /\ UNCHANGED pre
         /\ \A m \in Nodes \ {op.node} : node'[m] = node[m] /\ chain'[m] = chain[m]
  <1>0. /\ op \in OpType /\ node \in [Nodes -> NodeType]
        /\ chain \in [Nodes -> Seq(Clusters)]
        /\ NoOp \in OpType
        /\ pc # "idle" => op.node \in Nodes
    BY NoOpType DEF TypeOK
  <1>1. ASSUME NEW rc, Return(rc)
        PROVE op'.node = op.node /\ op'.kind = op.kind /\ pc' # "idle"
    BY <1>0, <1>1 DEF Return, OpType
  <1>2. ASSUME NEW label, Goto(label)
        PROVE op'.node = op.node /\ op'.kind = op.kind
    BY <1>2 DEF Goto
  <1>3. ASSUME NEW o \in OpType, NEW count, NEW ret, CallAdvance(o, count, ret),
               o.node = op.node, o.kind = op.kind, op.node \in Nodes
        PROVE  /\ op'.node = op.node /\ op'.kind = op.kind /\ pc' # "idle" /\ UNCHANGED pre
               /\ \A m \in Nodes \ {op.node} :
                    node'[m] = node[m] /\ chain'[m] = chain[m]
    BY <1>0, <1>3 DEF CallAdvance, OpType, history
  <1>4. CASE Advance
    BY <1>0, <1>1, <1>4, ZenonT(30) DEF Advance, AdvanceLoop, AdvanceEnd, history, OpType, TypeOK
  <1>5. CASE Truncate
    <2>0. pc # "idle" /\ UNCHANGED <<node, chain, pre>>
      BY <1>5 DEF Truncate, TruncateWithin, TruncateShrink, history
    <2>1. CASE TruncateWithin
      <3>1. op.then # "idle"
        BY <1>0 DEF OpType
      <3> QED BY <1>0, <1>1, <1>2, <2>0, <2>1, <3>1 DEF TruncateWithin, Goto
    <2>2. CASE TruncateShrink
      BY <1>0, <2>0, <2>2 DEF TruncateShrink, OpType
    <2> QED BY <1>5, <2>1, <2>2 DEF Truncate
  <1>6. CASE Grow
    <2>0. pc # "idle" /\ op.node \in Nodes
      BY <1>0, <1>6 DEF Grow, GrowStart, GrowEmpty, GrowAllocate, GrowNoSpace,
         GrowFat, GrowFatEnd, GrowLink, GrowEnd
    <2>1. CASE GrowStart
      <3>1. GrowOp \in OpType /\ GrowOp.node = op.node /\ GrowOp.kind = op.kind
        BY <2>0, <2>1, GrowOpType DEF GrowStart
      <3> QED BY <2>0, <2>1, <3>1, <1>3 DEF GrowStart
    <2>2. CASE GrowEmpty
      <3>1. CASE Return("ENOSPC") /\ UNCHANGED <<node, chain>>
        BY <1>1, <2>0, <2>2, <3>1 DEF GrowEmpty
      <3>2. ASSUME NEW c \in Clusters,
                   node' = [node EXCEPT ![op.node].start_cluster = c,
                                           ![op.node].fptr_cluster = c,
                                           ![op.node].is_contiguous = TRUE],
                   op' = [GrowOp EXCEPT !.cluster = c, !.allocated = 1],
                   chain' = [chain EXCEPT ![op.node] = <<c>>],
                   pc' = "growLoop"
            PROVE  /\ pc # "idle" /\ op.node \in Nodes /\ pc' # "idle"
                   /\ op'.node = op.node /\ op'.kind = op.kind /\ UNCHANGED pre
                   /\ \A m \in Nodes \ {op.node} :
                        node'[m] = node[m] /\ chain'[m] = chain[m]
        <4>1. GrowOp \in OpType /\ GrowOp.node = op.node /\ GrowOp.kind = op.kind
          BY <2>0, <2>2, GrowOpType DEF GrowEmpty
        <4>2. op'.node = op.node /\ op'.kind = op.kind
          BY <3>2, <4>1 DEF OpType
        <4>3. \A m \in Nodes \ {op.node} : node'[m] = node[m] /\ chain'[m] = chain[m]
          BY <1>0, <3>2
        <4>4. UNCHANGED pre
          BY <2>2 DEF GrowEmpty
        <4> QED BY <2>0, <3>2, <4>2, <4>3, <4>4
      <3> QED BY <2>2, <3>1, <3>2 DEF GrowEmpty
    <2>3. CASE GrowAllocate \/ GrowNoSpace
      BY <1>0, <1>1, <2>0, <2>3, ZenonT(30) DEF GrowAllocate, GrowNoSpace, OpType, history
    <2>4. CASE GrowFat
      BY <1>0, <2>0, <2>4 DEF GrowFat, OpType, history
    <2>5. CASE GrowLink
      BY <1>0, <2>0, <2>5 DEF GrowLink, OpType
    <2>6. CASE GrowFatEnd \/ GrowEnd
      BY <1>0, <2>0, <2>6 DEF GrowFatEnd, GrowEnd, Goto, history
    <2> QED BY <1>6, <2>1, <2>2, <2>3, <2>4, <2>5, <2>6 DEF Grow
  <1>7. CASE Shrink
    <2>0. pc # "idle" /\ op.node \in Nodes
      BY <1>0, <1>7 DEF Shrink, ShrinkStart, ShrinkAll, ShrinkCrop, ShrinkFree,
         ShrinkInvalid, ShrinkEnd
    <2>1. CASE ShrinkStart
      BY <1>0, <1>3, <2>0, <2>1 DEF ShrinkStart
    <2>2. CASE ShrinkAll
      BY <1>0, <2>0, <2>2 DEF ShrinkAll, OpType
    <2>4. CASE ShrinkCrop
      BY <1>0, <2>0, <2>4 DEF ShrinkCrop, OpType
    <2>5. CASE ShrinkFree
      BY <1>0, <2>0, <2>5 DEF ShrinkFree, OpType
    <2>3. CASE ShrinkInvalid \/ ShrinkEnd
      BY <1>1, <2>0, <2>3 DEF ShrinkInvalid, ShrinkEnd, Goto
    <2> QED BY <1>7, <2>1, <2>2, <2>3, <2>4, <2>5 DEF Shrink
  <1>8. CASE Erase
    <2>0. pc # "idle" /\ op.node \in Nodes /\ op.then # "idle"
      BY <1>0, <1>8 DEF Erase, EraseStart, EraseFirst, EraseNext, EraseEnd, OpType
    <2>1. CASE Truncated
      BY <1>0, <1>1, <2>0, <2>1, ZenonT(30) DEF Truncated, NoOp, history
    <2>2. CASE EraseStart /\ ~Truncated
      <3> DEFINE index == node[op.node].size \div ClusterSize
                 o == [op EXCEPT !.boundary = (index + 1) * ClusterSize]
      <3>1. CallAdvance(o, index, "eraseFirst")
        BY <2>2 DEF EraseStart
      <3>2. (index + 1) * ClusterSize \in Nat
        <4>1. node[op.node].size \in Nat
          BY <1>0, <2>0 DEF NodeType
        <4>2. index \in Nat
          BY <4>1, ClusterAssumption
        <4> HIDE DEF index
        <4> QED BY <4>2, ClusterAssumption
      <3> HIDE DEF index
      <3>3. o \in OpType /\ o.node = op.node /\ o.kind = op.kind
        BY <1>0, <3>2 DEF OpType
      <3> HIDE DEF o
      <3> QED BY <1>3, <2>0, <3>1, <3>3
    <2>3. CASE EraseFirst
      BY <1>0, <2>0, <2>3 DEF EraseFirst, Goto, history
    <2>4. CASE EraseNext
      BY <1>0, <2>0, <2>4, ZenonT(30) DEF EraseNext, exfat_bug, OpType
    <2> QED BY <1>8, <2>1, <2>2, <2>3, <2>4 DEF Erase, EraseEnd
  <1>9. CASE Io
    <2>0. pc # "idle" /\ op.node \in Nodes
      BY <1>0, <1>9 DEF Io, WriteGap, WriteExtend, WriteStart, ReadStart,
         IoLoop, IoInvalid, IoEnd
    <2>1. CASE WriteGap \/ WriteExtend
      BY <1>0, <1>2, <2>0, <2>1, ZenonT(30) DEF WriteGap, WriteExtend, SubTruncate, Goto, OpType,
         history
    <2>2. ASSUME NEW remainder \in Nat, NEW loop, IoStart(remainder, loop)
          PROVE  /\ op'.node = op.node /\ op'.kind = op.kind /\ pc' # "idle" /\ UNCHANGED pre
                 /\ \A m \in Nodes \ {op.node} :
                      node'[m] = node[m] /\ chain'[m] = chain[m]
      <3>1. CASE remainder = 0
        BY <1>1, <2>2, <3>1 DEF IoStart, history
      <3>2. CASE remainder # 0
        <4> DEFINE o == [op EXCEPT !.loffset = op.off % ClusterSize,
                                   !.remainder = remainder]
        <4>1. op.off % ClusterSize \in 0 .. ClusterSize - 1
          <5>1. op.off \in Nat
            BY <1>0 DEF OpType
          <5> QED BY <5>1, ClusterAssumption
        <4>2. o \in OpType
          BY <1>0, <2>2, <4>1, Zenon DEF OpType
        <4>3. o.node = op.node /\ o.kind = op.kind
          BY <1>0 DEF OpType
        <4>4. CallAdvance(o, op.off \div ClusterSize, loop)
          BY <2>2, <3>2 DEF IoStart
        <4> HIDE DEF o
        <4> QED BY <1>3, <2>0, <4>2, <4>3, <4>4
      <3> QED BY <3>1, <3>2
    <2>3. CASE WriteStart
      BY <1>0, <2>0, <2>2, <2>3 DEF WriteStart, OpType
    <2>4. CASE ReadStart
      <3> DEFINE size == node[op.node].size
                 rest == IF op.off >= size THEN 0 ELSE Lesser(op.len, size - op.off)
      <3>1. rest \in Nat
        <4>1. op.off \in Nat /\ op.len \in Nat /\ size \in Nat
          BY <1>0, <2>0 DEF OpType, NodeType
        <4> QED BY <4>1 DEF Lesser
      <3>2. IoStart(rest, "preadLoop")
        BY <2>4 DEF ReadStart
      <3> HIDE DEF rest
      <3> QED BY <2>0, <2>2, <3>1, <3>2
    <2>5. CASE IoLoop
      BY <1>0, <2>0, <2>5 DEF IoLoop, OpType
    <2>6. CASE IoInvalid \/ IoEnd
      BY <1>0, <1>1, <2>0, <2>6 DEF IoInvalid, IoEnd, history
    <2> QED BY <1>9, <2>1, <2>3, <2>4, <2>5, <2>6 DEF Io
  <1>10. CASE DeviceFails
    <2>1. pc # "idle"
      BY <1>10 DEF DeviceFails, WritesFat, WritesData, ReadsData
    <2> QED BY <1>0, <1>1, <1>10, <2>1 DEF DeviceFails
  <1>11. CASE AssertionFails
    BY <1>0, <1>11 DEF AssertionFails, BadCluster, BadPointer, exfat_bug, OpType,
       history
  <1> QED
    BY <1>4, <1>5, <1>6, <1>7, <1>8, <1>9, <1>10, <1>11 DEF Step

-----------------------------------------------------------------------------
(* No cluster is lost *)

\* A suffix of a sequence.
LEMMA SecondPart ==
  ASSUME NEW S, NEW s \in Seq(S), NEW k \in Nat, NEW d \in Nat,
         Len(s) = k + d
  PROVE  /\ Len(SubSeq(s, k + 1, Len(s))) = d
         /\ \A i \in 1 .. d : SubSeq(s, k + 1, Len(s))[i] = s[k + i]
  <1>1. CASE d = 0
    BY <1>1
  <1>2. CASE d > 0
    <2>1. Len(SubSeq(s, k + 1, Len(s))) = d
      BY <1>2
    <2>2. ASSUME NEW i \in 1 .. d
          PROVE  SubSeq(s, k + 1, Len(s))[i] = s[k + i]
      <3>1. SubSeq(s, k + 1, Len(s))[i] = s[(k + 1) + i - 1]
            /\ (k + 1) + i - 1 = k + i
        BY <1>2
      <3> QED BY <3>1
    <2> QED BY <2>1, <2>2
  <1> QED BY <1>1, <1>2

\* What the call that shrinks its file finds, as long as the device works.
LEMMA Freeing ==
  ASSUME TypeOK, SaneInv, pc = "shrinkFree", faults = 0
  PROVE  /\ Len(tail) = op.difference
         /\ op.difference > 0 => op.cluster = tail[1] /\ op.cluster \in Clusters
  <1>1. /\ Len(tail) = op.difference
        /\ op.difference > 0 => op.cluster = tail[1]
    BY DEF SaneInv, CallInv
  <1>2. op.difference \in Nat /\ tail \in Seq(Clusters)
    BY DEF TypeOK, OpType
  <1>3. op.difference > 0 => tail[1] \in Clusters
    BY <1>1, <1>2, ElementOfSeq
  <1> QED BY <1>1, <1>3

\* As long as the device works, what a step takes out of a chain or out of its
\* hands it has freed or put elsewhere.
LEMMA NoneLostNext ==
  ASSUME TypeOK, SaneInv, NoneLost, [Next]_vars PROVE NoneLost'
  <1> DEFINE Covered(c) == \/ c \in Reserved
                           \/ InSeq(c, tail')
                           \/ \E n \in Nodes : InSeq(c, chain'[n])
  <1> SUFFICES ASSUME faults' = 0, NEW c \in cmap' PROVE Covered(c)
    BY DEF NoneLost
  <1>0. /\ faults = 0 /\ chain \in [Nodes -> Seq(Clusters)] /\ tail \in Seq(Clusters)
        /\ op \in OpType
    BY FaultsGrow DEF TypeOK
  <1>1. ASSUME c \in cmap
        PROVE  c \in Reserved \/ InSeq(c, tail) \/ \E n \in Nodes : InSeq(c, chain[n])
    BY <1>0, <1>1 DEF NoneLost
  <1>2. CASE UNCHANGED <<cmap, chain, tail>>
    BY <1>1, <1>2
  <1>3. CASE GrowEmpty
    <2> DEFINE n == op.node
    <2>0. n \in Nodes /\ node[n].start_cluster = EXFAT_CLUSTER_FREE /\ tail' = tail
      BY <1>3 DEF GrowEmpty, TypeOK
    <2>1. CASE UNCHANGED <<cmap, chain>>
      BY <1>2, <2>0, <2>1
    <2>2. ASSUME NEW d \in Clusters, cmap' = cmap \cup {d},
                 chain' = [chain EXCEPT ![n] = <<d>>]
          PROVE  Covered(c)
      <3>1. Len(chain[n]) = 0
        <4>1. /\ Len(chain[n]) \in Nat
              /\ Len(chain[n]) > 0 => chain[n][1] \in Clusters
          BY <1>0, <2>0, ElementOfSeq
        <4> QED BY <2>0, <4>1, ClusterNumbers DEF SaneInv, ChainInv, FileChain
      <3>2. \A m \in Nodes \ {n} : chain'[m] = chain[m]
        BY <1>0, <2>2
      <3>3. CASE c = d
        <4>1. Len(chain'[n]) = 1 /\ chain'[n][1] = d
          BY <1>0, <2>0, <2>2
        <4>2. InSeq(c, chain'[n])
          BY <3>3, <4>1 DEF InSeq
        <4> QED BY <2>0, <4>2
      <3>4. CASE c # d
        BY <1>1, <2>0, <2>2, <3>1, <3>2, <3>4 DEF InSeq
      <3> QED BY <3>3, <3>4
    <2> QED BY <1>3, <2>1, <2>2 DEF GrowEmpty
  <1>4. CASE GrowAllocate
    <2>1. PICK d \in Clusters : cmap' = cmap \cup {d} /\ tail' = <<d>>
      BY <1>4 DEF GrowAllocate
    <2>2. tail = <<>> /\ UNCHANGED chain
      BY <1>4 DEF GrowAllocate, SaneInv, CallInv
    <2>3. Len(tail') = 1 /\ tail'[1] = d /\ Len(tail) = 0
      BY <2>1, <2>2
    <2> QED BY <1>1, <2>1, <2>2, <2>3 DEF InSeq
  <1>5. CASE GrowLink
    <2> DEFINE n == op.node
    <2>0. /\ n \in Nodes /\ op.next \in Clusters /\ UNCHANGED cmap
          /\ chain' = [chain EXCEPT ![n] = Append(chain[n], op.next)]
          /\ tail = <<op.next>>
      BY <1>5 DEF GrowLink, TypeOK, SaneInv, CallInv
    <2>1. /\ chain'[n] = Append(chain[n], op.next) /\ chain[n] \in Seq(Clusters)
          /\ \A m \in Nodes \ {n} : chain'[m] = chain[m]
      BY <1>0, <2>0
    <2>2. /\ Len(chain'[n]) = Len(chain[n]) + 1
          /\ chain'[n][Len(chain[n]) + 1] = op.next
          /\ \A i \in 1 .. Len(chain[n]) : chain'[n][i] = chain[n][i]
          /\ Len(chain[n]) \in Nat
      BY <2>0, <2>1
    <2>3. CASE c = op.next
      <3>1. InSeq(c, chain'[n])
        BY <2>2, <2>3, SMTT(30) DEF InSeq
      <3> QED BY <2>0, <3>1
    <2>4. CASE InSeq(c, chain[n])
      <3>1. InSeq(c, chain'[n])
        BY <2>2, <2>4 DEF InSeq
      <3> QED BY <2>0, <3>1
    <2>5. InSeq(c, tail) => c = op.next
      BY <2>0 DEF InSeq
    <2> QED BY <1>1, <2>0, <2>1, <2>3, <2>4, <2>5
  <1>6. CASE DeviceFails
    BY <1>0, <1>6 DEF DeviceFails
  <1>7. CASE ShrinkAll
    <2> DEFINE n == op.node
    <2>0. /\ n \in Nodes /\ UNCHANGED cmap /\ tail' = chain[n]
          /\ chain' = [chain EXCEPT ![n] = <<>>] /\ tail = <<>>
      BY <1>7 DEF ShrinkAll, TypeOK, SaneInv, CallInv, disk
    <2>1. \A m \in Nodes \ {n} : chain'[m] = chain[m]
      BY <1>0, <2>0
    <2>2. ~InSeq(c, tail)
      BY <2>0 DEF InSeq
    <2> QED BY <1>1, <2>0, <2>1, <2>2
  <1>8. CASE ShrinkCrop
    <2> DEFINE n == op.node
               k == op.current - op.difference
               d == op.difference
               s == chain[n]
    <2>0. /\ n \in Nodes /\ UNCHANGED cmap /\ tail = <<>>
          /\ k \in Nat /\ d \in Nat /\ Len(s) = k + d /\ s \in Seq(Clusters)
      <3>1. /\ pc = "shrinkCrop" /\ n \in Nodes /\ UNCHANGED cmap
            /\ op.current \in Nat /\ d \in Nat
        BY <1>0, <1>8 DEF ShrinkCrop, TypeOK, OpType
      <3>2. tail = <<>> /\ Len(s) = op.current /\ d < op.current
        BY <3>1 DEF SaneInv, CallInv, HasClusters
      <3> QED BY <1>0, <3>1, <3>2
    <2>1. Lesser(k, Len(s)) = k
      BY <2>0 DEF Lesser
    <2>2. /\ chain' = [chain EXCEPT ![n] = SubSeq(chain[n], 1, k)]
          /\ tail' = SubSeq(chain[n], k + 1, Len(chain[n]))
      BY <1>8, <2>1 DEF ShrinkCrop
    <2> HIDE DEF k, d
    <2>3. chain'[n] = SubSeq(s, 1, k) /\ \A m \in Nodes \ {n} : chain'[m] = chain[m]
      BY <1>0, <2>0, <2>2
    <2>4. Len(chain'[n]) = k /\ \A i \in 1 .. k : chain'[n][i] = s[i]
      BY <2>0, <2>3, FirstPart
    <2>5. Len(tail') = d /\ \A i \in 1 .. d : tail'[i] = s[k + i]
      BY <2>0, <2>2, SecondPart
    <2>6. ASSUME NEW i \in 1 .. Len(s), s[i] = c PROVE InSeq(c, chain'[n]) \/ InSeq(c, tail')
      <3>1. CASE i <= k
        BY <2>0, <2>4, <2>6, <3>1 DEF InSeq
      <3>2. CASE i > k
        <4>1. i - k \in 1 .. d /\ k + (i - k) = i
          BY <2>0, <3>2
        <4>2. tail'[i - k] = c /\ i - k \in 1 .. Len(tail')
          BY <2>5, <2>6, <4>1
        <4> QED BY <4>2 DEF InSeq
      <3> QED BY <2>0, <3>1, <3>2
    <2>7. InSeq(c, s) => Covered(c)
      BY <2>0, <2>6 DEF InSeq
    <2>8. ~InSeq(c, tail)
      BY <2>0 DEF InSeq
    <2> QED BY <1>1, <2>0, <2>3, <2>7, <2>8
  <1>9. CASE ShrinkFree
    <2> DEFINE d == op.difference
    <2>0. /\ pc = "shrinkFree" /\ d > 0 /\ d \in Nat /\ cmap' = cmap \ {op.cluster}
          /\ tail' = SubSeq(tail, 2, Len(tail)) /\ UNCHANGED chain
      BY <1>0, <1>9 DEF ShrinkFree, free_cluster, OpType
    <2>1. Len(tail) = d /\ op.cluster = tail[1]
      BY <1>0, <2>0, Freeing
    <2> HIDE DEF d
    <2>2. Len(tail') = d - 1 /\ \A i \in 1 .. d - 1 : tail'[i] = tail[i + 1]
      BY <1>0, <2>0, <2>1, RestOfSeq
    <2>3. ASSUME NEW i \in 1 .. Len(tail), tail[i] = c PROVE InSeq(c, tail')
      <3>1. i # 1
        BY <2>0, <2>1, <2>3
      <3>2. i - 1 \in 1 .. d - 1 /\ (i - 1) + 1 = i
        BY <2>0, <2>1, <3>1
      <3>3. tail'[i - 1] = c /\ i - 1 \in 1 .. Len(tail')
        BY <2>2, <2>3, <3>2
      <3> QED BY <3>3 DEF InSeq
    <2>4. InSeq(c, tail) => InSeq(c, tail')
      BY <2>3 DEF InSeq
    <2> QED BY <1>1, <2>0, <2>4
  <1>10. CASE ShrinkInvalid
    BY <1>0, <1>10, Freeing DEF ShrinkInvalid, CLUSTER_INVALID
  <1>11. CASE ShrinkEnd
    <2>1. UNCHANGED <<cmap, chain>> /\ Len(tail) = 0
      BY <1>0, <1>11, Freeing DEF ShrinkEnd, disk
    <2>2. ~InSeq(c, tail)
      BY <2>1 DEF InSeq
    <2> QED BY <1>1, <2>1, <2>2
  <1> QED
    BY <1>2, <1>3, <1>4, <1>5, <1>6, <1>7, <1>8, <1>9, <1>10, <1>11, HeapSteps

-----------------------------------------------------------------------------
(* The cursor, the FAT and the ends of chains *)

\* exfat_advance_cluster() steps along the chain, or ends at the cluster asked
\* for, or a FAT entry could not be read.
LEMMA AdvanceStep ==
  ASSUME TypeOK, SaneInv, Advance
  PROVE  /\ pc = "advance" /\ op.node \in Nodes /\ faults = 0
         /\ UNCHANGED <<cmap, fat, data, chain, tail, pre>>
         /\ \A m \in Nodes : /\ node'[m].size = node[m].size
                             /\ node'[m].is_contiguous = node[m].is_contiguous
         /\ \/ faults' # 0 /\ Return("EIO")
            \/ faults' = 0 /\ pc' = "advance" /\ op' = [op EXCEPT !.i = op.i + 1]
            \/ /\ faults' = 0 /\ pc' = op.ret
               /\ op.count + 1 \in 1 .. Len(chain[op.node])
               /\ op' = [op EXCEPT !.cluster = chain[op.node][op.count + 1]]
  <1> DEFINE n == op.node
             s == chain[n]
  <1>0. /\ pc = "advance" /\ n \in Nodes /\ op \in OpType /\ node \in [Nodes -> NodeType]
        /\ s \in Seq(Clusters) /\ Len(s) \in Nat /\ op.i \in Nat /\ op.count \in Nat
        /\ faults \in Nat
    BY LenProperties, SMTT(30) DEF Advance, AdvanceLoop, AdvanceEnd, TypeOK, OpType
  <1>1. /\ faults = 0 /\ op.i <= op.count /\ op.count < Len(s)
        /\ node[n].fptr_cluster = s[op.i + 1]
    BY <1>0 DEF SaneInv, CallInv, CursorAt
  <1>2. CASE AdvanceLoop
    <2>1. PICK r \in NextCluster(n, node[n].fptr_cluster) :
            /\ faults' = faults + r.fault
            /\ IF CLUSTER_INVALID(r.cluster)
               THEN /\ node' = [node EXCEPT ![n].fptr_cluster = r.cluster,
                                            ![n].fptr_index = op.count]
                    /\ Return("EIO")
               ELSE /\ node' = [node EXCEPT ![n].fptr_cluster = r.cluster]
                    /\ op' = [op EXCEPT !.i = op.i + 1]
                    /\ UNCHANGED pc
      BY <1>2 DEF AdvanceLoop
    <2>2. \A m \in Nodes : /\ node'[m].size = node[m].size
                           /\ node'[m].is_contiguous = node[m].is_contiguous
      BY <1>0, <2>1 DEF NodeType
    <2> DEFINE k == op.i + 1
    <2>3. k \in 1 .. Len(s) - 1 /\ k + 1 \in 1 .. Len(s) /\ r \in NextCluster(n, s[k])
      BY <1>0, <1>1, <1>2, <2>1, SMTT(30) DEF AdvanceLoop
    <2>4. LinkedSeq(n, s)
      BY <1>0 DEF SaneInv, ChainInv, FileChain
    <2> HIDE DEF k
    <2>5. \/ r.fault = 1 /\ r.cluster \notin Clusters
          \/ r.fault = 0 /\ r.cluster = s[k + 1] /\ r.cluster \in Clusters
      BY <1>0, <2>3, <2>4, NextOfLinked, ElementOfSeq
    <2>6. UNCHANGED <<cmap, fat, data, chain, tail, pre>>
      BY <1>2 DEF AdvanceLoop, disk
    <2>7. CASE r.fault = 1 /\ r.cluster \notin Clusters
      BY <1>0, <1>1, <2>1, <2>2, <2>6, <2>7 DEF CLUSTER_INVALID
    <2>8. CASE r.fault = 0 /\ r.cluster \in Clusters
      BY <1>0, <1>1, <2>1, <2>2, <2>6, <2>8 DEF CLUSTER_INVALID
    <2> QED BY <2>5, <2>7, <2>8
  <1>3. CASE AdvanceEnd
    <2>1. op.i = op.count /\ op.count + 1 \in 1 .. Len(s)
      BY <1>0, <1>1, <1>3 DEF AdvanceEnd
    <2>2. node[n].fptr_cluster = s[op.count + 1] /\ s[op.count + 1] \in Clusters
      BY <1>0, <1>1, <2>1, ElementOfSeq
    <2>3. \A m \in Nodes : /\ node'[m].size = node[m].size
                           /\ node'[m].is_contiguous = node[m].is_contiguous
      BY <1>0, <1>3 DEF AdvanceEnd, NodeType
    <2>4. pc' = op.ret /\ op' = [op EXCEPT !.cluster = s[op.count + 1]]
      BY <1>3, <2>2 DEF AdvanceEnd, CLUSTER_INVALID
    <2>5. UNCHANGED <<cmap, fat, data, chain, tail, pre, faults>>
      BY <1>3 DEF AdvanceEnd, disk, history
    <2> QED BY <1>0, <1>1, <2>1, <2>3, <2>4, <2>5
  <1> QED BY <1>2, <1>3 DEF Advance

\* The steps that write the FAT or change what links a file.
LEMMA LinkSteps ==
  ASSUME TypeOK, [Next]_vars
  PROVE  \/ /\ UNCHANGED <<fat, chain>>
            /\ \A m \in Nodes : node'[m].is_contiguous = node[m].is_contiguous
         \/ GrowEmpty \/ GrowFat \/ GrowFatEnd \/ GrowLink \/ GrowEnd
         \/ ShrinkAll \/ ShrinkCrop \/ ShrinkFree
  <1> USE DEF disk, history
  <1>0. node \in [Nodes -> NodeType]
    BY DEF TypeOK
  <1>1. ASSUME NEW o, NEW count, NEW ret, CallAdvance(o, count, ret)
        PROVE  /\ UNCHANGED <<fat, chain>>
               /\ \A m \in Nodes : node'[m].is_contiguous = node[m].is_contiguous
    BY <1>0, <1>1 DEF CallAdvance, NodeType
  <1>2. CASE AdvanceLoop \/ AdvanceEnd
    <2>1. UNCHANGED <<fat, chain>>
      BY <1>2 DEF AdvanceLoop, AdvanceEnd
    <2>2. ASSUME NEW c, NEW i, NEW n,
                 \/ node' = [node EXCEPT ![n].fptr_cluster = c, ![n].fptr_index = i]
                 \/ node' = [node EXCEPT ![n].fptr_cluster = c]
                 \/ node' = [node EXCEPT ![n].fptr_index = i]
          PROVE  \A m \in Nodes : node'[m].is_contiguous = node[m].is_contiguous
      BY <1>0, <2>2 DEF NodeType
    <2> QED BY <1>2, <2>1, <2>2 DEF AdvanceLoop, AdvanceEnd
  <1>3. CASE Truncate \/ Grow \/ Shrink
    BY <1>1, <1>3 DEF Truncate, TruncateWithin, TruncateShrink, Grow, GrowStart,
       GrowAllocate, GrowNoSpace, Shrink, ShrinkStart, ShrinkInvalid, ShrinkEnd
  <1>4. CASE Erase
    <2>1. CASE Truncated
      BY <1>0, <2>1 DEF Truncated, NodeType
    <2> QED BY <1>1, <1>4, <2>1 DEF Erase, EraseStart, EraseFirst, EraseNext, EraseEnd
  <1>5. CASE Io
    <2>1. ASSUME NEW remainder, NEW loop, IoStart(remainder, loop)
          PROVE  /\ UNCHANGED <<fat, chain>>
                 /\ \A m \in Nodes : node'[m].is_contiguous = node[m].is_contiguous
      BY <1>1, <2>1 DEF IoStart
    <2>2. CASE IoEnd
      BY <1>0, <2>2 DEF IoEnd, NodeType
    <2> QED BY <1>5, <2>1, <2>2 DEF Io, WriteGap, WriteExtend, WriteStart, ReadStart,
         IoLoop, IoInvalid
  <1>6. CASE DeviceFails \/ AssertionFails \/ Done \/ Aborted \/ UNCHANGED vars
    BY <1>6 DEF DeviceFails, AssertionFails, Done, Aborted, vars
  <1>7. CASE Call
    BY <1>7 DEF Call, exfat_truncate, exfat_generic_pwrite, exfat_generic_pread, Begin
  <1> QED
    BY <1>2, <1>3, <1>4, <1>5, <1>6, <1>7 DEF Next, Step, Advance

\* FAT entries are written only for clusters of the file of the call, or for
\* those it is about to free.
LEMMA FatWrites ==
  ASSUME TypeOK, SaneInv, [Next]_vars, NEW c \in Clusters, fat'[c] # fat[c]
  PROVE  InSeq(c, chain[op.node]) \/ InSeq(c, tail)
  <1> DEFINE n == op.node
             s == chain[n]
  <1>1. CASE GrowLink \/ GrowEnd
    <2>1. /\ pc \in GrowLabels /\ n \in Nodes
      BY <1>1 DEF GrowLink, GrowEnd, GrowLabels, TypeOK
    <2>2. /\ s \in Seq(Clusters) /\ op.current + op.allocated \in Nat
          /\ fat \in [Clusters -> Word]
      BY <2>1, SMTT(30) DEF TypeOK, OpType
    <2>3. Len(s) > 0 /\ op.cluster = s[Len(s)]
      BY <2>1 DEF SaneInv, CallInv, GrowInv, HasClusters
    <2>4. c = op.cluster
      BY <1>1, <2>2 DEF GrowLink, GrowEnd, SetNext
    <2> QED BY <2>2, <2>3, <2>4 DEF InSeq
  <1>2. CASE GrowFat
    <2>1. pc = "growFat" /\ n \in Nodes /\ fat \in [Clusters -> Word] /\ c = op.i
      BY <1>2 DEF GrowFat, TypeOK
    <2>2. /\ s \in Seq(Clusters) /\ op.current + op.allocated \in Nat
          /\ Len(s) \in Nat /\ op.i \in Nat
      BY <2>1, SMTT(30) DEF TypeOK, OpType
    <2>3. /\ Len(s) > 0 /\ op.cluster = s[Len(s)] /\ node[n].is_contiguous
          /\ op.i \in s[1] .. op.cluster
      BY <2>1 DEF SaneInv, CallInv, GrowInv, HasClusters, GrowLabels
    <2>4. \A i \in 1 .. Len(s) : s[i] = s[1] + i - 1 /\ s[i] \in Nat
      BY <2>1, <2>2, <2>3, ElementOfSeq, ClusterNumbers
      DEF SaneInv, ChainInv, FileChain, LinkedSeq
    <2>5. 1 \in 1 .. Len(s) /\ Len(s) \in 1 .. Len(s)
      BY <2>2, <2>3
    <2>6. s[1] \in Nat /\ s[Len(s)] = s[1] + Len(s) - 1
      BY <2>4, <2>5
    <2> DEFINE k == op.i - s[1] + 1
    <2>7. k \in 1 .. Len(s) /\ s[1] + k - 1 = op.i
      BY <2>2, <2>3, <2>6, SMTT(30)
    <2> HIDE DEF k
    <2>8. s[k] = op.i
      BY <2>4, <2>7
    <2> QED BY <2>1, <2>7, <2>8 DEF InSeq
  <1>3. CASE ShrinkCrop
    <2>1. /\ pc = "shrinkCrop" /\ n \in Nodes /\ fat \in [Clusters -> Word]
          /\ op.current \in Nat /\ op.difference \in Nat
      BY <1>3 DEF ShrinkCrop, TypeOK, OpType
    <2>2. /\ Len(s) = op.current /\ op.difference < op.current
          /\ op.cluster = s[op.current - op.difference]
      BY <2>1 DEF SaneInv, CallInv, HasClusters
    <2>3. c = op.cluster
      BY <1>3, <2>1 DEF ShrinkCrop, SetNext
    <2>4. op.current - op.difference \in 1 .. Len(s)
      BY <2>1, <2>2
    <2> QED BY <2>2, <2>3, <2>4 DEF InSeq
  <1>4. CASE ShrinkFree
    <2>1. /\ pc = "shrinkFree" /\ n \in Nodes /\ fat \in [Clusters -> Word]
          /\ op.difference \in Nat /\ op.difference > 0 /\ op.cluster \in Clusters
      BY <1>4 DEF ShrinkFree, TypeOK, OpType, CLUSTER_INVALID
    <2>2. Len(tail) = op.difference /\ op.cluster = tail[1]
      BY <2>1 DEF SaneInv, CallInv
    <2>3. c = op.cluster
      BY <1>4, <2>1 DEF ShrinkFree, SetNext
    <2> QED BY <2>1, <2>2, <2>3 DEF InSeq
  <1>5. CASE GrowEmpty \/ GrowFatEnd \/ ShrinkAll
    BY <1>5 DEF GrowEmpty, GrowFatEnd, ShrinkAll, disk
  <1> QED BY <1>1, <1>2, <1>3, <1>4, <1>5, LinkSteps

\* The end of a chain stays marked: a step of a call that leaves links alone.
LEMMA EndKept ==
  ASSUME TypeOK, NEW n \in Nodes, Terminated(n), chain'[n] = chain[n],
         node'[n].is_contiguous = node[n].is_contiguous,
         \A i \in 1 .. Len(chain[n]) : fat'[chain[n][i]] = fat[chain[n][i]]
  PROVE  Terminated(n)'
  <1>1. chain[n] \in Seq(Clusters) /\ Len(chain[n]) \in Nat
    BY LenProperties DEF TypeOK
  <1> QED BY <1>1 DEF Terminated

\* grow_file() and shrink_file() mark the end of the chain they leave.
LEMMA EndsMarkedNext ==
  ASSUME TypeOK, SaneInv, EndsMarked, [Next]_vars PROVE EndsMarked'
  <1> SUFFICES ASSUME faults' = 0, NEW n \in Nodes, n # op'.node \/ ~OpenEnded'
               PROVE  Terminated(n)'
    BY DEF EndsMarked
  <1>0. /\ faults = 0 /\ chain[n] \in Seq(Clusters) /\ op \in OpType
        /\ node \in [Nodes -> NodeType] /\ fat \in [Clusters -> Word]
    BY FaultsGrow DEF TypeOK
  <1>1. ASSUME n # op.node \/ ~OpenEnded PROVE Terminated(n)
    BY <1>0, <1>1 DEF EndsMarked
  <1>2. CASE UNCHANGED vars
    BY <1>1, <1>2 DEF vars, disk, history, OpenEnded, Terminated
  <1>3. CASE Call \/ Done
    <2>1. pc \in {"idle", "done"} /\ UNCHANGED <<node, fat, chain>>
      BY <1>3 DEF Call, exfat_truncate, exfat_generic_pwrite, exfat_generic_pread,
         Begin, Done, disk
    <2>2. Terminated(n)
      BY <1>1, <2>1 DEF OpenEnded
    <2> QED BY <2>1, <2>2 DEF Terminated
  <1>4. CASE Step /\ ~Done
    <2>0. /\ op.node \in Nodes /\ op'.node = op.node
          /\ \A m \in Nodes \ {op.node} : node'[m] = node[m] /\ chain'[m] = chain[m]
      BY <1>4, CallSteps
    <2>1. CASE n # op.node
      <3>1. Terminated(n)
        BY <1>1, <2>1
      <3>2. ASSUME NEW i \in 1 .. Len(chain[n])
            PROVE  fat'[chain[n][i]] = fat[chain[n][i]]
        <4>1. ~InSeq(chain[n][i], chain[op.node]) /\ ~InSeq(chain[n][i], tail)
          BY <2>0, <2>1 DEF InSeq, SaneInv, OwnInv
        <4>2. chain[n][i] \in Clusters
          BY <1>0, ElementOfSeq
        <4> QED BY <4>1, <4>2, FatWrites
      <3> QED BY <2>0, <2>1, <3>1, <3>2, EndKept
    <2>2. CASE n = op.node
      <3>0. ~OpenEnded'
        BY <2>0, <2>2
      <3>1. ASSUME UNCHANGED <<fat, chain>>, ~OpenEnded,
                   \A m \in Nodes : node'[m].is_contiguous = node[m].is_contiguous
            PROVE  Terminated(n)'
        BY <1>1, <3>1, EndKept
      <3>2. CASE GrowEmpty
        <4>1. CASE UNCHANGED <<node, chain>>
          BY <3>1, <3>2, <4>1 DEF GrowEmpty, OpenEnded
        <4>2. CASE \E c \in Clusters :
                     node' = [node EXCEPT ![op.node].start_cluster = c,
                                          ![op.node].fptr_cluster = c,
                                          ![op.node].is_contiguous = TRUE]
          <5>1. node'[n].is_contiguous
            BY <1>0, <2>2, <4>2 DEF NodeType
          <5> QED BY <5>1 DEF Terminated
        <4> QED BY <3>2, <4>1, <4>2 DEF GrowEmpty
      <3>3. CASE GrowFat \/ GrowFatEnd \/ GrowLink
        <4>1. pc' \in {"growFat", "growLink"} \/ GrowLink
          BY <3>3 DEF GrowFat, GrowFatEnd, Goto
        <4>2. GrowLink => pc' = "growLoop" /\ op'.allocated = op.allocated + 1
                          /\ op.allocated \in Nat
          BY <1>0 DEF GrowLink, OpType
        <4> QED BY <3>0, <4>1, <4>2 DEF OpenEnded
      <3>4. CASE GrowEnd
        <4>1. /\ pc = "growLoop" /\ UNCHANGED <<node, chain>>
              /\ SetNext(n, op.cluster, EXFAT_CLUSTER_END)
              /\ op.cluster \in Clusters
          BY <2>2, <3>4 DEF GrowEnd, TypeOK, history
        <4>2. op.cluster = chain[n][Len(chain[n])]
          BY <2>2, <4>1 DEF SaneInv, CallInv, GrowLabels
        <4>3. CASE ~node[n].is_contiguous
          <5>1. fat'[op.cluster] = EXFAT_CLUSTER_END
            BY <1>0, <4>1, <4>3 DEF SetNext
          <5> QED BY <4>1, <4>2, <5>1 DEF Terminated
        <4>4. CASE node[n].is_contiguous
          BY <4>1, <4>4 DEF Terminated
        <4> QED BY <4>3, <4>4
      <3>5. CASE ShrinkAll
        <4>1. chain'[n] = <<>>
          BY <2>2, <3>5 DEF ShrinkAll, TypeOK
        <4> QED BY <4>1 DEF Terminated
      <3>6. CASE ShrinkCrop
        <4> DEFINE k == op.current - op.difference
                   d == op.difference
                   s == chain[n]
        <4>0. /\ pc = "shrinkCrop" /\ op.current \in Nat /\ d \in Nat
              /\ op.cluster \in Clusters
          BY <1>0, <3>6 DEF ShrinkCrop, TypeOK, OpType
        <4>1. Len(s) = op.current /\ d < op.current /\ op.cluster = s[k]
          BY <2>2, <4>0 DEF SaneInv, CallInv, HasClusters
        <4>2. k \in Nat /\ k > 0 /\ Len(s) = k + d /\ Lesser(k, Len(s)) = k
          BY <4>0, <4>1 DEF Lesser
        <4>3. chain'[n] = SubSeq(s, 1, k)
          BY <2>2, <3>6, <4>2 DEF ShrinkCrop, TypeOK
        <4>4. node'[n].is_contiguous = node[n].is_contiguous
          BY <1>0, <2>2, <3>6 DEF ShrinkCrop, NodeType
        <4>5. ~node[n].is_contiguous => fat'[op.cluster] = EXFAT_CLUSTER_END
          BY <1>0, <2>2, <3>6, <4>0 DEF ShrinkCrop, SetNext
        <4> HIDE DEF k, d
        <4>6. Len(chain'[n]) = k /\ \A i \in 1 .. k : chain'[n][i] = s[i]
          <5>1. s \in Seq(Clusters) /\ k \in Nat /\ d \in Nat /\ Len(s) = k + d
            BY <1>0, <4>0, <4>2
          <5> HIDE DEF s
          <5>2. /\ Len(SubSeq(s, 1, k)) = k
                /\ \A i \in 1 .. k : SubSeq(s, 1, k)[i] = s[i]
            BY <5>1, FirstPart
          <5> QED BY <4>3, <5>2
        <4>7. chain'[n][k] = s[k]
          BY <4>2, <4>6
        <4> QED BY <4>1, <4>4, <4>5, <4>6, <4>7 DEF Terminated
      <3>7. CASE ShrinkFree
        <4>1. /\ pc = "shrinkFree" /\ op.difference > 0 /\ op.difference \in Nat
              /\ UNCHANGED <<node, chain>>
              /\ SetNext(n, op.cluster, EXFAT_CLUSTER_FREE)
          BY <1>0, <2>2, <3>7 DEF ShrinkFree, OpType
        <4>2. op.cluster = tail[1] /\ Len(tail) = op.difference
          BY <1>0, <4>1, Freeing
        <4>3. ASSUME NEW i \in 1 .. Len(chain[n])
              PROVE  fat'[chain[n][i]] = fat[chain[n][i]]
          <5>1. chain[n][i] # tail[1]
            BY <4>1, <4>2 DEF SaneInv, OwnInv
          <5>2. chain[n][i] \in Clusters
            BY <1>0, ElementOfSeq
          <5> QED BY <1>0, <4>1, <4>2, <5>1, <5>2 DEF SetNext
        <4>4. Terminated(n)
          BY <1>1, <4>1 DEF OpenEnded
        <4> QED BY <4>1, <4>3, <4>4, EndKept
      <3>8. CASE Advance
        <4>1. UNCHANGED <<fat, chain>> /\ ~OpenEnded
          BY <1>0, <3>0, <3>8, AdvanceStep DEF OpenEnded, OpType
        <4> QED BY <3>1, <3>8, <4>1, AdvanceStep
      <3>9. CASE Truncate \/ GrowStart \/ Erase \/ Io \/ ShrinkInvalid \/ ShrinkEnd
        <4>1. ~OpenEnded
          BY <3>9 DEF Truncate, TruncateWithin, TruncateShrink, GrowStart, Erase,
             EraseStart, EraseFirst, EraseNext, EraseEnd, Io, WriteGap, WriteExtend,
             WriteStart, ReadStart, IoLoop, IoInvalid, IoEnd, ShrinkInvalid,
             ShrinkEnd, OpenEnded
        <4> QED BY <3>1, <3>2, <3>3, <3>4, <3>5, <3>6, <3>7, <4>1, LinkSteps
      <3>10. CASE GrowAllocate \/ AssertionFails \/ DeviceFails \/ ShrinkStart
        <4>1. \/ pc' \in {"growFat", "growLink", "bug"} \/ faults' = faults + 1
              \/ ShrinkStart
          BY <3>10 DEF GrowAllocate, AssertionFails, exfat_bug, DeviceFails
        <4>2. ShrinkStart => pc' = "advance" /\ op'.ret = "shrinkCrop"
          BY <1>0 DEF ShrinkStart, CallAdvance, OpType
        <4> QED BY <1>0, <3>0, <4>1, <4>2 DEF OpenEnded
      <3>11. CASE GrowNoSpace
        <4>1. CASE op.allocated = 0
          <5>1. ~OpenEnded
            BY <3>11, <4>1 DEF GrowNoSpace, OpenEnded
          <5>2. UNCHANGED <<fat, chain, node>>
            BY <3>11 DEF GrowNoSpace, disk, history
          <5> QED BY <3>1, <5>1, <5>2
        <4>2. CASE op.allocated # 0
          <5>1. pc' = "shrink"
            BY <3>11, <4>2 DEF GrowNoSpace
          <5> QED BY <3>0, <5>1 DEF OpenEnded
        <4> QED BY <4>1, <4>2
      <3> QED
        BY <1>4, <3>2, <3>3, <3>4, <3>5, <3>6, <3>7, <3>8, <3>9, <3>10, <3>11
        DEF Step, Grow, Shrink
    <2> QED BY <2>1, <2>2
  <1> QED BY <1>2, <1>3, <1>4 DEF Next, Aborted

-----------------------------------------------------------------------------
(* The loops of erase_range(), exfat_generic_pread() and                    *)
(* exfat_generic_pwrite()                                                   *)

\* A cluster that begins before the end of the file is one of its clusters.
LEMMA ClusterBefore ==
  ASSUME NEW k \in Nat, NEW size \in Nat, k * ClusterSize < size
  PROVE  k < bytes2clusters(size)
  <1> DEFINE d == ClusterSize
             q == (k * d) \div d
  <1>0. d \in Nat \ {0}
    BY ClusterAssumption
  <1> HIDE DEF d
  <1>1. k * d \in Nat
    BY <1>0
  <1>2. q \in Nat /\ d * q <= k * d /\ k * d < d * (q + 1)
    BY <1>0, <1>1
  <1>3. q < bytes2clusters(size)
    BY <1>1, ClusterOfByte DEF d
  <1> HIDE DEF q
  <1>4. ASSUME q >= k + 1 PROVE FALSE
    <2>1. d * q >= d * (k + 1)
      BY <1>0, <1>2, <1>4
    <2> QED BY <1>0, <1>2, <2>1
  <1>5. ASSUME k >= q + 1 PROVE FALSE
    <2>1. d * k >= d * (q + 1)
      BY <1>0, <1>2, <1>5
    <2> QED BY <1>0, <1>2, <2>1
  <1>6. q = k
    BY <1>2, <1>4, <1>5
  <1> QED BY <1>3, <1>6

\* The labels to which the other steps of a call lead.
LEMMA OtherLabels ==
  ASSUME TypeOK, Next, ~Advance, ~Erase, ~WriteStart, ~ReadStart, ~IoLoop, ~Aborted
  PROVE  /\ pc' \notin {"eraseFirst", "eraseLoop"} \cup IoLoops
         /\ pc' = "advance" => op'.ret \in {"growLoop", "shrinkCrop"}
         /\ pc' = "pread" => op'.kind = "pread" /\ op'.out = <<>>
         /\ pc' = "bug" => AssertionFails
  <1> USE DEF IoLoops
  <1>0. op \in OpType /\ op.then \in {"done", "pwriteExtend", "pwriteData"}
    BY DEF TypeOK, OpType
  <1>1. CASE Call
    BY <1>1 DEF Call, exfat_truncate, exfat_generic_pwrite, exfat_generic_pread,
       Begin, NoOp
  <1>2. CASE Truncate
    BY <1>0, <1>2 DEF Truncate, TruncateWithin, TruncateShrink, Return, Goto
  <1>3. CASE GrowStart
    <2>1. op.node \in Nodes
      BY <1>3 DEF GrowStart, TypeOK
    <2>2. GrowOp \in OpType
      BY <1>3, <2>1, GrowOpType DEF GrowStart
    <2> QED BY <1>3, <2>2 DEF GrowStart, CallAdvance, OpType
  <1>4. CASE GrowEmpty \/ GrowAllocate \/ GrowNoSpace \/ GrowFat \/ GrowFatEnd
             \/ GrowLink \/ GrowEnd
    BY <1>4 DEF GrowEmpty, GrowAllocate, GrowNoSpace, GrowFat, GrowFatEnd,
       GrowLink, GrowEnd, Return, Goto
  <1>5. CASE ShrinkStart
    BY <1>0, <1>5 DEF ShrinkStart, CallAdvance, OpType
  <1>6. CASE ShrinkAll \/ ShrinkCrop \/ ShrinkFree \/ ShrinkInvalid \/ ShrinkEnd
    BY <1>6 DEF ShrinkAll, ShrinkCrop, ShrinkFree, ShrinkInvalid, ShrinkEnd,
       Return, Goto
  <1>7. CASE WriteGap \/ WriteExtend \/ IoInvalid \/ IoEnd
    BY <1>7 DEF WriteGap, WriteExtend, SubTruncate, IoInvalid, IoEnd, Return, Goto
  <1>8. CASE DeviceFails \/ AssertionFails \/ Done
    BY <1>8 DEF DeviceFails, AssertionFails, Done, Return, exfat_bug
  <1> QED
    BY <1>1, <1>2, <1>3, <1>4, <1>5, <1>6, <1>7, <1>8
    DEF Next, Step, Grow, Shrink, Io

\* The end of exfat_truncate() leads back to its caller.
LEMMA TruncatedLabel ==
  ASSUME TypeOK, Truncated PROVE pc' \in {"done", "pwriteExtend", "pwriteData"}
  <1>1. op.then \in {"done", "pwriteExtend", "pwriteData"}
    BY DEF TypeOK, OpType
  <1> QED BY <1>1 DEF Truncated, Return

LEMMA EndClusterNat ==
  ASSUME TypeOK, op.node \in Nodes PROVE EndCluster \in Nat
  <1>1. node[op.node].size \in Nat
    BY DEF TypeOK, NodeType
  <1> QED BY <1>1, ClusterAssumption DEF EndCluster

\* erase_range() goes along the chain, one cluster at a time, and its
\* assertion does not fail while the device works.
LEMMA EraseNextStep ==
  ASSUME TypeOK, SaneInv, EraseAt, EraseNext
  PROVE  /\ faults = 0 /\ op.node \in Nodes
         /\ UNCHANGED <<node, cmap, fat, chain, tail, pre>>
         /\ \/ faults' # 0 /\ pc' = "bug" /\ UNCHANGED data
            \/ /\ faults' = 0 /\ pc' = "eraseLoop"
               /\ \E k \in 1 .. Len(chain[op.node]) - 1 :
                    /\ EndCluster < k
                    /\ op.boundary = k * ClusterSize
                    /\ op' = [op EXCEPT !.cluster = chain[op.node][k + 1],
                                        !.boundary = op.boundary + ClusterSize]
                    /\ Overwrite(chain[op.node][k + 1], Zeros(0, ClusterSize))
  <1> DEFINE n == op.node
             s == chain[n]
  <1>0. /\ pc = "eraseLoop" /\ n \in Nodes /\ op.size \in Nat /\ op.boundary < op.size
        /\ s \in Seq(Clusters) /\ Len(s) \in Nat
        /\ UNCHANGED <<node, cmap, fat, chain, tail, pre>>
    BY LenProperties DEF EraseNext, TypeOK, OpType
  <1>1. Len(s) = bytes2clusters(op.size) /\ faults = 0 /\ LinkedSeq(n, s)
    BY <1>0 DEF SaneInv, CallInv, HasClusters, TypeOK, ChainInv, FileChain
  <1>2. PICK k \in 1 .. Len(s) :
          EndCluster < k /\ op.cluster = s[k] /\ op.boundary = k * ClusterSize
    BY <1>0 DEF EraseAt
  <1>3. k < bytes2clusters(op.size)
    BY <1>0, <1>2, ClusterBefore
  <1>4. k \in 1 .. Len(s) - 1
    BY <1>0, <1>1, <1>3
  <1>5. PICK r \in NextCluster(n, s[k]) :
          /\ faults' = faults + r.fault
          /\ IF CLUSTER_INVALID(r.cluster)
             THEN exfat_bug("invalid cluster after allocation") /\ UNCHANGED data
             ELSE /\ Overwrite(r.cluster, Zeros(0, ClusterSize))
                  /\ op' = [op EXCEPT !.cluster = r.cluster,
                                      !.boundary = op.boundary + ClusterSize]
                  /\ UNCHANGED pc
    BY <1>2 DEF EraseNext
  <1>6. \/ r.fault = 1 /\ r.cluster \notin Clusters
        \/ r.fault = 0 /\ r.cluster = s[k + 1] /\ r.cluster \in Clusters
    <2>1. k + 1 \in 1 .. Len(s)
      BY <1>4
    <2>2. s[k + 1] \in Clusters
      BY <1>0, <2>1, ElementOfSeq
    <2>3. \/ r.fault = 1 /\ r.cluster \notin Clusters
          \/ r.fault = 0 /\ r.cluster = s[k + 1]
      BY <1>0, <1>1, <1>4, <1>5, NextOfLinked, ZenonT(30)
    <2> QED BY <2>2, <2>3
  <1>7. CASE r.fault = 1 /\ r.cluster \notin Clusters
    <2>1. faults' = 0 + 1
      BY <1>1, <1>5, <1>7
    <2>2. pc' = "bug" /\ UNCHANGED data
      BY <1>5, <1>7 DEF CLUSTER_INVALID, exfat_bug
    <2> QED BY <1>0, <1>1, <2>1, <2>2
  <1>8. CASE r.fault = 0 /\ r.cluster = s[k + 1] /\ r.cluster \in Clusters
    <2>1. faults' = 0 + 0
      BY <1>1, <1>5, <1>8
    <2>2. /\ Overwrite(s[k + 1], Zeros(0, ClusterSize))
          /\ op' = [op EXCEPT !.cluster = s[k + 1],
                              !.boundary = op.boundary + ClusterSize]
          /\ pc' = "eraseLoop"
      BY <1>0, <1>5, <1>8 DEF CLUSTER_INVALID
    <2>3. \E j \in 1 .. Len(s) - 1 :
            /\ EndCluster < j
            /\ op.boundary = j * ClusterSize
            /\ op' = [op EXCEPT !.cluster = s[j + 1],
                                !.boundary = op.boundary + ClusterSize]
            /\ Overwrite(s[j + 1], Zeros(0, ClusterSize))
      BY <1>2, <1>4, <2>2, Zenon
    <2>4. faults' = 0
      BY <2>1
    <2> QED BY <1>0, <1>1, <2>2, <2>3, <2>4, Zenon
  <1> QED BY <1>6, <1>7, <1>8

\* erase_range() stays at the cluster that ends at op.boundary.
LEMMA EraseAtNext ==
  ASSUME TypeOK, SaneInv, EraseAt, [Next]_vars PROVE EraseAt'
  <1> DEFINE n == op.node
             s == chain[n]
  <1>0. op \in OpType /\ node \in [Nodes -> NodeType]
    BY DEF TypeOK
  <1>1. CASE UNCHANGED vars
    BY <1>1 DEF vars, disk, history, EraseAt, EndCluster
  <1>2. CASE Advance
    <2>1. /\ pc = "advance" /\ op.node \in Nodes /\ UNCHANGED chain
          /\ node'[n].size = node[n].size
      BY <1>2, AdvanceStep
    <2>2. CASE faults' # 0 /\ Return("EIO")
      BY <2>2 DEF Return, EraseAt
    <2>3. CASE pc' = "advance" /\ op' = [op EXCEPT !.i = op.i + 1]
      <3>1. /\ op'.node = op.node /\ op'.ret = op.ret /\ op'.count = op.count
            /\ op'.boundary = op.boundary
        BY <1>0, <2>3 DEF OpType
      <3> QED BY <2>1, <2>3, <3>1 DEF EraseAt, EndCluster
    <2>4. CASE /\ pc' = op.ret /\ op.count + 1 \in 1 .. Len(s)
               /\ op' = [op EXCEPT !.cluster = s[op.count + 1]]
      <3>1. /\ op'.node = op.node /\ op'.boundary = op.boundary
            /\ op'.cluster = s[op.count + 1] /\ op.count \in Nat
            /\ pc' \notin {"advance", "eraseLoop"}
        BY <1>0, <2>4 DEF OpType
      <3>2. CASE op.ret = "eraseFirst"
        <4>1. op.count = EndCluster /\ op.boundary = (EndCluster + 1) * ClusterSize
          BY <2>1, <3>2 DEF EraseAt
        <4>2. EndCluster' = EndCluster
          BY <2>1, <3>1 DEF EndCluster
        <4>3. EndCluster < Len(s)
          BY <2>4, <3>1, <4>1
        <4> QED BY <2>1, <3>1, <4>1, <4>2, <4>3 DEF EraseAt
      <3>3. CASE op.ret # "eraseFirst"
        BY <2>4, <3>1, <3>3 DEF EraseAt
      <3> QED BY <3>2, <3>3
    <2> QED BY <1>2, <2>2, <2>3, <2>4, AdvanceStep
  <1>3. CASE Truncated
    BY <1>3, TruncatedLabel DEF EraseAt
  <1>4. CASE EraseStart /\ ~Truncated
    <2> DEFINE o == [op EXCEPT !.boundary = (EndCluster + 1) * ClusterSize]
    <2>1. CallAdvance(o, EndCluster, "eraseFirst") /\ n \in Nodes
      BY <1>4 DEF EraseStart, EndCluster, TypeOK
    <2>2. o.boundary = (EndCluster + 1) * ClusterSize /\ o.node = n
      BY <1>0 DEF OpType
    <2>3. node'[n].size = node[n].size
      BY <1>0, <2>1 DEF CallAdvance, NodeType
    <2>4. /\ pc' = "advance" /\ op'.node = o.node /\ op'.boundary = o.boundary
          /\ op'.count = EndCluster
      BY <1>0, <2>1 DEF CallAdvance, OpType
    <2> HIDE DEF o
    <2>5. EndCluster' = EndCluster
      BY <2>2, <2>3, <2>4 DEF EndCluster
    <2> QED BY <2>2, <2>4, <2>5 DEF EraseAt
  <1>5. CASE EraseFirst
    <2>1. /\ pc = "eraseFirst" /\ pc' = "eraseLoop" /\ n \in Nodes
          /\ UNCHANGED <<op, node, chain>>
      BY <1>5 DEF EraseFirst, Goto, TypeOK, history
    <2>2. /\ EndCluster < Len(s) /\ op.cluster = s[EndCluster + 1]
          /\ op.boundary = (EndCluster + 1) * ClusterSize
      BY <2>1 DEF EraseAt
    <2>3. EndCluster \in Nat /\ Len(s) \in Nat
      <3>1. s \in Seq(Clusters)
        BY <2>1 DEF TypeOK
      <3> QED BY <2>1, <3>1, EndClusterNat, LenProperties
    <2>4. EndCluster + 1 \in 1 .. Len(s) /\ EndCluster < EndCluster + 1
      BY <2>2, <2>3
    <2>5. EndCluster' = EndCluster
      BY <2>1 DEF EndCluster
    <2> QED BY <2>1, <2>2, <2>4, <2>5 DEF EraseAt
  <1>6. CASE EraseNext
    <2>1. op.node \in Nodes /\ UNCHANGED <<node, chain>>
      BY <1>6, EraseNextStep
    <2>2. CASE pc' = "bug"
      BY <2>2 DEF EraseAt
    <2>3. CASE pc' = "eraseLoop"
      <3>1. PICK k \in 1 .. Len(s) - 1 :
              /\ EndCluster < k /\ op.boundary = k * ClusterSize
              /\ op' = [op EXCEPT !.cluster = s[k + 1],
                                  !.boundary = op.boundary + ClusterSize]
        BY <1>6, <2>3, EraseNextStep
      <3>2. /\ op'.node = op.node /\ op'.cluster = s[k + 1]
            /\ op'.boundary = op.boundary + ClusterSize
        BY <1>0, <3>1 DEF OpType
      <3>3. k \in Nat /\ EndCluster \in Nat /\ Len(s) \in Nat
        <4>1. s \in Seq(Clusters)
          BY <2>1 DEF TypeOK
        <4> QED BY <2>1, <3>1, <4>1, EndClusterNat, LenProperties
      <3>4. op'.boundary = (k + 1) * ClusterSize
        BY <3>1, <3>2, <3>3, ClusterAssumption
      <3>5. k + 1 \in 1 .. Len(s) /\ EndCluster < k + 1
        BY <3>1, <3>3
      <3>6. EndCluster' = EndCluster
        BY <2>1, <3>2 DEF EndCluster
      <3> QED BY <2>1, <2>3, <3>2, <3>4, <3>5, <3>6 DEF EraseAt
    <2> QED BY <1>6, <2>2, <2>3, EraseNextStep
  <1>7. CASE WriteStart \/ ReadStart \/ IoLoop
    <2>1. ASSUME NEW remainder, NEW loop \in IoLoops, IoStart(remainder, loop)
          PROVE  \/ pc' = "done"
                 \/ pc' = "advance" /\ op'.ret \in IoLoops
      BY <1>0, <2>1 DEF IoStart, Return, CallAdvance, OpType
    <2>2. \/ pc' \in {"done", "pwriteLoop", "preadLoop"}
          \/ pc' = "advance" /\ op'.ret \in IoLoops
      BY <1>7, <2>1 DEF WriteStart, ReadStart, IoLoop, IoLoops
    <2> QED BY <2>2 DEF EraseAt, IoLoops
  <1>8. CASE Next /\ ~Advance /\ ~Erase /\ ~WriteStart /\ ~ReadStart /\ ~IoLoop /\ ~Aborted
    BY <1>8, OtherLabels DEF EraseAt
  <1> QED
    BY <1>1, <1>2, <1>3, <1>4, <1>5, <1>6, <1>7, <1>8 DEF Aborted, Erase, EraseEnd

\* The assertions of cluster.c hold while the device works.
LEMMA NoAbortNext ==
  ASSUME TypeOK, SaneInv, EraseAt, NoAbort, [Next]_vars PROVE NoAbort'
  <1> SUFFICES ASSUME faults' = 0, pc' = "bug" PROVE FALSE
    BY DEF NoAbort
  <1> DEFINE n == op.node
             s == chain[n]
  <1>0. faults = 0 /\ pc # "bug" /\ op \in OpType
    BY FaultsGrow DEF NoAbort, TypeOK
  <1>1. CASE UNCHANGED vars \/ Aborted
    BY <1>0, <1>1 DEF vars, Aborted
  <1>2. CASE Advance
    BY <1>0, <1>2, AdvanceStep DEF Return, OpType
  <1>3. CASE Erase
    BY <1>3, TruncatedLabel, EraseNextStep
    DEF Erase, EraseStart, EraseFirst, EraseEnd, CallAdvance, Goto
  <1>4. CASE WriteStart \/ ReadStart \/ IoLoop
    BY <1>0, <1>4 DEF WriteStart, ReadStart, IoStart, IoLoop, Return, CallAdvance
  <1>5. CASE AssertionFails
    <2>0. pc \in {"advance", "truncate", "shrink"}
      BY <1>5 DEF AssertionFails, BadCluster, BadPointer
    <2>1. n \in Nodes /\ s \in Seq(Clusters) /\ Len(s) \in Nat
      BY <2>0, LenProperties DEF TypeOK
    <2>2. CASE BadCluster
      <3>1. pc = "advance" /\ node[n].fptr_cluster < 2 /\ op.i \in Nat /\ op.count \in Nat
        BY <1>0, <2>2 DEF BadCluster, OpType
      <3>2. op.i <= op.count /\ op.count < Len(s) /\ CursorAt(n, op.i)
        BY <3>1 DEF SaneInv, CallInv
      <3>3. op.i + 1 \in 1 .. Len(s) /\ Len(s) # 0
        BY <2>1, <3>1, <3>2
      <3>4. node[n].fptr_cluster = s[op.i + 1]
        BY <3>2, <3>3 DEF CursorAt
      <3>5. s[op.i + 1] \in Clusters
        BY <2>1, <3>3, ElementOfSeq
      <3> QED BY <3>1, <3>4, <3>5 DEF Clusters
    <2>3. ASSUME Len(s) > 0 PROVE node[n].start_cluster # EXFAT_CLUSTER_FREE
      <3>1. s[1] \in Clusters
        BY <2>1, <2>3, ElementOfSeq
      <3> QED BY <2>1, <2>3, <3>1, ClusterNumbers DEF SaneInv, ChainInv, FileChain
    <2>4. CASE BadPointer
      <3>1. /\ pc = "truncate" /\ node[n].start_cluster = EXFAT_CLUSTER_FREE
            /\ node[n].fptr_index # 0
        BY <2>4 DEF BadPointer
      <3>2. CursorAt(n, node[n].fptr_index)
        BY <1>0, <2>1, <3>1 DEF SaneInv, FilesInv, SettledFile, QuietLabels
      <3>3. Len(s) = 0
        BY <2>1, <2>3, <3>1
      <3> QED BY <3>1, <3>2, <3>3 DEF CursorAt
    <2>5. CASE pc = "shrink" /\ BadShrink
      <3>1. /\ Len(s) = op.current /\ 0 < op.difference /\ op.difference <= op.current
            /\ op.current \in Nat /\ op.difference \in Nat
        BY <1>0, <2>5 DEF SaneInv, CallInv, HasClusters, OpType
      <3> QED BY <2>3, <2>5, <3>1 DEF BadShrink
    <2> QED BY <1>5, <2>2, <2>4, <2>5 DEF AssertionFails
  <1> QED
    BY <1>1, <1>2, <1>3, <1>4, <1>5, OtherLabels

\* The place of a read or write depends on these fields only.
LEMMA SamePosition ==
  ASSUME op'.kind = op.kind, op'.off = op.off, op'.len = op.len,
         op'.remainder = op.remainder, op'.out = op.out
  PROVE  Position' = Position
BY DEF Position

LEMMA DivMod ==
  ASSUME NEW d \in Nat \ {0}, NEW a \in Nat PROVE a = (a \div d) * d + (a % d)
  <1>1. a = d * (a \div d) + (a % d)
    OBVIOUS
  <1>2. a \div d \in Nat
    OBVIOUS
  <1> DEFINE q == a \div d
  <1> HIDE DEF q
  <1>3. d * q = q * d
    BY <1>2 DEF q
  <1> QED BY <1>1, <1>3 DEF q

\* The read or write loop is entered at the byte op.off.
LEMMA IoStartAt ==
  ASSUME TypeOK, SaneInv, op.node \in Nodes, NEW remainder \in Nat,
         NEW loop \in IoLoops, IoStart(remainder, loop),
         IF op.kind = "pwrite" THEN remainder = op.len ELSE op.out = <<>>,
         remainder # 0 => op.off + remainder <= node[op.node].size
  PROVE  IoAt'
  <1> DEFINE n == op.node
  <1>0. /\ op \in OpType /\ node \in [Nodes -> NodeType] /\ op.off \in Nat
        /\ op.len \in Nat
    BY DEF TypeOK, OpType
  <1>1. CASE remainder = 0
    BY <1>1 DEF IoStart, Return, IoAt, IoLoops
  <1>2. CASE remainder # 0
    <2>1. /\ pc' = "advance" /\ op'.node = n /\ op'.kind = op.kind /\ op'.off = op.off
          /\ op'.len = op.len /\ op'.remainder = remainder /\ op'.out = op.out
          /\ op'.loffset = op.off % ClusterSize
          /\ op'.count = op.off \div ClusterSize
      BY <1>0, <1>2, ZenonT(30) DEF IoStart, CallAdvance, OpType
    <2>2. node'[n].size = node[n].size
      <3>1. CallAdvance([op EXCEPT !.loffset = op.off % ClusterSize,
                                   !.remainder = remainder],
                        op.off \div ClusterSize, loop)
        BY <1>2 DEF IoStart
      <3> QED BY <1>0, <3>1 DEF CallAdvance, NodeType
    <2>3. Position' = op.off
      <3>1. CASE op.kind = "pwrite"
        BY <1>0, <2>1, <3>1 DEF Position
      <3>2. CASE op.kind # "pwrite"
        BY <1>0, <2>1, <3>2 DEF Position
      <3> QED BY <3>1, <3>2
    <2>4. op.off = (op.off \div ClusterSize) * ClusterSize + (op.off % ClusterSize)
      BY <1>0, DivMod, ClusterAssumption
    <2>5. Position' = op'.count * ClusterSize + op'.loffset
      BY <2>1, <2>3, <2>4, Zenon
    <2>6. Position' + op'.remainder <= node'[op'.node].size
      <3>1. op.off + remainder <= node[n].size
        BY <1>2
      <3> QED BY <2>1, <2>2, <2>3, <3>1, Zenon
    <2> QED BY <2>1, <2>5, <2>6 DEF IoAt, IoLoops
  <1> QED BY <1>1, <1>2

\* The rest of a cluster leads to the next one.
LEMMA RestOf ==
  ASSUME NEW a \in Nat, NEW b \in Nat, NEW l \in Nat
  PROVE  (a + l) + (b - l) = a + b
  OBVIOUS

\* One round of the read or write loop: the rest of the cluster, or of the
\* bytes asked for.
LEMMA IoLoopAt ==
  ASSUME TypeOK, SaneInv, IoAt, IoLoop PROVE IoAt'
  <1> DEFINE n == op.node
             s == chain[n]
  <1>0. /\ pc \in IoLoops /\ pc' = pc /\ n \in Nodes /\ op \in OpType
        /\ UNCHANGED <<node, fat, chain>> /\ op.cluster \in Clusters
        /\ op.remainder \in Nat /\ op.remainder > 0 /\ op.loffset \in 0 .. ClusterSize - 1
        /\ s \in Seq(Clusters) /\ Len(s) \in Nat /\ op.off \in Nat /\ op.len \in Nat
        /\ op.out \in Seq(Cells) /\ Len(op.out) \in Nat /\ faults \in Nat
        /\ op.remainder <= op.len /\ node[n].size \in Nat
    BY LenProperties, SMTT(30) DEF IoLoop, IoLoops, TypeOK, OpType, NodeType, CLUSTER_INVALID
  <1>1. /\ faults = 0 /\ Position + op.remainder <= node[n].size
        /\ \E j \in 1 .. Len(s) : /\ op.cluster = s[j]
                                  /\ Position = (j - 1) * ClusterSize + op.loffset
    BY <1>0 DEF IoAt
  <1>2. PICK k \in 1 .. Len(s) :
          op.cluster = s[k] /\ Position = (k - 1) * ClusterSize + op.loffset
    BY <1>1
  <1>3. Chunk \in Nat /\ Chunk <= op.remainder
        /\ (Chunk # op.remainder => Chunk = ClusterSize - op.loffset)
        /\ Chunk + op.loffset <= ClusterSize
    BY <1>0, ClusterAssumption, SMTT(30) DEF Chunk, Lesser
  <1> DEFINE more == [j \in 1 .. Chunk |-> data[op.cluster][op.loffset + j - 1]]
  <1>4. PICK r \in NextCluster(n, s[k]) :
          /\ faults' = faults + r.fault
          /\ op' = [op EXCEPT !.cluster = r.cluster, !.loffset = 0,
                              !.remainder = op.remainder - Chunk,
                              !.out = IF pc = "pwriteLoop" THEN op.out
                                      ELSE op.out \o more]
    BY <1>2 DEF IoLoop
  <1>5. /\ op'.node = n /\ op'.kind = op.kind /\ op'.off = op.off /\ op'.len = op.len
        /\ op'.cluster = r.cluster /\ op'.loffset = 0
        /\ op'.remainder = op.remainder - Chunk
        /\ op'.out = IF pc = "pwriteLoop" THEN op.out ELSE op.out \o more
    BY <1>0, <1>4 DEF OpType
  <1>6. Position' = Position + Chunk
    <2>1. CASE op.kind = "pwrite"
      <3>1. /\ Position = op.off + op.len - op.remainder
            /\ Position' = op.off + op.len - (op.remainder - Chunk)
        BY <1>5, <2>1, Zenon DEF Position
      <3>2. op.off \in Nat /\ op.len \in Nat /\ op.remainder \in Nat /\ Chunk \in Nat
        BY <1>0, <1>3
      <3> QED BY <3>1, <3>2, SMTT(30)
    <2>2. CASE op.kind # "pwrite"
      <3>1. pc = "preadLoop"
        BY <1>0, <2>2 DEF TypeOK, IoLoops, WriteLabels
      <3>2. ASSUME NEW j \in 1 .. Chunk
            PROVE  data[op.cluster][op.loffset + j - 1] \in Cells
        <4>0. op.loffset \in Nat /\ ClusterSize \in Nat /\ Chunk \in Nat
          BY <1>0, <1>3, ClusterAssumption
        <4>1. op.loffset + j - 1 \in 0 .. ClusterSize - 1
          BY <1>3, <4>0
        <4> QED BY <1>0, <4>1 DEF TypeOK
      <3>3. more \in Seq(Cells) /\ Len(more) = Chunk
        BY <1>3, <3>2, IsASeq, LenProperties
      <3> HIDE DEF more
      <3>4. Len(op.out \o more) = Len(op.out) + Chunk
        BY <1>0, <3>3, ConcatProperties
      <3>5. Position = op.off + Len(op.out) /\ Position' = op.off + (Len(op.out) + Chunk)
        BY <1>5, <2>2, <3>1, <3>4, Zenon DEF Position
      <3> QED BY <1>0, <1>3, <3>5
    <2> QED BY <2>1, <2>2
  <1>7. Position \in Nat
    <2>1. (k - 1) * ClusterSize \in Nat
      BY <1>2, ClusterAssumption
    <2> QED BY <1>0, <1>2, <2>1
  <1>8. Position' + op'.remainder <= node[n].size
    BY <1>0, <1>1, <1>3, <1>5, <1>6, <1>7
  <1>9. ASSUME op'.remainder > 0
        PROVE  IF faults' # 0 THEN op'.cluster \notin Clusters
               ELSE \E j \in 1 .. Len(s) :
                      /\ op'.cluster = s[j]
                      /\ Position' = (j - 1) * ClusterSize + op'.loffset
    <2>1. Chunk = ClusterSize - op.loffset
      BY <1>0, <1>3, <1>5, <1>9
    <2>2. Position' = k * ClusterSize
      <3> DEFINE p == (k - 1) * ClusterSize
      <3>1. p \in Nat /\ k * ClusterSize = p + ClusterSize
        BY <1>2, ClusterAssumption
      <3>2. Position' = (p + op.loffset) + (ClusterSize - op.loffset)
        BY <1>2, <1>6, <2>1
      <3>3. op.loffset \in Nat /\ ClusterSize \in Nat
        BY <1>0, ClusterAssumption
      <3> HIDE DEF p
      <3>4. (p + op.loffset) + (ClusterSize - op.loffset) = p + ClusterSize
        BY <3>1, <3>3, RestOf
      <3> QED BY <3>1, <3>2, <3>4, Zenon
    <2>3. k * ClusterSize < node[n].size
      BY <1>0, <1>3, <1>5, <1>6, <1>7, <1>8, <1>9, <2>2, SMTT(30)
    <2>4. k < bytes2clusters(node[n].size)
      BY <1>0, <1>2, <2>3, ClusterBefore
    <2>5. Len(s) = bytes2clusters(node[n].size) /\ LinkedSeq(n, s)
      BY <1>0, <1>1 DEF SaneInv, FilesInv, SettledFile, HasClusters, QuietLabels,
         IoLoops, ChainInv, FileChain
    <2>6. k \in 1 .. Len(s) - 1 /\ k + 1 \in 1 .. Len(s) /\ (k + 1) - 1 = k
      BY <1>0, <1>2, <2>4, <2>5, SMTT(30)
    <2>7. \/ r.fault = 1 /\ r.cluster \notin Clusters
          \/ r.fault = 0 /\ r.cluster = s[k + 1]
      BY <1>0, <1>4, <2>5, <2>6, NextOfLinked
    <2>8. CASE r.fault = 1 /\ r.cluster \notin Clusters
      <3>1. faults' = 0 + 1
        BY <1>1, <1>4, <2>8
      <3> QED BY <1>5, <2>8, <3>1
    <2>9. CASE r.fault = 0 /\ r.cluster = s[k + 1]
      <3>1. faults' = 0 + 0
        BY <1>1, <1>4, <2>9
      <3>2. faults' = 0
        BY <3>1
      <3>3. k * ClusterSize = k * ClusterSize + 0
        BY <1>2, ClusterAssumption
      <3> QED BY <1>5, <2>2, <2>6, <2>9, <3>2, <3>3
    <2> QED BY <2>7, <2>8, <2>9
  <1> QED BY <1>0, <1>5, <1>8, <1>9 DEF IoAt, IoLoops

\* exfat_generic_pread() and exfat_generic_pwrite() stay inside the file, at
\* the cluster that holds the byte they have come to.
LEMMA IoAtNext ==
  ASSUME TypeOK, SaneInv, IoAt, [Next]_vars PROVE IoAt'
  <1> DEFINE n == op.node
             s == chain[n]
  <1>0. op \in OpType
    BY DEF TypeOK
  <1>1. CASE UNCHANGED vars
    BY <1>1 DEF vars, disk, history, IoAt, Position
  <1>2. CASE Advance
    <2>1. /\ pc = "advance" /\ op.node \in Nodes /\ UNCHANGED chain
          /\ node'[n].size = node[n].size
      BY <1>2, AdvanceStep
    <2>2. CASE faults' # 0 /\ Return("EIO")
      BY <2>2 DEF Return, IoAt, IoLoops
    <2>3. CASE pc' = "advance" /\ op' = [op EXCEPT !.i = op.i + 1]
      <3>1. /\ op'.node = op.node /\ op'.ret = op.ret /\ op'.count = op.count
            /\ op'.kind = op.kind /\ op'.off = op.off /\ op'.len = op.len
            /\ op'.remainder = op.remainder /\ op'.out = op.out
            /\ op'.loffset = op.loffset
        BY <1>0, <2>3 DEF OpType
      <3>2. Position' = Position
        BY <3>1, SamePosition
      <3> QED BY <2>1, <2>3, <3>1, <3>2 DEF IoAt, IoLoops
    <2>4. CASE /\ faults' = 0 /\ pc' = op.ret /\ op.count + 1 \in 1 .. Len(s)
               /\ op' = [op EXCEPT !.cluster = s[op.count + 1]]
      <3>1. /\ op'.node = op.node /\ op'.cluster = s[op.count + 1] /\ op.count \in Nat
            /\ op'.kind = op.kind /\ op'.off = op.off /\ op'.len = op.len
            /\ op'.remainder = op.remainder /\ op'.out = op.out
            /\ op'.loffset = op.loffset
            /\ pc' \notin {"advance", "pread"}
        BY <1>0, <2>4 DEF OpType
      <3>2. Position' = Position
        BY <3>1, SamePosition
      <3>3. CASE op.ret \in IoLoops
        <4>1. /\ Position + op.remainder <= node[n].size
              /\ Position = op.count * ClusterSize + op.loffset
          BY <2>1, <3>3 DEF IoAt
        <4>2. (op.count + 1) - 1 = op.count
          BY <3>1
        <4>3. \E k \in 1 .. Len(s) : /\ op'.cluster = s[k]
                                     /\ Position' = (k - 1) * ClusterSize + op'.loffset
          BY <2>4, <3>1, <3>2, <4>1, <4>2
        <4> QED BY <2>1, <2>4, <3>1, <3>2, <4>1, <4>3 DEF IoAt
      <3>4. CASE op.ret \notin IoLoops
        BY <2>4, <3>1, <3>4 DEF IoAt
      <3> QED BY <3>3, <3>4
    <2> QED BY <1>2, <2>2, <2>3, <2>4, AdvanceStep
  <1>3. CASE WriteStart
    <2>1. /\ pc = "pwriteData" /\ n \in Nodes /\ op.kind = "pwrite" /\ op.len \in Nat
          /\ IoStart(op.len, "pwriteLoop")
      BY <1>3 DEF WriteStart, TypeOK, WriteLabels, OpType
    <2>2. op.off + op.len <= node[n].size
      BY <2>1 DEF SaneInv, CallInv
    <2> QED BY <2>1, <2>2, IoStartAt DEF IoLoops
  <1>4. CASE ReadStart
    <2> DEFINE size == node[n].size
               rest == IF op.off >= size THEN 0 ELSE Lesser(op.len, size - op.off)
    <2>1. /\ pc = "pread" /\ n \in Nodes /\ op.off \in Nat /\ op.len \in Nat
          /\ size \in Nat
      BY <1>4 DEF ReadStart, TypeOK, OpType, NodeType
    <2>2. IoStart(rest, "preadLoop")
      BY <1>4 DEF ReadStart
    <2>3. rest \in Nat /\ (rest # 0 => op.off + rest <= size)
      BY <2>1 DEF Lesser
    <2>4. op.kind = "pread" /\ op.out = <<>>
      BY <2>1 DEF IoAt
    <2> HIDE DEF rest
    <2> QED BY <2>1, <2>2, <2>3, <2>4, IoStartAt DEF IoLoops
  <1>5. CASE IoLoop
    BY <1>5, IoLoopAt
  <1>6. CASE Truncated
    BY <1>6, TruncatedLabel DEF IoAt, IoLoops
  <1>7. CASE Erase /\ ~Truncated
    <2>1. \/ pc' \in {"eraseLoop", "bug"}
          \/ pc' = "advance" /\ op'.ret = "eraseFirst"
      <3>1. CASE EraseStart
        BY <1>0, <1>7, <3>1 DEF EraseStart, CallAdvance, Goto, exfat_bug, OpType
      <3>2. CASE EraseFirst
        BY <1>0, <1>7, <3>2 DEF EraseFirst, Goto, exfat_bug, OpType
      <3>3. CASE EraseNext
        BY <1>0, <1>7, <3>3 DEF EraseNext, Goto, exfat_bug, OpType
      <3>4. CASE EraseEnd
        BY <1>0, <1>7, <3>4 DEF EraseEnd, Goto, exfat_bug, OpType
      <3> QED BY <1>7, <3>1, <3>2, <3>3, <3>4 DEF Erase
    <2> QED BY <2>1 DEF IoAt, IoLoops
  <1>8. CASE Next /\ ~Advance /\ ~Erase /\ ~WriteStart /\ ~ReadStart /\ ~IoLoop /\ ~Aborted
    BY <1>8, OtherLabels DEF IoAt, IoLoops
  <1> QED
    BY <1>1, <1>2, <1>3, <1>4, <1>5, <1>6, <1>7, <1>8 DEF Aborted

=============================================================================
