------------------------ MODULE FileClustersContent -------------------------
(***************************************************************************)
(* What the clusters of a file hold while a call is executed, and with it  *)
(* the refinement: the calls of cluster.c and io.c implement files of      *)
(* bytes, for every volume and every sequence of calls.                    *)
(***************************************************************************)
EXTENDS FileClustersGrowth, ClusterContent, FiniteSetTheorems

-----------------------------------------------------------------------------
(* The arguments of a call and of exfat_truncate() *)

\* The step leaves the arguments of the call and of exfat_truncate() alone;
\* only the loop of a read adds to what the call returns.
SameArguments ==
  /\ op'.off = op.off /\ op'.buf = op.buf /\ op'.len = op.len
  /\ op'.size = op.size /\ op'.then = op.then /\ op'.erase = op.erase
  /\ op'.out = op.out \/ pc = "preadLoop"

LEMMA ReturnArguments ==
  ASSUME TypeOK, NEW rc, Return(rc)
  PROVE  SameArguments /\ pc' = "done" /\ op'.remainder = op.remainder /\ op'.out = op.out
  <1>1. op \in OpType
    BY DEF TypeOK
  <1> QED BY <1>1 DEF Return, OpType, SameArguments

LEMMA AdvanceArguments ==
  ASSUME TypeOK, NEW o \in OpType, NEW count, NEW ret, CallAdvance(o, count, ret),
         o.off = op.off, o.buf = op.buf, o.len = op.len, o.size = op.size,
         o.then = op.then, o.erase = op.erase, o.out = op.out
  PROVE  /\ SameArguments /\ pc' = "advance" /\ op'.ret = ret
         /\ op'.remainder = o.remainder /\ op'.out = o.out
         /\ op'.rollback = o.rollback
  <1>1. op' = [o EXCEPT !.count = count, !.ret = ret,
                        !.i = IF node[op.node].fptr_index > count THEN 0
                              ELSE node[op.node].fptr_index]
        /\ pc' = "advance"
    BY DEF CallAdvance
  <1> QED BY <1>1 DEF OpType, SameArguments

\* grow_file() and shrink_file() stay within exfat_truncate().
LEMMA GrowArguments ==
  ASSUME TypeOK, Grow
  PROVE  SameArguments /\ Truncating /\ (Truncating' \/ pc' = "done")
  <1> USE DEF SameArguments, Truncating, IoLoops
  <1>0. op \in OpType
    BY DEF TypeOK
  <1>a. op.node \in Nodes
    <2>1. pc # "idle"
      BY DEF Grow, GrowStart, GrowEmpty, GrowAllocate, GrowNoSpace, GrowFat,
         GrowFatEnd, GrowLink, GrowEnd
    <2> QED BY <2>1 DEF TypeOK
  <1>1. ASSUME Current < Target
        PROVE  /\ GrowOp \in OpType /\ GrowOp.off = op.off /\ GrowOp.buf = op.buf
               /\ GrowOp.len = op.len /\ GrowOp.size = op.size
               /\ GrowOp.then = op.then /\ GrowOp.erase = op.erase /\ GrowOp.out = op.out
    <2>1. GrowOp \in OpType
      BY <1>a, <1>1, GrowOpType
    <2> QED BY <1>0, <2>1 DEF GrowOp, OpType
  <1>2. CASE GrowStart
    BY <1>1, <1>2, AdvanceArguments DEF GrowStart
  <1>3. CASE GrowEmpty
    <2>1. CASE Return("ENOSPC")
      BY <1>3, <2>1, ReturnArguments DEF GrowEmpty
    <2>2. ASSUME NEW c \in Clusters, op' = [GrowOp EXCEPT !.cluster = c, !.allocated = 1],
                 pc' = "growLoop"
          PROVE  SameArguments /\ Truncating /\ Truncating'
      <3>1. GrowOp \in OpType /\ GrowOp.off = op.off /\ GrowOp.buf = op.buf
            /\ GrowOp.len = op.len /\ GrowOp.size = op.size
            /\ GrowOp.then = op.then /\ GrowOp.erase = op.erase /\ GrowOp.out = op.out
        BY <1>1, <1>3 DEF GrowEmpty
      <3>2. SameArguments
        BY <2>2, <3>1 DEF OpType
      <3> QED BY <1>3, <2>2, <3>2 DEF GrowEmpty
    <2> QED BY <1>3, <2>1, <2>2 DEF GrowEmpty
  <1>4. CASE GrowAllocate
    BY <1>0, <1>4 DEF GrowAllocate, OpType
  <1>5. CASE GrowNoSpace
    <2>1. CASE Return("ENOSPC")
      BY <1>5, <2>1, ReturnArguments DEF GrowNoSpace
    <2>2. CASE op.allocated # 0
      BY <1>0, <1>5, <2>2 DEF GrowNoSpace, OpType
    <2> QED BY <1>5, <2>1, <2>2 DEF GrowNoSpace
  <1>6. CASE GrowFat \/ GrowLink
    BY <1>0, <1>6, ZenonT(60) DEF GrowFat, GrowLink, OpType
  <1>7. CASE GrowFatEnd \/ GrowEnd
    BY <1>7 DEF GrowFatEnd, GrowEnd, Goto
  <1> QED BY <1>2, <1>3, <1>4, <1>5, <1>6, <1>7 DEF Grow

LEMMA ShrinkArguments ==
  ASSUME TypeOK, Shrink
  PROVE  SameArguments /\ Truncating /\ (Truncating' \/ pc' = "done")
  <1> USE DEF SameArguments, Truncating, IoLoops
  <1>0. op \in OpType
    BY DEF TypeOK
  <1>1. CASE ShrinkStart
    BY <1>0, <1>1, AdvanceArguments DEF ShrinkStart
  <1>2. CASE ShrinkAll
    BY <1>0, <1>2 DEF ShrinkAll, OpType
  <1>3. CASE ShrinkCrop
    BY <1>0, <1>3 DEF ShrinkCrop, OpType
  <1>4. CASE ShrinkFree
    BY <1>0, <1>4 DEF ShrinkFree, OpType
  <1>5. CASE ShrinkInvalid
    BY <1>5, ReturnArguments DEF ShrinkInvalid
  <1>6. CASE ShrinkEnd
    BY <1>6, ReturnArguments DEF ShrinkEnd, Goto
  <1> QED BY <1>1, <1>2, <1>3, <1>4, <1>5, <1>6 DEF Shrink

\* erase_range() stays within exfat_truncate(), until the end of that.
LEMMA EraseArguments ==
  ASSUME TypeOK, EraseFirst \/ EraseNext \/ (EraseStart /\ ~Truncated)
  PROVE  SameArguments /\ Truncating /\ (Truncating' \/ pc' = "bug")
  <1> USE DEF SameArguments, Truncating, IoLoops
  <1>0. op \in OpType
    BY DEF TypeOK
  <1>1. CASE EraseStart /\ ~Truncated
    <2> DEFINE index == node[op.node].size \div ClusterSize
               o == [op EXCEPT !.boundary = (index + 1) * ClusterSize]
    <2>1. CallAdvance(o, index, "eraseFirst") /\ pc = "erase"
      BY <1>1 DEF EraseStart
    <2>2. index \in Nat
      <3>1. node[op.node].size \in Nat
        BY <2>1 DEF TypeOK, NodeType
      <3> QED BY <3>1, ClusterAssumption
    <2> HIDE DEF index
    <2>3. (index + 1) * ClusterSize \in Nat
      BY <2>2, ClusterAssumption
    <2>4. o \in OpType /\ o.off = op.off /\ o.buf = op.buf /\ o.len = op.len
          /\ o.size = op.size /\ o.then = op.then /\ o.erase = op.erase /\ o.out = op.out
      BY <1>0, <2>3 DEF OpType
    <2> HIDE DEF o
    <2> QED BY <2>1, <2>4, AdvanceArguments
  <1>2. CASE EraseFirst
    BY <1>2 DEF EraseFirst, Goto
  <1>3. CASE EraseNext
    BY <1>0, <1>3, ZenonT(60) DEF EraseNext, exfat_bug, OpType
  <1> QED BY <1>1, <1>2, <1>3

\* What exfat_advance_cluster() leads to.
LEMMA CursorArguments ==
  ASSUME TypeOK, Advance
  PROVE  /\ SameArguments /\ op'.ret = op.ret /\ pc = "advance" /\ op.ret # "idle"
         /\ op'.remainder = op.remainder /\ op'.out = op.out
         /\ \/ pc' \in {"advance", op.ret} /\ op'.rollback = op.rollback
            \/ Return("EIO")
  <1>0. op \in OpType
    BY DEF TypeOK
  <1>1. op'.ret = op.ret /\ pc = "advance" /\ op.ret # "idle"
    BY <1>0, ZenonT(30) DEF Advance, AdvanceLoop, AdvanceEnd, Return, OpType, TypeOK
  <1>2. CASE Return("EIO")
    BY <1>1, <1>2, ReturnArguments
  <1>3. ASSUME NEW i, NEW c,
               op' = [op EXCEPT !.i = i] \/ op' = [op EXCEPT !.cluster = c]
        PROVE  SameArguments /\ op'.rollback = op.rollback /\ op'.remainder = op.remainder
               /\ op'.out = op.out
    BY <1>0, <1>3 DEF SameArguments, OpType
  <1>4. \/ Return("EIO")
        \/ pc' \in {"advance", op.ret}
           /\ \E i, c : op' = [op EXCEPT !.i = i] \/ op' = [op EXCEPT !.cluster = c]
    BY DEF Advance, AdvanceLoop, AdvanceEnd
  <1> QED BY <1>1, <1>2, <1>3, <1>4

\* The loops of exfat_generic_pread and exfat_generic_pwrite begin.
LEMMA StartArguments ==
  ASSUME TypeOK, op.node \in Nodes, NEW remainder \in Nat, NEW loop, IoStart(remainder, loop)
  PROVE  /\ SameArguments /\ op'.out = op.out
         /\ \/ Return("ok") /\ remainder = 0 /\ UNCHANGED <<node, disk, history>>
            \/ /\ pc' = "advance" /\ op'.ret = loop /\ op'.remainder = remainder
               /\ op'.rollback = op.rollback
               /\ remainder # 0 /\ UNCHANGED <<disk, history>>
               /\ node'[op.node].size = node[op.node].size
  <1>0. op \in OpType /\ node \in [Nodes -> NodeType]
    BY DEF TypeOK
  <1>1. CASE remainder = 0
    BY <1>1, ReturnArguments DEF IoStart
  <1>2. CASE remainder # 0
    <2> DEFINE o == [op EXCEPT !.loffset = op.off % ClusterSize,
                               !.remainder = remainder]
    <2>1. op.off % ClusterSize \in 0 .. ClusterSize - 1
      <3>1. op.off \in Nat
        BY <1>0 DEF OpType
      <3> QED BY <3>1, ClusterAssumption
    <2>2. o \in OpType
      BY <1>0, <2>1, Zenon DEF OpType
    <2>3. o.off = op.off /\ o.buf = op.buf /\ o.len = op.len /\ o.size = op.size
          /\ o.then = op.then /\ o.erase = op.erase /\ o.remainder = remainder
          /\ o.out = op.out /\ o.rollback = op.rollback
      BY <1>0 DEF OpType
    <2>4. CallAdvance(o, op.off \div ClusterSize, loop)
      BY <1>2 DEF IoStart
    <2>5. node'[op.node].size = node[op.node].size /\ UNCHANGED <<disk, history>>
      BY <1>0, <2>4 DEF CallAdvance, NodeType
    <2> HIDE DEF o
    <2> QED BY <1>2, <2>2, <2>3, <2>4, <2>5, AdvanceArguments
  <1> QED BY <1>1, <1>2

\* How much a read is to return.
ReadLength ==
  LET size == node[op.node].size
  IN  IF op.off >= size THEN 0 ELSE Lesser(op.len, size - op.off)

LEMMA ReadLengthNat ==
  ASSUME TypeOK, op.node \in Nodes PROVE ReadLength \in Nat
  <1>1. op.off \in Nat /\ op.len \in Nat /\ node[op.node].size \in Nat
    BY DEF TypeOK, OpType, NodeType
  <1> QED BY <1>1 DEF ReadLength, Lesser

\* Where the steps of pread and pwrite lead.
LEMMA IoArguments ==
  ASSUME TypeOK, Io
  PROVE  /\ op'.off = op.off /\ op'.buf = op.buf /\ op'.len = op.len
         /\ pc \in {"pwrite", "pwriteExtend", "pwriteData", "pwriteLoop", "pread",
                    "preadLoop"}
         /\ SameArguments \/ WriteGap \/ WriteExtend
         /\ Truncating' => WriteGap \/ WriteExtend
         /\ Reading' => Reading \/ ReadStart
         /\ Writing' => Writing \/ WriteStart
         /\ pc' = "pwriteExtend" => WriteGap
         /\ pc' = "pwriteData" => WriteExtend
         /\ pc' \notin {"idle", "pwrite", "pread", "bug"}
  <1> USE DEF SameArguments, Truncating, Reading, Writing, IoLoops
  <1>0. op \in OpType /\ op.node \in Nodes
    <2>1. pc # "idle"
      BY DEF Io, WriteGap, WriteExtend, WriteStart, ReadStart, IoLoop, IoInvalid, IoEnd
    <2> QED BY <2>1 DEF TypeOK
  <1>1. CASE WriteGap \/ WriteExtend
    BY <1>0, <1>1 DEF WriteGap, WriteExtend, SubTruncate, Goto, OpType
  <1>2. CASE WriteStart
    <2>1. op.len \in Nat /\ IoStart(op.len, "pwriteLoop") /\ pc = "pwriteData"
      BY <1>0, <1>2 DEF WriteStart, OpType
    <2>2. SameArguments /\ (pc' = "done" \/ (pc' = "advance" /\ op'.ret = "pwriteLoop"))
      BY <1>0, <2>1, StartArguments, ReturnArguments
    <2> QED BY <1>2, <2>1, <2>2
  <1>3. CASE ReadStart
    <2>1. ReadLength \in Nat /\ IoStart(ReadLength, "preadLoop") /\ pc = "pread"
      BY <1>0, <1>3, ReadLengthNat DEF ReadStart, ReadLength
    <2>2. SameArguments /\ (pc' = "done" \/ (pc' = "advance" /\ op'.ret = "preadLoop"))
      BY <1>0, <2>1, StartArguments, ReturnArguments
    <2> QED BY <1>3, <2>1, <2>2
  <1>4. CASE IoLoop
    BY <1>0, <1>4 DEF IoLoop, OpType
  <1>5. CASE IoInvalid \/ IoEnd
    BY <1>5, ReturnArguments DEF IoInvalid, IoEnd
  <1> QED BY <1>1, <1>2, <1>3, <1>4, <1>5 DEF Io

\* Where the steps of a call lead, and what they do to its arguments.
LEMMA Stages ==
  ASSUME TypeOK, Step, ~Done
  PROVE  /\ op'.off = op.off /\ op'.buf = op.buf /\ op'.len = op.len
         /\ \/ SameArguments
            \/ WriteGap \/ WriteExtend
            \/ Truncated /\ op.then # "done" /\ pc \in {"erase", "eraseLoop"}
         /\ Truncating' => Truncating \/ WriteGap \/ WriteExtend
         /\ Truncating' /\ Truncating => SameArguments
         /\ Reading' => Reading \/ ReadStart
         /\ Writing' => Writing \/ WriteStart
         /\ pc' = "pwriteExtend" =>
              WriteGap \/ (Truncated /\ pc \in {"erase", "eraseLoop"}) \/ TruncateWithin
         /\ pc' = "pwriteData" =>
              WriteExtend \/ (Truncated /\ pc \in {"erase", "eraseLoop"}) \/ TruncateWithin
         /\ pc' \notin {"idle", "pwrite", "pread"}
  <1> DEFINE Labels1 ==
         /\ Truncating' => Truncating \/ WriteGap \/ WriteExtend
         /\ Truncating' /\ Truncating => SameArguments
         /\ Reading' => Reading \/ ReadStart
         /\ Writing' => Writing \/ WriteStart
         /\ pc' \notin {"idle", "pwrite", "pread", "pwriteExtend", "pwriteData"}
  <1> USE DEF Truncating, Reading, Writing, IoLoops
  <1>0. op \in OpType
    BY DEF TypeOK
  <1>1. CASE Advance
    <2>1. op.ret \in {"growLoop", "shrinkCrop", "eraseFirst", "pwriteLoop", "preadLoop"}
      BY <1>0, <1>1, CursorArguments DEF OpType
    <2>2. SameArguments /\ op'.ret = op.ret /\ pc = "advance"
          /\ (pc' \in {"advance", op.ret} \/ pc' = "done")
      BY <1>1, CursorArguments DEF Return
    <2>3. Labels1
      BY <2>1, <2>2
    <2> QED BY <2>2, <2>3 DEF SameArguments
  <1>2. CASE Truncate
    <2>0. op.then \in {"done", "pwriteExtend", "pwriteData"}
      BY <1>0 DEF OpType
    <2>1. CASE TruncateWithin
      <3>1. SameArguments /\ pc = "truncate"
            /\ pc' \in {"erase", "done", "pwriteExtend", "pwriteData"}
        <4>1. CASE Return("ok")
          BY <2>1, <4>1, ReturnArguments DEF TruncateWithin
        <4> QED BY <2>0, <2>1, <4>1 DEF TruncateWithin, Goto, SameArguments
      <3> QED BY <2>1, <3>1 DEF SameArguments
    <2>2. CASE TruncateShrink
      <3>1. SameArguments /\ pc = "truncate" /\ pc' = "shrink"
        BY <1>0, <2>2 DEF TruncateShrink, OpType, SameArguments
      <3>2. Labels1
        BY <3>1
      <3> QED BY <3>1, <3>2 DEF SameArguments
    <2> QED BY <1>2, <2>1, <2>2 DEF Truncate
  <1>3. CASE Grow \/ Shrink
    <2>1. SameArguments /\ Truncating /\ (Truncating' \/ pc' = "done")
      BY <1>3, GrowArguments, ShrinkArguments
    <2>2. Labels1
      BY <2>1
    <2> QED BY <2>1, <2>2 DEF SameArguments
  <1>4. CASE EraseFirst \/ EraseNext \/ (EraseStart /\ ~Truncated)
    <2>1. SameArguments /\ Truncating /\ (Truncating' \/ pc' = "bug")
      BY <1>4, EraseArguments
    <2>2. Labels1
      BY <2>1
    <2> QED BY <2>1, <2>2 DEF SameArguments
  <1>5. CASE Truncated /\ pc \in {"erase", "eraseLoop"}
    <2>1. pc' \in {"done", "pwriteExtend", "pwriteData"}
      BY <1>5, TruncatedLabel
    <2>2. op'.off = op.off /\ op'.buf = op.buf /\ op'.len = op.len
          /\ (SameArguments \/ op.then # "done")
      <3>1. CASE op.then = "done"
        BY <1>5, <3>1, ReturnArguments DEF Truncated, SameArguments
      <3>2. CASE op.then # "done"
        <4>1. op' = [NoOp EXCEPT !.kind = op.kind, !.node = op.node,
                       !.off = op.off, !.buf = op.buf, !.len = op.len]
          BY <1>5, <3>2 DEF Truncated
        <4>2. op'.off = op.off /\ op'.buf = op.buf /\ op'.len = op.len
          BY ONLY <4>1 DEF NoOp
        <4> QED BY <3>2, <4>2
      <3> QED BY <3>1, <3>2
    <2> QED BY <1>5, <2>1, <2>2
  <1>6. CASE Io
    <2>1. ~Truncating
      BY <1>6, IoArguments
    <2> QED BY <1>6, <2>1, IoArguments
  <1>7. CASE DeviceFails
    <2>1. SameArguments /\ pc' = "done"
      BY <1>7, ReturnArguments DEF DeviceFails
    <2>2. Labels1
      BY <2>1
    <2> QED BY <2>1, <2>2 DEF SameArguments
  <1>8. CASE AssertionFails
    <2>1. SameArguments /\ pc' = "bug"
      BY <1>0, <1>8 DEF AssertionFails, exfat_bug, OpType, SameArguments
    <2>2. Labels1
      BY <2>1
    <2> QED BY <2>1, <2>2 DEF SameArguments
  <1>9. Erase => EraseFirst \/ EraseNext \/ (EraseStart /\ ~Truncated) \/ (Truncated /\ pc \in {"erase", "eraseLoop"})
    BY DEF Erase, EraseStart, EraseEnd
  <1> QED BY <1>1, <1>2, <1>3, <1>4, <1>5, <1>6, <1>7, <1>8, <1>9 DEF Step

\* The steps with which a call returns.
LEMMA Returns ==
  ASSUME TypeOK, Step, ~Done, pc' = "done"
  PROVE  \/ TruncateWithin /\ Return("ok") /\ op.then = "done"
            /\ node[op.node].size = op.size
         \/ GrowEmpty /\ Return("ENOSPC") /\ UNCHANGED <<node, chain>>
         \/ GrowNoSpace /\ op.allocated = 0 /\ Return("ENOSPC")
         \/ ShrinkEnd /\ op.rollback /\ Return("ENOSPC")
         \/ Truncated /\ op.then = "done" /\ Return("ok") /\ (EraseStart \/ EraseEnd)
         \/ (WriteStart \/ ReadStart \/ IoEnd) /\ Return("ok")
         \/ (Advance \/ ShrinkInvalid \/ IoInvalid \/ DeviceFails) /\ Return("EIO")
  <1>0. op \in OpType /\ op.then \in {"done", "pwriteExtend", "pwriteData"}
    BY DEF TypeOK, OpType
  <1>1. CASE Advance
    <2>1. op.ret # "done"
      BY <1>0 DEF OpType
    <2> QED BY <1>1, <2>1, CursorArguments
  <1>2. CASE Truncate
    BY <1>0, <1>2 DEF Truncate, TruncateWithin, TruncateShrink, Goto
  <1>3. CASE Grow
    <2>1. CASE GrowStart
      BY <2>1 DEF GrowStart, CallAdvance
    <2>2. CASE GrowEmpty
      BY <2>2 DEF GrowEmpty
    <2>3. CASE GrowNoSpace
      BY <2>3 DEF GrowNoSpace
    <2>4. CASE GrowAllocate \/ GrowFat \/ GrowFatEnd \/ GrowLink \/ GrowEnd
      BY <2>4 DEF GrowAllocate, GrowFat, GrowFatEnd, GrowLink, GrowEnd, Goto
    <2> QED BY <1>3, <2>1, <2>2, <2>3, <2>4 DEF Grow
  <1>4. CASE Shrink
    BY <1>4 DEF Shrink, ShrinkStart, ShrinkAll, ShrinkCrop, ShrinkFree, ShrinkInvalid,
       ShrinkEnd, CallAdvance, Goto
  <1>5. ASSUME Truncated PROVE op.then = "done" /\ Return("ok")
    BY <1>0, <1>5 DEF Truncated
  <1>6. CASE Erase
    BY <1>5, <1>6 DEF Erase, EraseStart, EraseFirst, EraseNext, EraseEnd, CallAdvance,
       Goto, exfat_bug
  <1>7. CASE Io
    <2>1. ASSUME NEW remainder, NEW loop, IoStart(remainder, loop) PROVE Return("ok")
      BY <2>1 DEF IoStart, CallAdvance
    <2> QED BY <1>7, <2>1 DEF Io, WriteGap, WriteExtend, SubTruncate, WriteStart,
               ReadStart, IoLoop, IoInvalid, IoEnd, Goto
  <1>8. CASE DeviceFails \/ AssertionFails
    BY <1>8 DEF DeviceFails, AssertionFails, exfat_bug
  <1> QED BY <1>1, <1>2, <1>3, <1>4, <1>6, <1>7, <1>8 DEF Step

\* A call begins.
LEMMA CallBegins ==
  ASSUME Call
  PROVE  \E n \in Nodes :
           /\ op'.node = n /\ pc = "idle" /\ op'.rc = "none" /\ ~op'.rollback
           /\ op'.then = "done" /\ op'.out = <<>>
           /\ pre' = [content |-> Content(n), cmap |-> cmap]
           /\ sane' = (sane /\ faults = 0)
           /\ UNCHANGED <<node, disk, chain, tail, faults>>
           /\ \/ /\ pc' = "truncate" /\ op'.kind = "truncate" /\ op'.erase
                 /\ op'.size \in 0 .. MaxSize
              \/ /\ pc' = "pwrite" /\ op'.kind = "pwrite" /\ op'.off \in 0 .. MaxSize
                 /\ op'.buf \in Buffers /\ op'.len = Len(op'.buf)
              \/ /\ pc' = "pread" /\ op'.kind = "pread" /\ op'.off \in 0 .. MaxSize
                 /\ op'.len \in ReadSizes
  <1> DEFINE Begun(n) ==
         /\ op'.node = n /\ pc = "idle" /\ op'.rc = "none" /\ ~op'.rollback
         /\ op'.then = "done" /\ op'.out = <<>>
         /\ pre' = [content |-> Content(n), cmap |-> cmap]
         /\ sane' = (sane /\ faults = 0)
         /\ UNCHANGED <<node, disk, chain, tail, faults>>
  <1>1. ASSUME NEW n \in Nodes, NEW args, NEW label, Begin(n, args, label)
        PROVE  /\ pc = "idle" /\ pc' = label /\ op' = [args EXCEPT !.node = n]
               /\ pre' = [content |-> Content(n), cmap |-> cmap]
               /\ sane' = (sane /\ faults = 0)
               /\ UNCHANGED <<node, disk, chain, tail, faults>>
    BY <1>1, Zenon DEF Begin
  <1>2. ASSUME NEW n \in Nodes, NEW size \in 0 .. MaxSize, exfat_truncate(n, size)
        PROVE  /\ Begun(n) /\ pc' = "truncate" /\ op'.kind = "truncate" /\ op'.erase
               /\ op'.size \in 0 .. MaxSize
    <2> DEFINE args == [NoOp EXCEPT !.kind = "truncate", !.size = size, !.erase = TRUE]
    <2>1. Begin(n, args, "truncate")
      BY <1>2 DEF exfat_truncate
    <2>2. op' = [args EXCEPT !.node = n]
      BY <2>1, Zenon DEF Begin
    <2>3. op'.node = n /\ op'.rc = "none" /\ ~op'.rollback /\ op'.then = "done"
          /\ op'.kind = "truncate" /\ op'.erase /\ op'.size = size /\ op'.out = <<>>
      BY <2>2 DEF NoOp
    <2> HIDE DEF args
    <2> QED BY <1>1, <2>1, <2>3
  <1>3. ASSUME NEW n \in Nodes, NEW off \in 0 .. MaxSize, NEW buf \in Buffers,
               exfat_generic_pwrite(n, off, buf)
        PROVE  /\ Begun(n) /\ pc' = "pwrite" /\ op'.kind = "pwrite"
               /\ op'.off \in 0 .. MaxSize /\ op'.buf \in Buffers
               /\ op'.len = Len(op'.buf)
    <2> DEFINE args == [NoOp EXCEPT !.kind = "pwrite", !.off = off, !.buf = buf,
                                    !.len = Len(buf)]
    <2>1. Begin(n, args, "pwrite")
      BY <1>3 DEF exfat_generic_pwrite
    <2>2. op' = [args EXCEPT !.node = n]
      BY <2>1, Zenon DEF Begin
    <2>3. op'.node = n /\ op'.rc = "none" /\ ~op'.rollback /\ op'.then = "done"
          /\ op'.kind = "pwrite" /\ op'.off = off /\ op'.buf = buf /\ op'.len = Len(buf)
          /\ op'.out = <<>>
      BY <2>2 DEF NoOp
    <2> HIDE DEF args
    <2> QED BY <1>1, <2>1, <2>3
  <1>4. ASSUME NEW n \in Nodes, NEW off \in 0 .. MaxSize, NEW len \in ReadSizes,
               exfat_generic_pread(n, off, len)
        PROVE  /\ Begun(n) /\ pc' = "pread" /\ op'.kind = "pread"
               /\ op'.off \in 0 .. MaxSize /\ op'.len \in ReadSizes
    <2> DEFINE args == [NoOp EXCEPT !.kind = "pread", !.off = off, !.len = len]
    <2>1. Begin(n, args, "pread")
      BY <1>4 DEF exfat_generic_pread
    <2>2. op' = [args EXCEPT !.node = n]
      BY <2>1, Zenon DEF Begin
    <2>3. op'.node = n /\ op'.rc = "none" /\ ~op'.rollback /\ op'.then = "done"
          /\ op'.kind = "pread" /\ op'.off = off /\ op'.len = len /\ op'.out = <<>>
      BY <2>2 DEF NoOp
    <2> HIDE DEF args
    <2> QED BY <1>1, <2>1, <2>3
  <1> QED BY <1>2, <1>3, <1>4, Zenon DEF Call

LEMMA ArgumentsNext ==
  ASSUME TypeOK, Arguments, [Next]_vars PROVE Arguments'
  <1>1. CASE UNCHANGED vars \/ Aborted
    <2>1. UNCHANGED <<pc, op>>
      BY <1>1 DEF Aborted, vars
    <2> QED BY <2>1 DEF Arguments, Truncating, Reading, IoLoops
  <1>2. CASE Done
    BY <1>2 DEF Done, Arguments
  <1>3. CASE Call
    BY <1>3, CallBegins DEF Arguments, Truncating, Reading, IoLoops
  <1>4. CASE Step /\ ~Done
    <2>0. /\ pc # "idle" /\ op'.kind = op.kind
          /\ op'.off = op.off /\ op'.buf = op.buf /\ op'.len = op.len
          /\ op \in OpType
      BY <1>4, CallSteps, Stages DEF TypeOK
    <2>1. /\ op.kind # "none"
          /\ op.kind = "truncate" => op.size \in 0 .. MaxSize
          /\ op.kind = "pwrite" => op.off \in 0 .. MaxSize /\ op.buf \in Buffers
          /\ op.kind = "pread" => op.off \in 0 .. MaxSize /\ op.len \in ReadSizes
          /\ pc = "pread" \/ Reading => op.kind = "pread"
      BY <2>0 DEF Arguments
    <2>2. op.kind = "truncate" => op'.size = op.size
      <3>1. CASE SameArguments
        BY <3>1 DEF SameArguments
      <3>2. CASE WriteGap \/ WriteExtend
        BY <3>2 DEF WriteGap, WriteExtend, TypeOK, WriteLabels
      <3>3. CASE Truncated /\ op.then # "done"
        BY <2>0, <3>3 DEF TypeOK, WriteLabels, OpType
      <3> QED BY <1>4, <3>1, <3>2, <3>3, Stages
    <2>3. (pc' = "pread" \/ Reading') => op.kind = "pread"
      BY <1>4, <2>1, Stages DEF ReadStart
    <2>4. pc' = "done" => op'.rc \in {"ok", "EIO", "ENOSPC"}
      BY <1>4, Returns, ReturnKind DEF Returned
    <2>5. ASSUME Truncating'
          PROVE  /\ op'.kind # "pread"
                 /\ op'.kind = "truncate" <=> op'.then = "done"
                 /\ op'.erase <=> op'.then # "pwriteData"
                 /\ op'.then = "pwriteExtend" => op'.size = op'.off
      <3>1. CASE Truncating
        <4>1. SameArguments
          BY <1>4, <2>5, <3>1, Stages
        <4> QED BY <2>0, <3>1, <4>1 DEF SameArguments, Arguments
      <3>2. CASE WriteGap \/ WriteExtend
        <4>1. op.kind = "pwrite"
          BY <3>2 DEF WriteGap, WriteExtend, TypeOK, WriteLabels
        <4>2. \/ SubTruncate(op.off, TRUE, "pwriteExtend")
              \/ SubTruncate(op.off + op.len, FALSE, "pwriteData")
          BY <2>5, <3>2 DEF WriteGap, WriteExtend, Goto, Truncating
        <4> QED BY <2>0, <4>1, <4>2, ZenonT(60) DEF SubTruncate, OpType
      <3> QED BY <1>4, <2>5, <3>1, <3>2, Stages
    <2>6. op.kind # "pread" => op'.out = <<>>
      <3>1. CASE SameArguments
        BY <2>0, <2>1, <3>1 DEF SameArguments, Arguments, Reading
      <3>2. CASE WriteGap \/ WriteExtend
        BY <2>0, <3>2 DEF WriteGap, WriteExtend, SubTruncate, Goto, OpType, Arguments
      <3>3. CASE Truncated /\ op.then # "done"
        BY <3>3 DEF Truncated, NoOp
      <3> QED BY <1>4, <3>1, <3>2, <3>3, Stages
    <2> QED BY <2>0, <2>1, <2>2, <2>3, <2>4, <2>5, <2>6 DEF Arguments
  <1> QED BY <1>1, <1>2, <1>3, <1>4 DEF Next

LEMMA ArgumentsHold == Spec => []Arguments
  <1>1. Init => Arguments
    BY DEF Init, Arguments
  <1>2. TypeOK /\ Arguments /\ [Next]_vars => Arguments'
    BY ArgumentsNext
  <1> QED BY <1>1, <1>2, TypeCorrect, PTL DEF Spec

-----------------------------------------------------------------------------
(* What the file of the call holds *)

\* The numbers of CallContent are numbers.
LEMMA ContentNumbers ==
  ASSUME TypeOK, op.node \in Nodes, pre.content \in Seq(Cells)
  PROVE  /\ Len(pre.content) \in Nat /\ op.off \in Nat /\ op.len \in Nat
         /\ op.size \in Nat /\ op.boundary \in Nat /\ op.remainder \in Nat
         /\ op.remainder <= op.len /\ node[op.node].size \in Nat
         /\ SizeNow \in Nat /\ Reached \in Nat /\ ValidLength \in Nat
  <1>1. Len(pre.content) \in Nat
    BY LenProperties
  <1>2. /\ op.off \in Nat /\ op.len \in Nat /\ op.size \in Nat /\ op.boundary \in Nat
        /\ op.remainder \in Nat /\ op.remainder <= op.len /\ node[op.node].size \in Nat
    BY DEF TypeOK, OpType, NodeType
  <1>3. Reached \in Nat
    BY <1>2 DEF Reached
  <1> QED BY <1>1, <1>2, <1>3 DEF SizeNow, ValidLength, Greater, Lesser

\* What a step has to leave alone for the file to keep its first bytes.
LEMMA HoldsFrame ==
  ASSUME TypeOK, op.node \in Nodes, op'.node = op.node,
         NEW l1 \in Nat, NEW l2 \in Nat, l2 <= l1, Holds(l1),
         \A k \in 1 .. l2 : Image(k)' = Image(k),
         bytes2clusters(l2) <= Len(chain'[op.node]),
         \A i \in 1 .. bytes2clusters(l2) : chain'[op.node][i] = chain[op.node][i],
         \A k \in 1 .. l2 :
           LET c == chain[op.node][(k - 1) \div ClusterSize + 1]
           IN  data'[c][(k - 1) % ClusterSize] = data[c][(k - 1) % ClusterSize]
  PROVE  Holds(l2)'
  <1> DEFINE n == op.node
             at(k) == (k - 1) \div ClusterSize + 1
             byte(k) == (k - 1) % ClusterSize
  <1>1. ASSUME NEW k \in 1 .. l2
        PROVE  data'[chain'[n][at(k)]][byte(k)] = Image(k)'
    <2>1. at(k) \in 1 .. bytes2clusters(l2)
      BY ByteAt
    <2>2. chain'[n][at(k)] = chain[n][at(k)]
      <3> HIDE DEF at
      <3> QED BY <2>1
    <2>3. data'[chain[n][at(k)]][byte(k)] = data[chain[n][at(k)]][byte(k)]
      OBVIOUS
    <2>4. k \in 1 .. l1
      OBVIOUS
    <2>5. data[chain[n][at(k)]][byte(k)] = Image(k)
      BY <2>4 DEF Holds, Cell
    <2>6. Image(k)' = Image(k)
      OBVIOUS
    <2> HIDE DEF at, byte
    <2> QED BY <2>2, <2>3, <2>5, <2>6
  <1>2. Holds(l2)' <=>
          /\ bytes2clusters(l2) <= Len(chain'[op'.node])
          /\ \A k \in 1 .. l2 : data'[chain'[op'.node][at(k)]][byte(k)] = Image(k)'
    BY DEF Holds, Cell, bytes2clusters
  <1> HIDE DEF at, byte
  <1> QED BY <1>1, <1>2

\* The same for a step that leaves the chain and the heap alone.
LEMMA HoldsStill ==
  ASSUME TypeOK, op.node \in Nodes, op'.node = op.node, UNCHANGED <<chain, data>>,
         NEW l1 \in Nat, NEW l2 \in Nat, l2 <= l1, Holds(l1),
         \A k \in 1 .. l2 : Image(k)' = Image(k)
  PROVE  Holds(l2)'
  <1>1. bytes2clusters(l2) <= bytes2clusters(l1)
    BY ClustersMonotone
  <1>2. bytes2clusters(l1) <= Len(chain[op.node])
    BY DEF Holds
  <1>3. bytes2clusters(l2) \in Nat /\ bytes2clusters(l1) \in Nat
        /\ Len(chain[op.node]) \in Nat
    BY Bytes2ClustersNat, LenProperties DEF TypeOK
  <1>4. bytes2clusters(l2) <= Len(chain'[op.node])
    BY <1>1, <1>2, <1>3
  <1> QED BY <1>4, HoldsFrame

\* A step that keeps the bounds of what was written keeps the image.
LEMMA SameImage ==
  ASSUME op'.off = op.off, op'.buf = op.buf, Reached' = Reached, UNCHANGED pre
  PROVE  \A k : Image(k)' = Image(k)
BY DEF Image, Was

\* Outside the loop of a write nothing is written.
LEMMA ImageBefore ==
  ASSUME op.off \in Nat, Reached = op.off, NEW k \in Nat
  PROVE  Image(k) = Was(k)
BY DEF Image

\* The clusters that the file keeps stay its first ones in exfat_truncate().
LEMMA PrefixStays ==
  ASSUME TypeOK, SaneInv, Step, ~Done, Truncating,
         bytes2clusters(Lesser(op.size, node[op.node].size)) <= Len(chain[op.node])
  PROVE  LET len == bytes2clusters(Lesser(op.size, node[op.node].size))
         IN  /\ len <= Len(chain'[op.node])
             /\ \A i \in 1 .. len : chain'[op.node][i] = chain[op.node][i]
  <1> DEFINE n == op.node
             s == chain[n]
             len == bytes2clusters(Lesser(op.size, node[n].size))
             Kept == len <= Len(chain'[n]) /\ \A i \in 1 .. len : chain'[n][i] = s[i]
  <1> SUFFICES Kept
    OBVIOUS
  <1>0. /\ n \in Nodes /\ s \in Seq(Clusters) /\ Len(s) \in Nat /\ op \in OpType
        /\ chain \in [Nodes -> Seq(Clusters)] /\ node[n].size \in Nat
        /\ op.size \in Nat
    <2>1. n \in Nodes /\ op \in OpType /\ chain \in [Nodes -> Seq(Clusters)]
          /\ node[n].size \in Nat /\ op.size \in Nat
      BY CallSteps DEF TypeOK, NodeType, OpType
    <2> QED BY <2>1, LenProperties
  <1>1. CASE op.size > node[n].size
    <2>1. Lesser(op.size, node[n].size) = node[n].size
      BY <1>0, <1>1 DEF Lesser
    <2> QED BY <1>1, <2>1, PrefixKept
  <1>2. CASE op.size <= node[n].size /\ (ShrinkAll \/ ShrinkCrop)
    <2>1. Lesser(op.size, node[n].size) = op.size
      BY <1>0, <1>2 DEF Lesser
    <2>2. pc \in {"shrink", "shrinkCrop"}
      BY <1>2 DEF ShrinkAll, ShrinkCrop
    <2>3. /\ Len(s) = op.current /\ ShrinksTo(op.current - op.difference)
          /\ op.current \in Nat /\ op.difference \in Nat
          /\ op.difference <= op.current
      BY <1>0, <2>2, SMTT(30) DEF SaneInv, CallInv, HasClusters, OpType
    <2>4. op.current - op.difference
            = bytes2clusters(IF op.rollback THEN node[n].size ELSE op.size)
      BY <2>3 DEF ShrinksTo
    <2>5. len <= op.current - op.difference /\ len \in Nat
      <3>1. len = bytes2clusters(op.size)
        BY <2>1
      <3>2. bytes2clusters(op.size) <= bytes2clusters(node[n].size)
            /\ bytes2clusters(op.size) \in Nat
        BY <1>0, <1>2, ClustersMonotone, Bytes2ClustersNat
      <3> HIDE DEF len
      <3> QED BY <2>4, <3>1, <3>2
    <2> HIDE DEF len
    <2>6. CASE ShrinkAll
      <3>1. op.current = op.difference /\ chain'[n] = <<>>
        BY <1>0, <2>6 DEF ShrinkAll
      <3>2. len = 0 /\ Len(chain'[n]) = 0
        BY <2>3, <2>5, <3>1
      <3> QED BY <3>2
    <2>7. CASE ShrinkCrop
      <3> DEFINE keep == op.current - op.difference
      <3>1. chain'[n] = SubSeq(s, 1, Lesser(keep, Len(s)))
        BY <1>0, <2>7 DEF ShrinkCrop
      <3>2. keep \in Nat /\ Len(s) = keep + op.difference /\ Lesser(keep, Len(s)) = keep
        BY <1>0, <2>3, SMTT(30) DEF Lesser
      <3> HIDE DEF keep
      <3>3. Len(SubSeq(s, 1, keep)) = keep /\ \A i \in 1 .. keep : SubSeq(s, 1, keep)[i] = s[i]
        BY <1>0, <2>3, <3>2, FirstPart
      <3>4. chain'[n] = SubSeq(s, 1, keep)
        BY <3>1, <3>2
      <3>5. len <= keep
        BY <2>5 DEF keep
      <3> QED BY <2>5, <3>2, <3>3, <3>4, <3>5
    <2> QED BY <1>2, <2>6, <2>7
  <1>3. CASE op.size <= node[n].size /\ UNCHANGED chain
    BY <1>3
  <1>4. CASE op.size <= node[n].size /\ (GrowEmpty \/ GrowLink)
    <2>1. bytes2clusters(node[n].size) < bytes2clusters(op.size)
      <3>1. CASE GrowEmpty
        BY <3>1 DEF GrowEmpty, Current, Target
      <3>2. CASE GrowLink
        <4>1. pc = "growLink"
          BY <3>2 DEF GrowLink
        <4>2. /\ op.current = bytes2clusters(node[n].size)
              /\ op.current + op.difference = bytes2clusters(op.size)
              /\ op.allocated < op.difference
          BY <4>1 DEF SaneInv, CallInv, GrowInv, GrowLabels
        <4>3. op.current \in Nat /\ op.difference \in Nat /\ op.allocated \in Nat
          BY <1>0 DEF OpType
        <4> QED BY <4>2, <4>3
      <3> QED BY <1>4, <3>1, <3>2
    <2>2. op.size > node[n].size
      BY <1>0, <2>1, Larger
    <2> QED BY <1>0, <1>4, <2>2
  <1>5. CASE GrowAllocate \/ DeviceFails \/ ShrinkFree \/ ShrinkInvalid \/ ShrinkEnd
    <2>1. UNCHANGED chain
      BY <1>5 DEF GrowAllocate, DeviceFails, ShrinkFree, ShrinkInvalid, ShrinkEnd
    <2> QED BY <1>0, <1>1, <1>3, <2>1
  <1> QED
    BY <1>0, <1>1, <1>2, <1>3, <1>4, <1>5, HeapSteps DEF Next

\* How the stages of a call exclude one another.
LEMMA StagesExclude ==
  /\ Truncating => /\ ~Writing /\ ~Reading
                   /\ pc \notin {"pwrite", "pwriteExtend", "pwriteData", "pread", "done"}
  /\ Writing => ~Reading /\ pc \notin {"pwrite", "pwriteExtend", "pwriteData", "pread", "eraseLoop"}
  /\ Reading => pc \notin {"pwrite", "pwriteExtend", "pwriteData", "pread", "eraseLoop"}
BY DEF Truncating, Writing, Reading, IoLoops

\* What the definitions of the stages say of exfat_truncate().
LEMMA TruncateStage ==
  ASSUME Truncating
  PROVE  /\ Reached = op.off
         /\ SizeNow = IF op.then = "pwriteData" THEN Greater(op.off, Len(pre.content))
                      ELSE Len(pre.content)
         /\ ValidLength = IF pc = "eraseLoop" THEN Lesser(op.boundary, op.size)
                          ELSE Lesser(op.size, node[op.node].size)
BY StagesExclude DEF Reached, SizeNow, ValidLength

\* Where the steps from the loop of erase_range() lead.
LEMMA FromErase ==
  ASSUME Step, ~Done, pc = "eraseLoop" PROVE EraseNext \/ EraseEnd \/ DeviceFails
BY DEF Step, Advance, AdvanceLoop, AdvanceEnd, Truncate, TruncateWithin,
   TruncateShrink, Grow, GrowStart, GrowEmpty, GrowAllocate, GrowNoSpace, GrowFat,
   GrowFatEnd, GrowLink, GrowEnd, Shrink, ShrinkStart, ShrinkAll, ShrinkCrop,
   ShrinkFree, ShrinkInvalid, ShrinkEnd, Erase, EraseStart, EraseFirst, Io,
   WriteGap, WriteExtend, WriteStart, ReadStart, IoLoop, IoInvalid,
   IoEnd, AssertionFails, BadCluster, BadPointer

\* exfat_truncate() keeps what the file is to keep: grow_file() and
\* shrink_file() do not touch the bytes.
LEMMA TruncateContent ==
  ASSUME TypeOK, SaneInv, GrowthKept, CallContent, Step, ~Done,
         Truncating, Truncating', pc' # "eraseLoop"
  PROVE  node'[op'.node].size = SizeNow' /\ Holds(ValidLength)'
  <1> DEFINE n == op.node
  <1>0. /\ n \in Nodes /\ op'.node = n /\ UNCHANGED pre /\ SameArguments
        /\ op.rc \notin Returned
    BY CallSteps, Stages, NotReturned
  <1>1. pc # "eraseLoop" /\ UNCHANGED data
    <2>1. ~EraseFirst /\ ~EraseNext /\ ~IoLoop
      BY StagesExclude DEF EraseFirst, EraseNext, IoLoop, Goto, exfat_bug, Truncating, IoLoops
    <2>2. pc # "eraseLoop"
      <3>1. ~DeviceFails
        BY DEF DeviceFails, Return, Truncating
      <3>2. ~EraseEnd
        BY TruncatedLabel DEF EraseEnd, Truncating
      <3> QED BY <2>1, <3>1, <3>2, FromErase
    <2> QED BY <2>1, <2>2, DataSteps
  <1>2. node'[n].size = node[n].size
    <2>1. ~Truncated
      BY TruncatedLabel DEF Truncating
    <2>2. ~WriteGap /\ ~WriteExtend
      BY DEF WriteGap, WriteExtend, Truncating
    <2> QED BY <1>0, <2>1, <2>2, StepRuns DEF Running
  <1>3. /\ SizeNow' = SizeNow /\ Reached' = op.off /\ Reached = op.off
        /\ ValidLength' = Lesser(op.size, node[n].size)
        /\ ValidLength = Lesser(op.size, node[n].size)
    <2>1. /\ Reached' = op'.off
          /\ SizeNow' = IF op'.then = "pwriteData" THEN Greater(op'.off, Len(pre'.content))
                        ELSE Len(pre'.content)
          /\ ValidLength' = IF pc' = "eraseLoop" THEN Lesser(op'.boundary, op'.size)
                            ELSE Lesser(op'.size, node'[op'.node].size)
      BY DEF Truncating, Writing, IoLoops, Reached, SizeNow, ValidLength, Greater, Lesser
    <2> QED BY <1>0, <1>1, <1>2, <2>1, TruncateStage DEF SameArguments
  <1>4. node[n].size = SizeNow /\ pre.content \in Seq(Cells) /\ Holds(ValidLength)
    BY DEF CallContent
  <1>5. PICK l \in Nat : l = Lesser(op.size, node[n].size)
    <2>1. ValidLength \in Nat
      BY <1>0, <1>4, ContentNumbers
    <2> QED BY <1>3, <2>1
  <1>6. Holds(l)
    BY <1>3, <1>4, <1>5
  <1>7. \A k \in 1 .. l : Image(k)' = Image(k)
    BY <1>0, <1>3, SameImage DEF SameArguments
  <1>8. /\ bytes2clusters(l) <= Len(chain'[n])
        /\ \A i \in 1 .. bytes2clusters(l) : chain'[n][i] = chain[n][i]
    <2>1. bytes2clusters(l) <= Len(chain[n])
      BY <1>6 DEF Holds
    <2> QED BY <1>5, <2>1, PrefixStays
  <1>9. Holds(l)'
    BY <1>0, <1>1, <1>6, <1>7, <1>8, HoldsFrame
  <1>10. ValidLength' = l
    BY <1>3, <1>5
  <1> QED BY <1>0, <1>2, <1>3, <1>4, <1>9, <1>10 DEF Holds

\* A quotient and a remainder are determined by the dividend.
LEMMA Quotient ==
  ASSUME NEW d \in Nat \ {0}, NEW q \in Nat, NEW r \in 0 .. d - 1, NEW a \in Nat,
         a = q * d + r
  PROVE  a \div d = q /\ a % d = r
  <1> DEFINE p == a \div d
             t == a % d
  <1>1. p \in Nat /\ t \in 0 .. d - 1 /\ a = p * d + t
    BY DivMod
  <1> HIDE DEF p, t
  <1>2. ASSUME p >= q + 1 PROVE FALSE
    <2>1. p * d >= (q + 1) * d
      BY <1>1, <1>2
    <2>2. (q + 1) * d = q * d + d
      OBVIOUS
    <2>3. q * d \in Nat /\ p * d \in Nat
      BY <1>1
    <2> DEFINE x1 == q * d
               x2 == p * d
    <2> HIDE DEF x1, x2
    <2>4. x1 \in Nat /\ x2 \in Nat /\ a = x2 + t /\ a = x1 + r /\ x2 >= x1 + d
      BY <1>1, <2>1, <2>2, <2>3 DEF x1, x2
    <2> QED BY <1>1, <2>4
  <1>3. ASSUME q >= p + 1 PROVE FALSE
    <2>1. q * d >= (p + 1) * d
      BY <1>1, <1>3
    <2>2. (p + 1) * d = p * d + d
      BY <1>1
    <2>3. q * d \in Nat /\ p * d \in Nat
      BY <1>1
    <2> DEFINE x1 == q * d
               x2 == p * d
    <2> HIDE DEF x1, x2
    <2>4. x1 \in Nat /\ x2 \in Nat /\ a = x2 + t /\ a = x1 + r /\ x1 >= x2 + d
      BY <1>1, <2>1, <2>2, <2>3 DEF x1, x2
    <2> QED BY <1>1, <2>4
  <1>4. p = q
    BY <1>1, <1>2, <1>3
  <1>5. t = r
    <2> DEFINE x1 == q * d
    <2>1. a = x1 + t /\ a = x1 + r /\ x1 \in Nat
      BY <1>1, <1>4
    <2> HIDE DEF x1
    <2> QED BY <1>1, <2>1
  <1> QED BY <1>4, <1>5 DEF p, t

\* The bytes between the end of a file and the end of its last cluster.
LEMMA TailByte ==
  ASSUME NEW size \in Nat, NEW k \in Nat, size < k,
         k <= (size \div ClusterSize + 1) * ClusterSize
  PROVE  /\ (k - 1) \div ClusterSize = size \div ClusterSize
         /\ (k - 1) % ClusterSize = (size % ClusterSize) + ((k - 1) - size)
  <1> DEFINE p == size \div ClusterSize
             t == size % ClusterSize
             z == p * ClusterSize
  <1>0. ClusterSize \in Nat \ {0} /\ p \in Nat /\ t \in 0 .. ClusterSize - 1 /\ size = z + t
    BY ClusterAssumption, DivMod
  <1>1. (p + 1) * ClusterSize = z + ClusterSize /\ z \in Nat
    <2> HIDE DEF p
    <2> QED BY <1>0
  <1>2. k <= z + ClusterSize
    BY <1>1
  <1> HIDE DEF p, t
  <1>3. t + ((k - 1) - size) \in 0 .. ClusterSize - 1 /\ k - 1 \in Nat
        /\ k - 1 = z + (t + ((k - 1) - size))
    <2> HIDE DEF z
    <2> QED BY <1>0, <1>1, <1>2
  <1>4. (k - 1) \div ClusterSize = p /\ (k - 1) % ClusterSize = t + ((k - 1) - size)
    BY <1>0, <1>3, Quotient
  <1> QED BY <1>4 DEF p, t

\* A byte before the end of cluster number m.
LEMMA BelowEnd ==
  ASSUME NEW b \in Nat, NEW m \in Nat, b < m * ClusterSize
  PROVE  b \div ClusterSize < m
  <1> DEFINE q == b \div ClusterSize
  <1>1. ClusterSize \in Nat \ {0} /\ q \in Nat /\ ClusterSize * q <= b
    BY ClusterAssumption
  <1> HIDE DEF q
  <1>2. ASSUME q >= m PROVE FALSE
    <2>1. ClusterSize * q >= ClusterSize * m
      BY <1>1, <1>2
    <2>2. ClusterSize * m = m * ClusterSize
      BY <1>1
    <2> QED BY <1>1, <2>1, <2>2
  <1> QED BY <1>1, <1>2 DEF q

\* What a write puts into its cluster.
LEMMA OverwriteHere ==
  ASSUME TypeOK, NEW c \in Clusters, NEW bytes, Overwrite(c, bytes),
         NEW j \in 0 .. ClusterSize - 1, j \in DOMAIN bytes
  PROVE  data'[c][j] = bytes[j]
  <1>1. data \in [Clusters -> [0 .. ClusterSize - 1 -> Cells]]
    BY DEF TypeOK
  <1>2. data'[c] = [i \in 0 .. ClusterSize - 1 |->
                      IF i \in DOMAIN bytes THEN bytes[i] ELSE data[c][i]]
    BY <1>1 DEF Overwrite
  <1> QED BY <1>2

\* The primed form of what a file holds.
LEMMA HoldsNext ==
  ASSUME NEW l \in Nat, op'.node = op.node,
         bytes2clusters(l) <= Len(chain'[op.node]),
         \A k \in 1 .. l :
           data'[chain'[op.node][(k - 1) \div ClusterSize + 1]][(k - 1) % ClusterSize]
             = Image(k)'
  PROVE  Holds(l)'
BY DEF Holds, Cell, bytes2clusters

\* erase_range() zeroes from the old end of the file to the end of its last
\* cluster, and nothing before.
LEMMA EraseFirstContent ==
  ASSUME TypeOK, SaneInv, EraseAt, CallContent, EraseFirst
  PROVE  node'[op'.node].size = SizeNow' /\ Holds(ValidLength)'
  <1> DEFINE n == op.node
             s == chain[n]
             size == node[n].size
             lo == size % ClusterSize
             w == Lesser(op.boundary, op.size)
             hi == lo + w - size
  <1>0. /\ pc = "eraseFirst" /\ pc' = "eraseLoop" /\ n \in Nodes
        /\ UNCHANGED <<op, node, chain, pre>>
        /\ Overwrite(op.cluster, Zeros(lo, hi))
    BY DEF EraseFirst, Goto, TypeOK, history
  <1>1. /\ s \in Seq(Clusters) /\ Len(s) \in Nat /\ size \in Nat /\ op.size \in Nat
        /\ op.boundary \in Nat /\ chain \in [Nodes -> Seq(Clusters)] /\ op.off \in Nat
        /\ EndCluster \in Nat
    <2>1. s \in Seq(Clusters) /\ size \in Nat /\ op.size \in Nat /\ op.boundary \in Nat
          /\ chain \in [Nodes -> Seq(Clusters)] /\ op.off \in Nat
      BY <1>0 DEF TypeOK, NodeType, OpType
    <2> QED BY <1>0, <2>1, LenProperties, EndClusterNat
  <1>2. /\ EndCluster < Len(s) /\ op.cluster = s[EndCluster + 1]
        /\ op.boundary = (EndCluster + 1) * ClusterSize
        /\ Len(s) = bytes2clusters(op.size)
    BY <1>0 DEF EraseAt, SaneInv, CallInv, HasClusters
  <1>3. Truncating /\ Truncating'
    BY <1>0 DEF Truncating
  <1>4. /\ Reached = op.off /\ ValidLength = Lesser(op.size, size) /\ Holds(ValidLength)
        /\ size = SizeNow /\ pre.content \in Seq(Cells)
    BY <1>0, <1>3, TruncateStage DEF CallContent
  <1>5. Reached' = op.off /\ ValidLength' = w /\ SizeNow' = SizeNow
    BY <1>0, <1>3 DEF Truncating, Writing, IoLoops, Reached, SizeNow, ValidLength,
       Greater, Lesser
  <1>6. Len(pre.content) \in Nat /\ Len(pre.content) <= size
    <2>1. Len(pre.content) \in Nat
      BY <1>4, LenProperties
    <2> QED BY <1>1, <1>3, <1>4, <2>1, TruncateStage DEF Greater
  <1>7. PICK l \in Nat : l = w
    BY <1>1 DEF Lesser
  <1>8. l <= op.size /\ l <= op.boundary
    BY <1>1, <1>7 DEF Lesser
  <1>9. EndCluster + 1 \in 1 .. Len(s) /\ op.cluster \in Clusters
    <2>1. EndCluster + 1 \in 1 .. Len(s)
      BY <1>1, <1>2
    <2> QED BY <1>1, <1>2, <2>1, ElementOfSeq
  <1>10. lo \in Nat /\ DOMAIN Zeros(lo, hi) = lo .. hi - 1
         /\ \A j \in DOMAIN Zeros(lo, hi) : Zeros(lo, hi)[j] = "zero"
    <2>1. lo \in Nat
      BY <1>1, ClusterAssumption
    <2> QED BY <2>1 DEF Zeros
  <1>11. bytes2clusters(l) <= Len(s) /\ bytes2clusters(l) \in Nat
    BY <1>1, <1>2, <1>8, ClustersMonotone, Bytes2ClustersNat
  <1>12. ASSUME NEW k \in 1 .. l
         PROVE  data'[s[(k - 1) \div ClusterSize + 1]][(k - 1) % ClusterSize] = Was(k)
    <2> DEFINE q == (k - 1) \div ClusterSize
               r == (k - 1) % ClusterSize
    <2>1. q \in Nat /\ q + 1 \in 1 .. bytes2clusters(l) /\ r \in 0 .. ClusterSize - 1
      BY ByteAt
    <2>2. q + 1 \in 1 .. Len(s)
      <3> HIDE DEF q, r
      <3> QED BY <1>1, <1>11, <2>1
    <2>3. s[q + 1] \in Clusters
      <3> HIDE DEF q
      <3> QED BY <1>1, <2>2, ElementOfSeq
    <2>4. CASE k <= size
      <3>1. k \in 1 .. Lesser(op.size, size)
        BY <1>1, <1>8, <2>4 DEF Lesser
      <3>2. data[s[q + 1]][r] = Was(k)
        <4>1. Cell(n, k) = Image(k)
          BY <1>4, <3>1 DEF Holds
        <4>2. Image(k) = Was(k)
          BY <1>1, <1>4, ImageBefore
        <4> QED BY <4>1, <4>2 DEF Cell
      <3>3. k \in 1 .. size
        BY <1>1, <2>4
      <3>4. q <= EndCluster /\ (q = EndCluster => r < lo)
        BY <1>1, <3>3, ByteAt DEF EndCluster
      <3> HIDE DEF q, r, hi
      <3>5. s[q + 1] # op.cluster \/ r \notin DOMAIN Zeros(lo, hi)
        <4>1. CASE q = EndCluster
          <5>1. r < lo /\ r \in Nat
            BY <2>1, <3>4, <4>1, ClusterAssumption
          <5> HIDE DEF lo
          <5> QED BY <1>10, <5>1
        <4>2. CASE q # EndCluster
          <5>1. q + 1 # EndCluster + 1
            BY <1>1, <2>1, <4>2
          <5> QED BY <1>0, <1>1, <1>2, <1>9, <2>2, <5>1, SameChain DEF SaneInv
        <4> QED BY <4>1, <4>2
      <3> HIDE DEF lo
      <3>6. data'[s[q + 1]][r] = data[s[q + 1]][r]
        BY <1>0, <1>9, <2>1, <2>3, <3>5, OverwriteElsewhere
      <3>7. data'[s[q + 1]][r] = Was(k)
        BY <3>2, <3>6
      <3> QED BY <3>7 DEF q, r
    <2>5. CASE k > size
      <3>1. k <= (size \div ClusterSize + 1) * ClusterSize
        <4>1. k <= op.boundary
          BY <1>1, <1>8
        <4> QED BY <1>2, <4>1, Zenon DEF EndCluster
      <3>2. q = EndCluster /\ r = lo + ((k - 1) - size)
        BY <1>1, <2>5, <3>1, TailByte DEF EndCluster
      <3>3. Was(k) = "zero"
        <4>1. ~(k <= Len(pre.content))
          BY <1>1, <1>6, <2>5
        <4> QED BY <4>1 DEF Was
      <3> HIDE DEF q, r
      <3>4. r \in DOMAIN Zeros(lo, hi)
        <4>1. hi = lo + (l - size)
          BY <1>7
        <4> HIDE DEF hi, lo
        <4>2. size \in Nat /\ lo \in Nat /\ k \in Nat /\ k <= l /\ l \in Nat /\ k > size
          BY <1>1, <1>10, <2>5
        <4> HIDE DEF size
        <4>3. r \in lo .. hi - 1
          BY <3>2, <4>1, <4>2
        <4> QED BY <1>10, <4>3
      <3>5. s[q + 1] = op.cluster
        BY <1>2, <3>2
      <3> HIDE DEF hi, lo
      <3>6. data'[s[q + 1]][r] = Zeros(lo, hi)[r]
        BY <1>0, <1>9, <2>1, <3>4, <3>5, OverwriteHere
      <3>7. data'[s[q + 1]][r] = Was(k)
        BY <1>10, <3>3, <3>4, <3>6
      <3> QED BY <3>7 DEF q, r
    <2> QED BY <1>1, <2>4, <2>5
  <1>13. ASSUME NEW k \in 1 .. l PROVE Image(k)' = Was(k)
    BY <1>0, <1>1, <1>5 DEF Image, Was
  <1>14. Holds(l)'
    <2>1. \A k \in 1 .. l :
            data'[chain'[n][(k - 1) \div ClusterSize + 1]][(k - 1) % ClusterSize]
              = Image(k)'
      BY <1>0, <1>12, <1>13
    <2> QED BY <1>0, <1>11, <2>1, HoldsNext
  <1>15. ValidLength' = l
    BY <1>5, <1>7
  <1> QED BY <1>0, <1>4, <1>5, <1>14, <1>15 DEF Holds

\* erase_range() zeroes the next whole cluster.
LEMMA EraseNextContent ==
  ASSUME TypeOK, SaneInv, EraseAt, CallContent, EraseNext, faults' = 0
  PROVE  node'[op'.node].size = SizeNow' /\ Holds(ValidLength)'
  <1> DEFINE n == op.node
             s == chain[n]
             size == node[n].size
             w == Lesser(op.boundary + ClusterSize, op.size)
  <1>0. /\ pc = "eraseLoop" /\ n \in Nodes /\ op.boundary < op.size
        /\ UNCHANGED <<node, chain, pre>>
    BY EraseNextStep DEF EraseNext
  <1>1. /\ s \in Seq(Clusters) /\ Len(s) \in Nat /\ size \in Nat /\ op.size \in Nat
        /\ op.boundary \in Nat /\ chain \in [Nodes -> Seq(Clusters)] /\ op.off \in Nat
        /\ EndCluster \in Nat /\ op \in OpType
    <2>1. s \in Seq(Clusters) /\ size \in Nat /\ op.size \in Nat /\ op.boundary \in Nat
          /\ chain \in [Nodes -> Seq(Clusters)] /\ op.off \in Nat /\ op \in OpType
      BY <1>0 DEF TypeOK, NodeType, OpType
    <2> QED BY <1>0, <2>1, LenProperties, EndClusterNat
  <1>2. PICK j \in 1 .. Len(s) - 1 :
          /\ EndCluster < j /\ op.boundary = j * ClusterSize /\ pc' = "eraseLoop"
          /\ op' = [op EXCEPT !.cluster = s[j + 1],
                              !.boundary = op.boundary + ClusterSize]
          /\ Overwrite(s[j + 1], Zeros(0, ClusterSize))
    BY EraseNextStep
  <1>3. /\ op'.node = n /\ op'.off = op.off /\ op'.size = op.size /\ op'.then = op.then
        /\ op'.boundary = op.boundary + ClusterSize
    BY <1>1, <1>2 DEF OpType
  <1>4. Truncating /\ Truncating'
    BY <1>0, <1>2 DEF Truncating
  <1>5. /\ Reached = op.off /\ ValidLength = op.boundary /\ Holds(ValidLength)
        /\ size = SizeNow /\ pre.content \in Seq(Cells)
    BY <1>0, <1>1, <1>4, TruncateStage DEF CallContent, Lesser
  <1>6. Reached' = op.off /\ ValidLength' = w /\ SizeNow' = SizeNow
    BY <1>0, <1>2, <1>3, <1>4 DEF Truncating, Writing, IoLoops, Reached, SizeNow,
       ValidLength, Greater, Lesser
  <1>7. Len(pre.content) \in Nat /\ Len(pre.content) <= size
    <2>1. Len(pre.content) \in Nat
      BY <1>5, LenProperties
    <2> QED BY <1>1, <1>4, <1>5, <2>1, TruncateStage DEF Greater
  <1>8. PICK l \in Nat : l = w
    BY <1>1, ClusterAssumption DEF Lesser
  <1>9. l <= op.size /\ l <= op.boundary + ClusterSize
    BY <1>1, <1>8, ClusterAssumption DEF Lesser
  <1>10. j \in Nat /\ j + 1 \in 1 .. Len(s) /\ s[j + 1] \in Clusters
    <2>1. j \in Nat /\ j + 1 \in 1 .. Len(s)
      BY <1>1, <1>2
    <2> QED BY <1>1, <2>1, ElementOfSeq
  <1>11. DOMAIN Zeros(0, ClusterSize) = 0 .. ClusterSize - 1
         /\ \A i \in 0 .. ClusterSize - 1 : Zeros(0, ClusterSize)[i] = "zero"
    BY DEF Zeros
  <1>12. bytes2clusters(l) <= Len(s) /\ bytes2clusters(l) \in Nat
    <2>1. Len(s) = bytes2clusters(op.size)
      BY <1>0 DEF SaneInv, CallInv, HasClusters
    <2> QED BY <1>1, <1>9, <2>1, ClustersMonotone, Bytes2ClustersNat
  <1>13. ASSUME NEW k \in 1 .. l
         PROVE  data'[s[(k - 1) \div ClusterSize + 1]][(k - 1) % ClusterSize] = Was(k)
    <2> DEFINE q == (k - 1) \div ClusterSize
               r == (k - 1) % ClusterSize
               z == j * ClusterSize
    <2>0. op.boundary = z /\ z \in Nat /\ k - 1 \in Nat /\ k \in Nat
      BY <1>1, <1>2, SMTT(30)
    <2>1. q \in Nat /\ q + 1 \in 1 .. bytes2clusters(l) /\ r \in 0 .. ClusterSize - 1
      BY ByteAt
    <2>2. q + 1 \in 1 .. Len(s)
      <3> HIDE DEF q, r
      <3> QED BY <1>1, <1>12, <2>1
    <2>3. s[q + 1] \in Clusters
      <3> HIDE DEF q
      <3> QED BY <1>1, <2>2, ElementOfSeq
    <2>4. CASE k <= op.boundary
      <3>1. data[s[q + 1]][r] = Was(k)
        <4>1. k \in 1 .. ValidLength
          BY <1>1, <1>5, <2>4
        <4>2. Cell(n, k) = Image(k)
          BY <1>5, <4>1 DEF Holds
        <4>3. Image(k) = Was(k)
          BY <1>1, <1>5, <2>0, ImageBefore
        <4> QED BY <4>2, <4>3 DEF Cell
      <3>2. k - 1 < z
        <4> HIDE DEF z
        <4> QED BY <2>0, <2>4
      <3>3. q < j
        BY <1>10, <2>0, <3>2, BelowEnd
      <3> HIDE DEF q, r
      <3>4. q + 1 # j + 1
        BY <1>10, <2>1, <3>3
      <3>5. s[q + 1] # s[j + 1]
        BY <1>0, <1>1, <1>10, <2>2, <3>4, SameChain DEF SaneInv
      <3>6. data'[s[q + 1]][r] = data[s[q + 1]][r]
        BY <1>2, <1>10, <2>1, <2>3, <3>5, OverwriteElsewhere
      <3>7. data'[s[q + 1]][r] = Was(k)
        BY <3>1, <3>6
      <3> QED BY <3>7 DEF q, r
    <2>5. CASE k > op.boundary
      <3>1. (k - 1) - z \in 0 .. ClusterSize - 1 /\ k - 1 = z + ((k - 1) - z)
        <4> HIDE DEF z
        <4>1. k <= z + ClusterSize /\ k > z /\ ClusterSize \in Nat /\ l \in Nat
          BY <1>9, <2>0, <2>5, ClusterAssumption
        <4> QED BY <2>0, <4>1
      <3>2. q = j
        <4> DEFINE e == (k - 1) - z
        <4>1. e \in 0 .. ClusterSize - 1 /\ k - 1 = j * ClusterSize + e
          BY <3>1
        <4>2. ClusterSize \in Nat \ {0}
          BY ClusterAssumption
        <4>3. k - 1 \in Nat /\ j \in Nat
          BY <1>10, <2>0
        <4> HIDE DEF e
        <4>4. (k - 1) \div ClusterSize = j /\ (k - 1) % ClusterSize = e
          BY <4>1, <4>2, <4>3, Quotient
        <4> QED BY <4>4
      <3>3. Was(k) = "zero"
        <4>1. ASSUME k <= Len(pre.content) PROVE FALSE
          <5>1. k \in 1 .. size
            BY <1>1, <1>7, <2>0, <4>1
          <5>2. q <= EndCluster
            BY <1>1, <5>1, ByteAt DEF EndCluster
          <5> HIDE DEF q
          <5> QED BY <1>1, <1>2, <1>10, <3>2, <5>2
        <4> QED BY <4>1 DEF Was
      <3> HIDE DEF q, r
      <3>4. data'[s[q + 1]][r] = "zero"
        BY <1>2, <1>10, <1>11, <2>1, <3>2, OverwriteHere, ZenonT(60)
      <3>5. data'[s[q + 1]][r] = Was(k)
        BY <3>3, <3>4
      <3> QED BY <3>5 DEF q, r
    <2> QED BY <1>1, <2>0, <2>4, <2>5
  <1>14. ASSUME NEW k \in 1 .. l PROVE Image(k)' = Was(k)
    BY <1>0, <1>1, <1>3, <1>6 DEF Image, Was
  <1>15. Holds(l)'
    <2>1. \A k \in 1 .. l :
            data'[chain'[n][(k - 1) \div ClusterSize + 1]][(k - 1) % ClusterSize]
              = Image(k)'
      BY <1>0, <1>13, <1>14
    <2> QED BY <1>0, <1>3, <1>12, <2>1, HoldsNext
  <1>16. ValidLength' = l
    BY <1>6, <1>8
  <1> QED BY <1>0, <1>3, <1>5, <1>6, <1>15, <1>16 DEF Holds

\* The position of the loops of pread and pwrite, and the chunk they move.
LEMMA LoopFacts ==
  ASSUME TypeOK, SaneInv, IoAt, IoLoop, faults = 0
  PROVE  /\ op.node \in Nodes /\ op \in OpType /\ pc \in IoLoops /\ pc' = pc
         /\ UNCHANGED <<node, chain, pre>>
         /\ chain[op.node] \in Seq(Clusters) /\ node[op.node].size \in Nat
         /\ Len(chain[op.node]) = bytes2clusters(node[op.node].size)
         /\ op.off \in Nat /\ op.len \in Nat /\ op.remainder \in Nat
         /\ op.remainder <= op.len
         /\ op.loffset \in Nat /\ op.out \in Seq(Cells) /\ Len(op.out) \in Nat
         /\ Chunk \in Nat /\ Chunk <= op.remainder /\ op.loffset + Chunk <= ClusterSize
         /\ Position + op.remainder <= node[op.node].size /\ Position \in Nat
         /\ \E j \in 1 .. Len(chain[op.node]) :
              /\ op.cluster = chain[op.node][j]
              /\ Position = (j - 1) * ClusterSize + op.loffset
         /\ op'.node = op.node /\ op'.kind = op.kind /\ op'.off = op.off
         /\ op'.len = op.len /\ op'.buf = op.buf
         /\ op'.remainder = op.remainder - Chunk
         /\ op'.out = IF pc = "pwriteLoop" THEN op.out
                      ELSE op.out \o [i \in 1 .. Chunk |->
                                        data[op.cluster][op.loffset + i - 1]]
  <1> DEFINE n == op.node
             s == chain[n]
             more == [i \in 1 .. Chunk |-> data[op.cluster][op.loffset + i - 1]]
  <1>0. /\ pc \in IoLoops /\ pc' = pc /\ n \in Nodes /\ op \in OpType
        /\ UNCHANGED <<node, chain, pre>> /\ op.remainder > 0
        /\ op.remainder \in Nat /\ op.loffset \in 0 .. ClusterSize - 1
        /\ s \in Seq(Clusters) /\ op.off \in Nat /\ op.len \in Nat
        /\ op.out \in Seq(Cells) /\ Len(op.out) \in Nat
        /\ op.remainder <= op.len /\ node[n].size \in Nat
    BY LenProperties DEF IoLoop, IoLoops, TypeOK, OpType, NodeType
  <1>1. /\ Position + op.remainder <= node[n].size
        /\ \E j \in 1 .. Len(s) : /\ op.cluster = s[j]
                                  /\ Position = (j - 1) * ClusterSize + op.loffset
    BY <1>0 DEF IoAt
  <1>2. /\ Chunk \in Nat /\ Chunk <= op.remainder /\ op.loffset \in Nat
        /\ op.loffset + Chunk <= ClusterSize
    BY <1>0, ClusterAssumption DEF Chunk, Lesser
  <1>3. Position \in Nat
    <2>1. CASE op.kind = "pwrite"
      BY <1>0, <2>1 DEF Position
    <2>2. CASE op.kind # "pwrite"
      BY <1>0, <2>2 DEF Position
    <2> QED BY <2>1, <2>2
  <1>4. Len(s) = bytes2clusters(node[n].size)
    BY <1>0 DEF SaneInv, FilesInv, SettledFile, HasClusters, QuietLabels, IoLoops
  <1>5. PICK r \in NextCluster(n, op.cluster) :
          op' = [op EXCEPT !.cluster = r.cluster, !.loffset = 0,
                           !.remainder = op.remainder - Chunk,
                           !.out = IF pc = "pwriteLoop" THEN op.out ELSE op.out \o more]
    BY DEF IoLoop
  <1> HIDE DEF more
  <1>6. /\ op'.node = n /\ op'.kind = op.kind /\ op'.off = op.off /\ op'.len = op.len
        /\ op'.buf = op.buf /\ op'.remainder = op.remainder - Chunk
        /\ op'.out = IF pc = "pwriteLoop" THEN op.out ELSE op.out \o more
    BY <1>0, <1>5 DEF OpType
  <1> QED BY <1>0, <1>1, <1>2, <1>3, <1>4, <1>6 DEF more

\* Byte k is at offset e of cluster number j.
LEMMA ByteInCluster ==
  ASSUME NEW j \in Nat \ {0}, NEW e \in 0 .. ClusterSize - 1, NEW k \in Nat \ {0},
         k - 1 = (j - 1) * ClusterSize + e
  PROVE  (k - 1) \div ClusterSize + 1 = j /\ (k - 1) % ClusterSize = e
  <1>0. ClusterSize \in Nat \ {0}
    BY ClusterAssumption
  <1>1. k - 1 \in Nat /\ j - 1 \in Nat
    OBVIOUS
  <1>2. (k - 1) \div ClusterSize = j - 1 /\ (k - 1) % ClusterSize = e
    BY <1>0, <1>1, Quotient
  <1> QED BY <1>2

\* A write puts the next piece of the buffer where it belongs.
LEMMA WriteContent ==
  ASSUME TypeOK, SaneInv, IoAt, CallContent, IoLoop, faults = 0, pc = "pwriteLoop"
  PROVE  node'[op'.node].size = SizeNow' /\ Holds(ValidLength)'
  <1> DEFINE n == op.node
             s == chain[n]
             size == node[n].size
  <1>0. /\ n \in Nodes /\ pc' = "pwriteLoop" /\ UNCHANGED <<node, chain, pre>>
        /\ s \in Seq(Clusters) /\ size \in Nat /\ Len(s) = bytes2clusters(size)
        /\ op.off \in Nat /\ op.len \in Nat /\ op.remainder \in Nat
        /\ op.remainder <= op.len /\ op.loffset \in Nat /\ ClusterSize \in Nat \ {0}
        /\ Chunk \in Nat /\ Chunk <= op.remainder /\ op.loffset + Chunk <= ClusterSize
        /\ op'.node = n /\ op'.off = op.off /\ op'.len = op.len /\ op'.buf = op.buf
        /\ op'.remainder = op.remainder - Chunk /\ Len(s) \in Nat
        /\ chain \in [Nodes -> Seq(Clusters)]
    BY LoopFacts, LenProperties, ClusterAssumption DEF TypeOK
  <1>1. Position = Reached /\ Reached = op.off + op.len - op.remainder
    <2>1. op.kind = "pwrite" /\ Writing
      BY DEF TypeOK, WriteLabels, Writing
    <2> QED BY <2>1 DEF Position, Reached
  <1>2. PICK j \in 1 .. Len(s) :
          op.cluster = s[j] /\ Position = (j - 1) * ClusterSize + op.loffset
    BY LoopFacts
  <1>3. Overwrite(s[j], Piece)
    BY <1>2 DEF IoLoop
  <1>4. /\ ValidLength = Greater(Reached, Len(pre.content)) /\ Holds(ValidLength)
        /\ size = SizeNow /\ SizeNow = Greater(op.off + op.len, Len(pre.content))
        /\ pre.content \in Seq(Cells) /\ Len(pre.content) \in Nat
    <2>1. Writing
      BY DEF Writing
    <2> QED BY <2>1, LenProperties DEF CallContent, ValidLength, SizeNow
  <1>5. PICK at \in Nat : at = Reached /\ at = op.off + (op.len - op.remainder)
    BY <1>0, <1>1
  <1>6. Reached' = at + Chunk /\ SizeNow' = SizeNow
        /\ ValidLength' = Greater(at + Chunk, Len(pre.content))
    <2>1. Writing'
      BY <1>0 DEF Writing
    <2>2. Reached' = op.off + op.len - (op.remainder - Chunk)
      BY <1>0, <2>1 DEF Reached
    <2>3. Reached' = at + Chunk
      <3>1. PICK o \in Nat, len \in Nat, rem \in Nat, m \in Nat :
              o = op.off /\ len = op.len /\ rem = op.remainder /\ m = Chunk
        BY <1>0
      <3>2. o + len - (rem - m) = (o + (len - rem)) + m
        BY ONLY o \in Nat, len \in Nat, rem \in Nat, m \in Nat
      <3> QED BY ONLY <1>5, <2>2, <3>1, <3>2
    <2> QED BY <1>0, <1>4, <2>1, <2>3 DEF SizeNow, ValidLength, Greater
  <1>7. PICK l \in Nat : l = Greater(at + Chunk, Len(pre.content))
    BY <1>0, <1>4, <1>5 DEF Greater
  <1>8. l <= size /\ (l <= at + Chunk \/ l <= Len(pre.content))
    <2>1. PICK p \in Nat : p = Len(pre.content)
      BY <1>4
    <2>2. PICK m \in Nat : m = Chunk /\ m <= op.remainder
      BY <1>0
    <2>3. size = Greater(op.off + op.len, p) /\ l = Greater(at + m, p)
      BY <1>4, <1>7, <2>1, <2>2
    <2>4. at + m <= op.off + op.len /\ op.off + op.len \in Nat
      <3>1. op.off \in Nat /\ op.len \in Nat /\ op.remainder \in Nat
        BY <1>0
      <3>2. at \in Nat /\ at = op.off + (op.len - op.remainder)
        BY <1>5
      <3> QED BY ONLY <2>2, <3>1, <3>2, SMTT(30)
    <2>5. l <= size /\ (l <= at + m \/ l <= p)
      <3> HIDE DEF size
      <3> QED BY ONLY <2>3, <2>4, <2>1, <2>2, <1>5, l \in Nat DEF Greater
    <2> QED BY <2>1, <2>2, <2>5
  <1>9. bytes2clusters(l) <= Len(s) /\ bytes2clusters(l) \in Nat
    BY <1>0, <1>8, ClustersMonotone, Bytes2ClustersNat
  <1>10. s[j] \in Clusters /\ j \in Nat /\ j - 1 \in Nat
    <2>1. s[j] \in Clusters
      BY <1>0, <1>2, ElementOfSeq
    <2> QED BY <1>0, <1>2, <2>1
  <1>11. DOMAIN Piece = op.loffset .. op.loffset + Chunk - 1
         /\ \A i \in DOMAIN Piece :
              Piece[i] = op.buf[(op.len - op.remainder) + i - op.loffset + 1]
    BY DEF Piece
  <1>12. (j - 1) * ClusterSize + op.loffset = at
    BY <1>1, <1>2, <1>5
  <1>13. ASSUME NEW k \in 1 .. l
         PROVE  data'[s[(k - 1) \div ClusterSize + 1]][(k - 1) % ClusterSize] = Image(k)'
    <2> DEFINE q == (k - 1) \div ClusterSize
               r == (k - 1) % ClusterSize
               z == (j - 1) * ClusterSize
    <2>1. q \in Nat /\ q + 1 \in 1 .. bytes2clusters(l) /\ r \in 0 .. ClusterSize - 1
      BY ByteAt
    <2>2. q + 1 \in 1 .. Len(s)
      <3> HIDE DEF q, r
      <3> QED BY <1>0, <1>9, <2>1
    <2>3. s[q + 1] \in Clusters
      <3> HIDE DEF q
      <3> QED BY <1>0, <2>2, ElementOfSeq
    <2>4. z \in Nat /\ k - 1 \in Nat /\ k \in Nat /\ at = z + op.loffset
      <3>1. z \in Nat
        <4>1. j - 1 \in Nat /\ ClusterSize \in Nat
          BY <1>0, <1>10
        <4> QED BY ONLY <4>1
      <3>2. k - 1 \in Nat /\ k \in Nat
        BY ONLY k \in 1 .. l, l \in Nat
      <3> QED BY <1>12, <3>1, <3>2
    <2>5. CASE at < k /\ k <= at + Chunk
      <3> DEFINE e == op.loffset + ((k - 1) - at)
      <3>1. /\ q + 1 = j /\ r = e
            /\ e \in op.loffset .. op.loffset + Chunk - 1 /\ e \in 0 .. ClusterSize - 1
        <4>1. j \in Nat \ {0}
          BY <1>2, <1>10
        <4>2. op.loffset \in Nat /\ Chunk \in Nat /\ op.loffset + Chunk <= ClusterSize
          BY <1>0
        <4>3. k \in Nat /\ at < k /\ k <= at + Chunk /\ (j - 1) * ClusterSize + op.loffset = at
          BY <1>12, <2>4, <2>5
        <4> HIDE DEF z
        <4>4. /\ (k - 1) \div ClusterSize + 1 = j
              /\ (k - 1) % ClusterSize = op.loffset + ((k - 1) - at)
              /\ op.loffset + ((k - 1) - at) \in op.loffset .. op.loffset + Chunk - 1
              /\ op.loffset + ((k - 1) - at) \in 0 .. ClusterSize - 1
          <5>1. PICK lo \in Nat, m \in Nat :
                  lo = op.loffset /\ m = Chunk /\ lo + m <= ClusterSize
            BY <4>2
          <5>2. PICK x \in Nat : x = lo + ((k - 1) - at)
            BY <4>3, <5>1
          <5>3. /\ x \in lo .. lo + m - 1 /\ x \in 0 .. ClusterSize - 1
                /\ k \in Nat \ {0}
            <6>1. ClusterSize \in Nat
              BY ClusterAssumption
            <6>2. k \in Nat /\ at < k /\ k <= at + m /\ lo + m <= ClusterSize
              BY <4>3, <5>1
            <6> QED BY ONLY <5>2, <6>1, <6>2, lo \in Nat, m \in Nat, at \in Nat, x \in Nat
          <5>4. k - 1 = (j - 1) * ClusterSize + x
            <6>1. PICK y \in Nat : y = (j - 1) * ClusterSize
              BY <2>4 DEF z
            <6>2. y + lo = at
              BY <4>3, <5>1, <6>1
            <6> QED BY ONLY <5>2, <5>3, <6>1, <6>2, lo \in Nat, at \in Nat, SMTT(30)
          <5>5. (k - 1) \div ClusterSize + 1 = j /\ (k - 1) % ClusterSize = x
            BY ONLY <4>1, <5>3, <5>4, ByteInCluster
          <5> QED BY <5>1, <5>2, <5>3, <5>5
        <4> QED BY <4>4
      <3> HIDE DEF q, r
      <3>4. data'[s[j]][e] = Piece[e]
        <4>1. /\ TypeOK /\ s[j] \in Clusters /\ Overwrite(s[j], Piece)
              /\ e \in 0 .. ClusterSize - 1 /\ e \in DOMAIN Piece
          BY <1>3, <1>10, <1>11, <3>1
        <4> HIDE DEF s, e
        <4> QED BY ONLY <4>1, OverwriteHere
      <3>5. Piece[e] = op.buf[(op.len - op.remainder) + e - op.loffset + 1]
        BY <1>11, <3>1
      <3>6. (op.len - op.remainder) + e - op.loffset + 1 = k - op.off
        <4>1. PICK d \in Nat : d = op.len - op.remainder /\ at = op.off + d
          BY <1>0, <1>5
        <4>2. op.off \in Nat /\ op.loffset \in Nat
          BY <1>0
        <4>3. k \in Nat
          BY <2>4
        <4>4. d + (op.loffset + ((k - 1) - (op.off + d))) - op.loffset + 1 = k - op.off
          <5>1. PICK o \in Nat, lo \in Nat : o = op.off /\ lo = op.loffset
            BY <4>2
          <5>2. d + (lo + ((k - 1) - (o + d))) - lo + 1 = k - o
            BY ONLY <4>3, d \in Nat, o \in Nat, lo \in Nat
          <5> QED BY ONLY <5>1, <5>2
        <4> QED BY ONLY <4>1, <4>4
      <3>7. Image(k)' = op.buf[k - op.off]
        <4>1. op.off \in Nat /\ op.off <= at
          BY <1>0, <1>5
        <4>2. op.off < k
          BY ONLY <4>1, <2>4, <2>5, at \in Nat
        <4>3. op'.off < k /\ k <= Reached'
          BY <1>0, <1>6, <2>5, <4>2
        <4> QED BY <1>0, <4>3 DEF Image
      <3>8. data'[s[q + 1]][r] = Image(k)'
        BY <3>1, <3>4, <3>5, <3>6, <3>7
      <3> QED BY <3>8 DEF q, r
    <2>6. CASE ~(at < k /\ k <= at + Chunk)
      <3>1. k \in 1 .. ValidLength
        <4>1. k <= at \/ k <= Len(pre.content)
          <5>1. Chunk \in Nat /\ Len(pre.content) \in Nat /\ k \in Nat
            BY <1>0, <1>4, <2>4
          <5> QED BY ONLY <5>1, <1>5, <1>8, <2>6, k \in 1 .. l, l \in Nat
        <4> QED BY <1>4, <1>5, <2>4, <4>1 DEF Greater
      <3>2. data[s[q + 1]][r] = Image(k)
        BY <1>4, <3>1 DEF Holds, Cell
      <3>3. s[q + 1] # s[j] \/ r \notin DOMAIN Piece
        <4>1. CASE q + 1 = j
          <5>1. k - 1 = q * ClusterSize + r
            BY <1>0, <2>4, DivMod
          <5> HIDE DEF q, r
          <5>2. q = j - 1
            BY <1>10, <2>1, <4>1
          <5>3. k - 1 = z + r
            BY <5>1, <5>2
          <5> HIDE DEF z
          <5>4. r \notin op.loffset .. op.loffset + Chunk - 1
            <6>1. r \in Nat
              BY <2>1
            <6> QED BY <1>0, <1>5, <2>4, <2>6, <5>3, <6>1, SMTT(30)
          <5> QED BY <1>11, <5>4
        <4>2. CASE q + 1 # j
          <5> HIDE DEF q, r
          <5> QED BY <1>0, <1>2, <2>2, <4>2, SameChain DEF SaneInv
        <4> QED BY <4>1, <4>2
      <3>4. data'[s[q + 1]][r] = data[s[q + 1]][r]
        <4> HIDE DEF q, r
        <4> QED BY <1>3, <1>10, <2>1, <2>3, <3>3, OverwriteElsewhere
      <3>5. Image(k)' = Image(k)
        <4>1. (op.off < k /\ k <= at) <=> (op.off < k /\ k <= at + Chunk)
          BY <1>0, <1>5, <2>4, <2>6, SMTT(30)
        <4> QED BY <1>0, <1>5, <1>6, <4>1 DEF Image, Was
      <3>6. data'[s[q + 1]][r] = Image(k)'
        BY <3>2, <3>4, <3>5
      <3> QED BY <3>6
    <2> QED BY <2>5, <2>6
  <1>14. Holds(l)'
    <2>1. \A k \in 1 .. l :
            data'[chain'[n][(k - 1) \div ClusterSize + 1]][(k - 1) % ClusterSize]
              = Image(k)'
      BY <1>0, <1>13
    <2> QED BY <1>0, <1>9, <2>1, HoldsNext
  <1>15. ValidLength' = l
    BY <1>6, <1>7
  <1> QED BY <1>0, <1>4, <1>6, <1>14, <1>15 DEF Holds

\* A read returns the bytes of the next cluster.
LEMMA ReadContent ==
  ASSUME TypeOK, SaneInv, IoAt, CallContent, IoLoop, faults = 0, pc = "preadLoop",
         op.kind = "pread"
  PROVE  node'[op'.node].size = SizeNow' /\ Holds(ValidLength)' /\ ReadSoFar'
  <1> DEFINE n == op.node
             s == chain[n]
             size == node[n].size
  <1>0. /\ n \in Nodes /\ pc' = "preadLoop" /\ UNCHANGED <<node, chain, pre>>
        /\ op'.node = n /\ op'.off = op.off /\ op'.len = op.len /\ op'.buf = op.buf
        /\ op'.remainder = op.remainder - Chunk
    BY LoopFacts
  <1>1. /\ op.off \in Nat /\ op.len \in Nat /\ op.remainder \in Nat /\ op.loffset \in Nat
        /\ Chunk \in Nat /\ Chunk <= op.remainder /\ op.loffset + Chunk <= ClusterSize
        /\ size \in Nat
    BY LoopFacts
  <1>2. Reading /\ ~Truncating /\ ~Writing /\ Reached = op.off
    BY StagesExclude DEF Reading, Writing, Truncating, Reached
  <1>3. Reading' /\ ~Truncating' /\ ~Writing' /\ Reached' = op.off
    BY <1>0 DEF Reading, Writing, Truncating, Reached
  <1>4. /\ pre.content \in Seq(Cells) /\ Len(pre.content) \in Nat
        /\ size = Len(pre.content) /\ Holds(size) /\ ReadSoFar
    <2>1. SizeNow = Len(pre.content) /\ ValidLength = size
      BY <1>2 DEF SizeNow, ValidLength
    <2> QED BY <2>1, LenProperties DEF CallContent
  <1>5. node'[op'.node].size = size /\ SizeNow' = size /\ ValidLength' = size
    <2>1. SizeNow' = Len(pre.content)
      BY <1>0, <1>3 DEF SizeNow
    <2>2. ValidLength' = node'[op'.node].size
      BY <1>0, <1>3 DEF ValidLength
    <2> QED BY <1>0, <1>4, <2>1, <2>2
  <1>6. Holds(size)'
    <2>1. UNCHANGED <<chain, data>>
      BY <1>0 DEF IoLoop
    <2>2. \A k \in 1 .. size : Image(k)' = Image(k)
      BY <1>0, <1>2, <1>3, SameImage
    <2>3. PICK l \in Nat : l = size
      BY <1>1
    <2>4. Holds(l)'
      BY <1>0, <1>4, <2>1, <2>2, <2>3, HoldsStill
    <2> QED BY <1>0, <2>3, <2>4
  <1>7. PICK o \in Nat, m \in Nat :
          /\ o = Len(op.out) /\ m = Chunk /\ m <= op.remainder
          /\ op.loffset + m <= ClusterSize
    BY <1>1, LoopFacts
  <1> DEFINE more == [i \in 1 .. Chunk |-> data[op.cluster][op.loffset + i - 1]]
  <1>8. /\ op'.out = op.out \o more /\ op.out \in Seq(Cells)
        /\ more \in Seq(Cells) /\ Len(more) = m
        /\ Len(op'.out) = o + m
        /\ \A k \in 1 .. o : op'.out[k] = op.out[k]
        /\ \A k \in o + 1 .. o + m : op'.out[k] = more[k - o]
    <2>1. op'.out = op.out \o more /\ op.out \in Seq(Cells)
      BY LoopFacts
    <2>2. op.cluster \in Clusters
      BY DEF IoLoop, CLUSTER_INVALID
    <2>3. \A i \in 1 .. m : data[op.cluster][op.loffset + i - 1] \in Cells
      <3> SUFFICES ASSUME NEW i \in 1 .. m
                   PROVE  data[op.cluster][op.loffset + i - 1] \in Cells
        OBVIOUS
      <3>0. op.loffset \in Nat /\ op.loffset + m <= ClusterSize /\ ClusterSize \in Nat
        BY <1>1, <1>7, ClusterAssumption
      <3>1. op.loffset + i - 1 \in 0 .. ClusterSize - 1
        BY ONLY <3>0, i \in 1 .. m, m \in Nat
      <3>2. data[op.cluster] \in [0 .. ClusterSize - 1 -> Cells]
        BY <2>2 DEF TypeOK
      <3> QED BY <3>1, <3>2
    <2>4. more \in Seq(Cells) /\ Len(more) = m
      BY <1>7, <2>3
    <2> HIDE DEF more
    <2>5. /\ Len(op.out \o more) = o + m
          /\ \A k \in 1 .. o + m :
               (op.out \o more)[k] = IF k <= o THEN op.out[k] ELSE more[k - o]
      <3>1. Len(op.out) = o
        BY <1>7
      <3> QED BY ONLY <2>1, <2>4, <3>1, o \in Nat, m \in Nat, ConcatProperties
    <2> QED BY <2>1, <2>4, <2>5
  <1>9. PICK j \in 1 .. Len(s) :
          op.cluster = s[j] /\ op.off + o = (j - 1) * ClusterSize + op.loffset
    <2>1. Position = op.off + o
      BY <1>7 DEF Position
    <2> QED BY <2>1, LoopFacts
  <1>10. op.off + o + op.remainder <= size
    <2>1. Position = op.off + o
      BY <1>7 DEF Position
    <2> QED BY <2>1, LoopFacts
  <1>11. ASSUME NEW k \in o + 1 .. o + m
         PROVE  op'.out[k] = pre.content[op.off + k]
    <2>1. PICK e \in Nat : e = op.loffset + (k - o) - 1
      BY <1>1, <1>7
    <2>2. e \in 0 .. ClusterSize - 1
      <3>1. ClusterSize \in Nat /\ op.loffset \in Nat /\ op.loffset + m <= ClusterSize
        BY <1>1, <1>7, ClusterAssumption
      <3> QED BY ONLY <2>1, <3>1, o \in Nat, m \in Nat, k \in o + 1 .. o + m, e \in Nat
    <2>3. PICK b \in Nat \ {0} : b = op.off + k
      BY <1>1
    <2>4. b - 1 = (j - 1) * ClusterSize + e
      <3>1. PICK z \in Nat : z = (j - 1) * ClusterSize
        <4>1. j - 1 \in Nat /\ ClusterSize \in Nat
          BY ClusterAssumption, LoopFacts
        <4>2. (j - 1) * ClusterSize \in Nat
          BY ONLY <4>1
        <4> QED BY <4>2
      <3>2. op.off + o = z + op.loffset /\ op.off \in Nat /\ op.loffset \in Nat
        BY <1>1, <1>9, <3>1
      <3>3. b - 1 = z + e
        <4>1. k \in Nat /\ b \in Nat /\ e \in Nat
          BY <2>3
        <4>2. PICK x \in Nat, y \in Nat : x = op.off /\ y = op.loffset
          BY <3>2
        <4>3. x + o = z + y /\ b = x + k /\ e = y + (k - o) - 1
          BY <2>1, <2>3, <3>2, <4>2
        <4> QED BY ONLY <4>1, <4>3, o \in Nat, z \in Nat, x \in Nat, y \in Nat
      <3> QED BY ONLY <3>1, <3>3
    <2>5. (b - 1) \div ClusterSize + 1 = j /\ (b - 1) % ClusterSize = e
      <3>1. j \in Nat \ {0}
        BY LoopFacts
      <3> QED BY ONLY <2>2, <2>3, <2>4, <3>1, b \in Nat \ {0}, ByteInCluster
    <2>6. b \in 1 .. size
      <3>1. op.off \in Nat /\ op.remainder \in Nat /\ size \in Nat
        BY <1>1
      <3>2. m <= op.remainder
        BY <1>7
      <3> HIDE DEF size
      <3> QED BY ONLY <1>10, <2>3, <3>1, <3>2, o \in Nat, m \in Nat,
                      k \in o + 1 .. o + m, b \in Nat \ {0}, SMTT(30)
    <2>7. data[s[j]][e] = Image(b)
      BY <1>4, <2>5, <2>6 DEF Holds, Cell
    <2>8. Image(b) = pre.content[b]
      BY <1>1, <1>2, <1>4, <2>6, ImageBefore DEF Was
    <2>9. op'.out[k] = data[s[j]][e]
      <3>1. more[k - o] = data[op.cluster][op.loffset + (k - o) - 1]
        <4>1. k - o \in 1 .. Chunk
          BY <1>7
        <4> QED BY <4>1
      <3> QED BY <1>8, <1>9, <2>1, <3>1
    <2> QED BY <2>3, <2>7, <2>8, <2>9
  <1>12. ReadSoFar'
    <2>1. op'.off + Len(op'.out) + op'.remainder = Lesser(op'.off + op'.len, Len(pre'.content))
      <3>1. op.off + o + op.remainder = Lesser(op.off + op.len, Len(pre.content))
        BY <1>2, <1>4, <1>7 DEF ReadSoFar
      <3>2. op.off + (o + m) + (op.remainder - m) = op.off + o + op.remainder
        BY ONLY <1>1, o \in Nat, m \in Nat
      <3>3. Len(op'.out) = o + m /\ op'.remainder = op.remainder - m
        BY <1>0, <1>7, <1>8
      <3> QED BY <1>0, <3>1, <3>2, <3>3
    <2>2. \A k \in 1 .. Len(op'.out) : op'.out[k] = pre'.content[op'.off + k]
      <3> SUFFICES ASSUME NEW k \in 1 .. o + m
                   PROVE  op'.out[k] = pre.content[op.off + k]
        BY <1>0, <1>8
      <3>1. CASE k <= o
        BY <1>2, <1>4, <1>7, <1>8, <3>1 DEF ReadSoFar
      <3>2. CASE k > o
        BY <1>11, <3>2
      <3> QED BY <3>1, <3>2
    <2> QED BY <2>1, <2>2 DEF ReadSoFar
  <1> QED BY <1>0, <1>5, <1>6, <1>12 DEF Holds

-----------------------------------------------------------------------------
(* The stages of a call, one after the other *)

\* What a call begins with.
LEMMA BeginContent ==
  ASSUME TypeOK, TypeOK', SaneInv, Call, sane' PROVE CallContent'
  <1>1. PICK n \in Nodes :
          /\ op'.node = n /\ pc = "idle" /\ ~op'.rollback /\ op'.then = "done"
          /\ pre' = [content |-> Content(n), cmap |-> cmap] /\ faults = 0
          /\ UNCHANGED <<node, data, chain>> /\ pc' \in {"truncate", "pwrite", "pread"}
    BY CallBegins DEF disk
  <1>2. /\ Content(n) \in Seq(Cells) /\ Len(Content(n)) = node[n].size
        /\ \A k \in 1 .. node[n].size :
             Content(n)[k]
               = data[chain[n][(k - 1) \div ClusterSize + 1]][(k - 1) % ClusterSize]
        /\ bytes2clusters(node[n].size) = Len(chain[n]) /\ node[n].size \in Nat
    <2>1. node[n].size \in Nat
      BY DEF TypeOK, NodeType
    <2>2. bytes2clusters(node[n].size) = Len(chain[n])
      BY <1>1 DEF SaneInv, FilesInv, QuietLabels, SettledFile, HasClusters
    <2>3. bytes2clusters(node[n].size) <= Len(chain[n])
      BY <2>1, <2>2, Bytes2ClustersNat
    <2> QED BY <2>1, <2>2, <2>3, ContentOfChain
  <1>3. pre'.content = Content(n)
    BY <1>1
  <1>4. op'.off \in Nat /\ op'.size \in Nat
    BY DEF TypeOK, OpType
  <1>5. ~Writing' /\ ~Reading' /\ Reached' = op'.off
    BY <1>1 DEF Writing, Reading, Reached
  <1>6. SizeNow' = node[n].size
    BY <1>1, <1>2, <1>3, <1>5 DEF SizeNow
  <1>7. PICK l \in Nat : l = ValidLength' /\ l <= node[n].size
    <2>1. ValidLength' = IF Truncating' THEN Lesser(op'.size, node'[op'.node].size)
                         ELSE node'[op'.node].size
      BY <1>1, <1>5 DEF ValidLength, Lesser
    <2> QED BY <1>1, <1>2, <1>4, <2>1 DEF Lesser
  <1>8. Holds(l)'
    <2>1. bytes2clusters(l) <= Len(chain'[op'.node])
      BY <1>1, <1>2, <1>7, ClustersMonotone
    <2>2. ASSUME NEW k \in 1 .. l
          PROVE  data'[chain'[op'.node][(k - 1) \div ClusterSize + 1]][(k - 1) % ClusterSize]
                   = Image(k)'
      <3>1. k \in 1 .. node[n].size /\ k \in Nat
        BY <1>2, <1>7
      <3>2. Image(k)' = Content(n)[k]
        <4>1. ~(op'.off < k /\ k <= Reached')
          BY <1>4, <1>5, <3>1
        <4> QED BY <1>2, <1>3, <3>1, <4>1 DEF Image, Was
      <3> QED BY <1>1, <1>2, <3>1, <3>2
    <2> QED BY <2>1, <2>2 DEF Holds, Cell, bytes2clusters
  <1>9. Holds(ValidLength)'
    BY <1>7, <1>8 DEF Holds
  <1>10. ReadSoFar'
    BY <1>5 DEF ReadSoFar
  <1> QED BY <1>1, <1>2, <1>3, <1>6, <1>9, <1>10 DEF CallContent

\* The steps that a call is continued with.
LEMMA ContentStages ==
  ASSUME TypeOK, Step, ~Done, pc' \notin {"done", "bug"}
  PROVE  \/ Truncating /\ Truncating' /\ pc' # "eraseLoop"
         \/ EraseFirst \/ EraseNext
         \/ Truncated /\ op.then # "done" /\ (EraseStart \/ EraseEnd)
         \/ TruncateWithin /\ op.then # "done" /\ node[op.node].size = op.size
         \/ WriteGap \/ WriteExtend \/ WriteStart \/ ReadStart \/ IoLoop
         \/ Advance /\ op.ret \in IoLoops /\ pc' \in {"advance", op.ret}
            /\ op'.rollback = op.rollback
  <1>1. CASE Advance
    <2>1. pc = "advance" /\ op.ret # "idle" /\ op'.ret = op.ret
          /\ pc' \in {"advance", op.ret} /\ op'.rollback = op.rollback
      BY <1>1, CursorArguments DEF Return
    <2>2. op.ret \in {"growLoop", "shrinkCrop", "eraseFirst", "pwriteLoop", "preadLoop"}
      BY <2>1 DEF TypeOK, OpType
    <2> QED BY <1>1, <2>1, <2>2 DEF Truncating, IoLoops
  <1>2. CASE Truncate
    <2>1. CASE TruncateShrink
      BY <2>1 DEF TruncateShrink, Truncating
    <2>2. CASE TruncateWithin
      <3>1. CASE node[op.node].size # op.size
        BY <2>2, <3>1 DEF TruncateWithin, Goto, Truncating
      <3>2. CASE node[op.node].size = op.size
        BY <2>2, <3>2 DEF TruncateWithin, Return
      <3> QED BY <3>1, <3>2
    <2> QED BY <1>2, <2>1, <2>2 DEF Truncate
  <1>3. CASE Grow
    <2>1. pc' # "eraseLoop"
      BY <1>3 DEF Grow, GrowStart, GrowEmpty, GrowAllocate, GrowNoSpace, GrowFat,
         GrowFatEnd, GrowLink, GrowEnd, CallAdvance, Return, Goto
    <2> QED BY <1>3, <2>1, GrowArguments
  <1>4. CASE Shrink
    <2>1. pc' # "eraseLoop"
      BY <1>4 DEF Shrink, ShrinkStart, ShrinkAll, ShrinkCrop, ShrinkFree, ShrinkInvalid,
         ShrinkEnd, CallAdvance, Return, Goto
    <2> QED BY <1>4, <2>1, ShrinkArguments
  <1>5. CASE Erase
    <2>1. CASE EraseStart /\ ~Truncated
      <3>1. Truncating /\ Truncating'
        BY <2>1, EraseArguments
      <3>2. pc' # "eraseLoop"
        BY <2>1 DEF EraseStart, CallAdvance
      <3> QED BY <3>1, <3>2
    <2>2. CASE Truncated /\ (EraseStart \/ EraseEnd)
      BY <2>2 DEF Truncated, Return
    <2> QED BY <1>5, <2>1, <2>2 DEF Erase, EraseEnd
  <1>6. CASE Io
    BY <1>6 DEF Io, IoInvalid, IoEnd, Return
  <1>7. CASE DeviceFails
    BY <1>7 DEF DeviceFails, Return
  <1>8. CASE AssertionFails
    BY <1>8 DEF AssertionFails, exfat_bug
  <1> QED BY <1>1, <1>2, <1>3, <1>4, <1>5, <1>6, <1>7, <1>8 DEF Step

\* A step that only goes on to the next stage: the file holds what it held.
LEMMA ContentStill ==
  ASSUME TypeOK, op.node \in Nodes, op'.node = op.node, UNCHANGED <<chain, data, pre>>,
         op'.off = op.off, op'.buf = op.buf, CallContent, Reached' = Reached,
         ValidLength' \in Nat, ValidLength' <= ValidLength
  PROVE  Holds(ValidLength)'
  <1>1. ValidLength \in Nat /\ Holds(ValidLength)
    BY ContentNumbers DEF CallContent
  <1>2. PICK l1 \in Nat, l2 \in Nat : l1 = ValidLength /\ l2 = ValidLength' /\ l2 <= l1
    BY <1>1
  <1>3. \A k \in 1 .. l2 : Image(k)' = Image(k)
    BY SameImage
  <1>4. Holds(l2)'
    BY <1>1, <1>2, <1>3, HoldsStill
  <1> QED BY <1>2, <1>4 DEF Holds

\* exfat_generic_pwrite begins to extend the file.
LEMMA WriteGapContent ==
  ASSUME TypeOK, CallContent, WriteGap
  PROVE  node'[op'.node].size = SizeNow' /\ Holds(ValidLength)'
  <1> DEFINE n == op.node
             p == Len(pre.content)
             size == node[n].size
  <1>0. /\ n \in Nodes /\ op \in OpType /\ pc = "pwrite"
        /\ UNCHANGED <<node, chain, data, pre>>
    BY DEF TypeOK, WriteGap, disk, history
  <1>1. p \in Nat /\ op.off \in Nat /\ op.len \in Nat /\ size \in Nat
    BY <1>0, ContentNumbers DEF CallContent
  <1>2. Reached = op.off /\ size = p /\ ValidLength = size
    <2>1. ~Writing /\ ~Truncating
      BY <1>0 DEF Writing, Truncating
    <2> QED BY <1>0, <2>1 DEF Reached, SizeNow, ValidLength, CallContent
  <1>3. CASE op.off > size
    <2>1. /\ op' = [op EXCEPT !.size = op.off, !.erase = TRUE, !.then = "pwriteExtend"]
          /\ pc' = "truncate"
      BY <1>3 DEF WriteGap, SubTruncate
    <2>2. /\ op'.node = n /\ op'.off = op.off /\ op'.buf = op.buf /\ op'.size = op.off
          /\ op'.then = "pwriteExtend"
      BY <1>0, <2>1 DEF OpType
    <2>3. ~Writing' /\ Truncating'
      BY <2>1 DEF Writing, Truncating
    <2>4. Reached' = op.off /\ SizeNow' = p /\ ValidLength' = Lesser(op.off, size)
      BY <1>0, <2>1, <2>2, <2>3 DEF Reached, SizeNow, ValidLength, Lesser
    <2>5. ValidLength' \in Nat /\ ValidLength' <= ValidLength
      BY <1>1, <1>2, <2>4 DEF Lesser
    <2> QED BY <1>0, <1>2, <2>2, <2>4, <2>5, ContentStill
  <1>4. CASE ~(op.off > size)
    <2>1. UNCHANGED op /\ pc' = "pwriteExtend"
      BY <1>4 DEF WriteGap, Goto
    <2>2. ~Writing' /\ ~Truncating'
      BY <2>1 DEF Writing, Truncating
    <2>3. /\ Reached' = op.off /\ SizeNow' = Greater(op.off, p) /\ ValidLength' = size
      BY <1>0, <2>1, <2>2 DEF Reached, SizeNow, ValidLength, Greater
    <2>4. SizeNow' = size /\ ValidLength' \in Nat /\ ValidLength' <= ValidLength
      BY <1>1, <1>2, <1>4, <2>3 DEF Greater
    <2> QED BY <1>0, <1>2, <2>1, <2>3, <2>4, ContentStill
  <1> QED BY <1>3, <1>4

LEMMA WriteExtendContent ==
  ASSUME TypeOK, CallContent, WriteExtend
  PROVE  node'[op'.node].size = SizeNow' /\ Holds(ValidLength)'
  <1> DEFINE n == op.node
             p == Len(pre.content)
             size == node[n].size
  <1>0. /\ n \in Nodes /\ op \in OpType /\ pc = "pwriteExtend"
        /\ UNCHANGED <<node, chain, data, pre>>
    BY DEF TypeOK, WriteExtend, disk, history
  <1>1. p \in Nat /\ op.off \in Nat /\ op.len \in Nat /\ size \in Nat
    BY <1>0, ContentNumbers DEF CallContent
  <1>2. Reached = op.off /\ size = Greater(op.off, p) /\ ValidLength = size
    <2>1. ~Writing /\ ~Truncating
      BY <1>0 DEF Writing, Truncating
    <2> QED BY <1>0, <2>1 DEF Reached, SizeNow, ValidLength, CallContent
  <1>3. CASE op.off + op.len > size
    <2>1. /\ op' = [op EXCEPT !.size = op.off + op.len, !.erase = FALSE,
                              !.then = "pwriteData"]
          /\ pc' = "truncate"
      BY <1>3 DEF WriteExtend, SubTruncate
    <2>2. /\ op'.node = n /\ op'.off = op.off /\ op'.buf = op.buf
          /\ op'.size = op.off + op.len /\ op'.then = "pwriteData"
      BY <1>0, <2>1 DEF OpType
    <2>3. ~Writing' /\ Truncating'
      BY <2>1 DEF Writing, Truncating
    <2>4. /\ Reached' = op.off /\ SizeNow' = Greater(op.off, p)
          /\ ValidLength' = Lesser(op.off + op.len, size)
      BY <1>0, <2>1, <2>2, <2>3 DEF Reached, SizeNow, ValidLength, Lesser, Greater
    <2>5. ValidLength' \in Nat /\ ValidLength' <= ValidLength
      BY <1>1, <1>2, <2>4 DEF Lesser
    <2> QED BY <1>0, <1>2, <2>2, <2>4, <2>5, ContentStill
  <1>4. CASE ~(op.off + op.len > size)
    <2>1. UNCHANGED op /\ pc' = "pwriteData"
      BY <1>4 DEF WriteExtend, Goto
    <2>2. ~Writing'
      BY <2>1 DEF Writing
    <2>3. Reached' = op.off
      BY <2>1, <2>2 DEF Reached
    <2>4. /\ SizeNow' = Greater(op.off + op.len, p) /\ ValidLength' = Greater(op.off, p)
      BY <1>0, <2>1, <2>2, <2>3 DEF SizeNow, ValidLength, Greater
    <2>5. SizeNow' = size /\ ValidLength' \in Nat /\ ValidLength' <= ValidLength
      BY <1>1, <1>2, <1>4, <2>4 DEF Greater
    <2> QED BY <1>0, <1>2, <2>1, <2>3, <2>5, ContentStill
  <1> QED BY <1>3, <1>4

\* The loops of pread and pwrite begin.
LEMMA WriteStartContent ==
  ASSUME TypeOK, CallContent, WriteStart, pc' # "done"
  PROVE  node'[op'.node].size = SizeNow' /\ Holds(ValidLength)'
  <1> DEFINE n == op.node
             p == Len(pre.content)
             size == node[n].size
  <1>0. n \in Nodes /\ op \in OpType /\ pc = "pwriteData"
    BY DEF TypeOK, WriteStart
  <1>1. p \in Nat /\ op.off \in Nat /\ op.len \in Nat /\ size \in Nat
    BY <1>0, ContentNumbers DEF CallContent
  <1>2. /\ SameArguments /\ pc' = "advance" /\ op'.ret = "pwriteLoop"
        /\ op'.remainder = op.len /\ UNCHANGED <<chain, data, pre>>
        /\ node'[n].size = size
    <2>1. IoStart(op.len, "pwriteLoop")
      BY DEF WriteStart
    <2> QED BY <1>0, <1>1, <2>1, StartArguments DEF Return, disk, history
  <1>3. op'.node = n
    BY CallSteps, <1>0 DEF Step, Io, Done
  <1>4. Reached = op.off /\ size = Greater(op.off + op.len, p)
        /\ ValidLength = Greater(op.off, p)
    <2>1. ~Writing
      BY <1>0 DEF Writing
    <2> QED BY <1>0, <2>1 DEF Reached, SizeNow, ValidLength, CallContent
  <1>5. Writing'
    BY <1>2 DEF Writing
  <1>6. Reached' = op.off
    <2>1. Reached' = op.off + op.len - op.len
      BY <1>2, <1>5 DEF Reached, SameArguments
    <2> QED BY <1>1, <2>1
  <1>7. SizeNow' = size /\ ValidLength' = ValidLength
    BY <1>2, <1>4, <1>5, <1>6 DEF SizeNow, ValidLength, SameArguments, Greater
  <1>8. ValidLength' \in Nat /\ ValidLength' <= ValidLength
    BY <1>1, <1>4, <1>7 DEF Greater
  <1> QED BY <1>0, <1>2, <1>3, <1>4, <1>6, <1>7, <1>8, ContentStill DEF SameArguments

LEMMA ReadStartContent ==
  ASSUME TypeOK, IoAt, CallContent, ReadStart, pc' # "done"
  PROVE  node'[op'.node].size = SizeNow' /\ Holds(ValidLength)' /\ ReadSoFar'
  <1> DEFINE n == op.node
             p == Len(pre.content)
             size == node[n].size
  <1>0. n \in Nodes /\ op \in OpType /\ pc = "pread" /\ op.out = <<>>
    BY DEF TypeOK, ReadStart, IoAt
  <1>1. p \in Nat /\ op.off \in Nat /\ op.len \in Nat /\ size \in Nat
    BY <1>0, ContentNumbers DEF CallContent
  <1>2. /\ SameArguments /\ pc' = "advance" /\ op'.ret = "preadLoop"
        /\ op'.remainder = ReadLength /\ UNCHANGED <<chain, data, pre>>
        /\ node'[n].size = size /\ op'.out = <<>> /\ ReadLength # 0
    <2>1. IoStart(ReadLength, "preadLoop")
      BY DEF ReadStart, ReadLength
    <2>2. ReadLength \in Nat
      BY <1>0, ReadLengthNat
    <2> QED BY <1>0, <1>1, <2>1, <2>2, StartArguments DEF Return, disk, history
  <1>3. op'.node = n
    BY CallSteps, <1>0 DEF Step, Io, Done
  <1>4. Reached = op.off /\ size = p /\ ValidLength = size
    <2>1. ~Writing /\ ~Truncating
      BY <1>0 DEF Writing, Truncating
    <2> QED BY <1>0, <2>1 DEF Reached, SizeNow, ValidLength, CallContent
  <1>5. ~Writing' /\ ~Truncating' /\ Reached' = op.off
    BY <1>2 DEF Writing, Truncating, Reached, IoLoops, SameArguments
  <1>6. SizeNow' = size /\ ValidLength' = size
    BY <1>2, <1>3, <1>4, <1>5 DEF SizeNow, ValidLength
  <1>7. Holds(ValidLength)'
    BY <1>0, <1>1, <1>2, <1>3, <1>4, <1>5, <1>6, ContentStill DEF SameArguments
  <1>8. ReadSoFar'
    <2>1. op.off + 0 + ReadLength = Lesser(op.off + op.len, p)
      BY <1>1, <1>2, <1>4 DEF ReadLength, Lesser
    <2> QED BY <1>2, <2>1 DEF ReadSoFar, SameArguments, Lesser
  <1> QED BY <1>2, <1>3, <1>6, <1>7, <1>8

\* exfat_advance_cluster() in the loops of pread and pwrite.
LEMMA AdvanceContent ==
  ASSUME TypeOK, SaneInv, CallContent, Advance, op.ret \in IoLoops,
         pc' \in {"advance", op.ret}
  PROVE  node'[op'.node].size = SizeNow' /\ Holds(ValidLength)' /\ ReadSoFar'
  <1>0. op.node \in Nodes /\ pc = "advance" /\ op'.node = op.node /\ ~Done
    <2>1. op.node \in Nodes /\ pc = "advance" /\ ~Done
      BY AdvanceStep DEF Done
    <2> QED BY <2>1, CallSteps DEF Step
  <1>1. /\ SameArguments /\ op'.ret = op.ret /\ op'.remainder = op.remainder
        /\ op'.out = op.out
    BY CursorArguments
  <1>2. UNCHANGED <<chain, data, pre>> /\ node'[op.node].size = node[op.node].size
    BY <1>0, AdvanceStep
  <1>3. Writing' <=> Writing
    BY <1>0, <1>1 DEF Writing, IoLoops
  <1>4. Reading' <=> Reading
    BY <1>0, <1>1 DEF Reading, IoLoops
  <1>5. ~Truncating /\ ~Truncating'
    BY <1>0, <1>1 DEF Truncating, IoLoops
  <1>6. pc' # "pwriteData" /\ pc' # "pwriteExtend" /\ pc' # "eraseLoop"
    BY DEF IoLoops
  <1>7. Reached' = Reached
    BY <1>1, <1>3 DEF Reached, SameArguments
  <1>8. SizeNow' = SizeNow /\ ValidLength' = ValidLength
    BY <1>0, <1>1, <1>2, <1>3, <1>5, <1>6, <1>7 DEF SizeNow, ValidLength, SameArguments, Greater
  <1>9. ValidLength \in Nat
    BY <1>0, ContentNumbers DEF CallContent
  <1>10. Holds(ValidLength)'
    BY <1>0, <1>1, <1>2, <1>7, <1>8, <1>9, ContentStill DEF SameArguments
  <1>11. ReadSoFar'
    BY <1>0, <1>1, <1>2, <1>4 DEF ReadSoFar, CallContent, SameArguments, Lesser
  <1> QED BY <1>0, <1>2, <1>8, <1>10, <1>11 DEF CallContent

\* A cluster behind the one in which the file ends begins behind its end.
LEMMA BehindEnd ==
  ASSUME NEW size \in Nat, NEW k \in Nat, size \div ClusterSize < k
  PROVE  size <= k * ClusterSize
  <1>0. ClusterSize \in Nat \ {0}
    BY ClusterAssumption
  <1>1. PICK q \in Nat, r \in 0 .. ClusterSize - 1 :
          q = size \div ClusterSize /\ r = size % ClusterSize
    BY <1>0
  <1>2. size = q * ClusterSize + r /\ q < k
    BY <1>0, <1>1, DivMod
  <1>3. PICK d \in Nat : k = q + 1 + d
    <2>1. k - (q + 1) \in Nat
      BY <1>2
    <2> QED BY <2>1
  <1>4. k * ClusterSize = q * ClusterSize + ClusterSize + d * ClusterSize
    BY ONLY <1>0, <1>3, q \in Nat, d \in Nat, k \in Nat
  <1>5. q * ClusterSize \in Nat /\ d * ClusterSize \in Nat
    BY <1>0
  <1> QED BY ONLY <1>0, <1>2, <1>4, <1>5, r \in 0 .. ClusterSize - 1, size \in Nat

\* exfat_truncate() of exfat_generic_pwrite ends: the gap is zeroed, or the
\* file has the clusters for what is to be written.
LEMMA TruncatedContent ==
  ASSUME TypeOK, SaneInv, EraseAt, Arguments, CallContent, Truncated, op.then # "done",
         EraseStart \/ EraseEnd
  PROVE  node'[op'.node].size = SizeNow' /\ Holds(ValidLength)'
  <1> DEFINE n == op.node
             p == Len(pre.content)
             size == node[n].size
  <1>0. /\ n \in Nodes /\ op \in OpType /\ pc \in {"erase", "eraseLoop"} /\ Truncating
        /\ UNCHANGED <<chain, data, pre>>
    <2>1. pc \in {"erase", "eraseLoop"}
      BY DEF EraseStart, EraseEnd
    <2> QED BY <2>1 DEF TypeOK, Truncated, Truncating, disk, history
  <1>1. /\ p \in Nat /\ op.off \in Nat /\ op.len \in Nat /\ size \in Nat
        /\ op.size \in Nat /\ op.boundary \in Nat
    BY <1>0, ContentNumbers DEF CallContent
  <1>2. op.size > size /\ op.then \in {"pwriteExtend", "pwriteData"}
        /\ (op.then = "pwriteData" => op.size = op.off + op.len)
    <2>1. op.then \in {"pwriteExtend", "pwriteData"}
      BY <1>0 DEF OpType
    <2> QED BY <1>0, <2>1 DEF SaneInv, CallInv
  <1>3. op.then = "pwriteExtend" => op.erase /\ op.size = op.off
    BY <1>0, <1>2 DEF Arguments
  <1>4. /\ Reached = op.off /\ size = SizeNow
        /\ SizeNow = IF op.then = "pwriteData" THEN Greater(op.off, p) ELSE p
        /\ ValidLength = IF pc = "eraseLoop" THEN Lesser(op.boundary, op.size)
                         ELSE Lesser(op.size, size)
    BY <1>0, TruncateStage DEF CallContent
  <1>5. /\ op'.node = n /\ op'.off = op.off /\ op'.buf = op.buf /\ op'.len = op.len
        /\ pc' = op.then /\ node'[n].size = op.size
    <2>1. /\ op' = [NoOp EXCEPT !.kind = op.kind, !.node = op.node,
                      !.off = op.off, !.buf = op.buf, !.len = op.len]
          /\ node' = [node EXCEPT ![op.node].size = op.size, ![op.node].is_dirty = TRUE]
          /\ pc' = op.then
      BY DEF Truncated
    <2>2. node[n] \in NodeType /\ node \in [Nodes -> NodeType]
      BY <1>0 DEF TypeOK
    <2> QED BY <1>0, <2>1, <2>2 DEF NoOp, NodeType
  <1>6. ~Writing' /\ ~Truncating' /\ Reached' = op.off
    BY <1>2, <1>5 DEF Writing, Truncating, Reached
  <1>7. CASE op.then = "pwriteExtend"
    <2>1. SizeNow' = Greater(op.off, p) /\ ValidLength' = op.size
      BY <1>0, <1>5, <1>6, <1>7 DEF SizeNow, ValidLength, Greater
    <2>2. SizeNow' = op.size
      BY <1>1, <1>2, <1>3, <1>4, <1>7, <2>1 DEF Greater
    <2>3. ValidLength = op.size
      <3>1. ~EraseStart
        BY <1>2, <1>3, <1>5, <1>7 DEF EraseStart, CallAdvance
      <3>2. pc = "eraseLoop" /\ op.boundary >= op.size
        BY <3>1 DEF EraseEnd
      <3> QED BY <1>1, <1>4, <3>2 DEF Lesser
    <2> QED BY <1>0, <1>1, <1>4, <1>5, <1>6, <2>1, <2>2, <2>3, ContentStill
  <1>8. CASE op.then = "pwriteData"
    <2>1. SizeNow' = Greater(op.off + op.len, p) /\ ValidLength' = Greater(op.off, p)
      BY <1>0, <1>5, <1>6, <1>8 DEF SizeNow, ValidLength, Greater
    <2>2. SizeNow' = op.size
      BY <1>1, <1>2, <1>4, <1>8, <2>1 DEF Greater
    <2>3. ValidLength' = size
      BY <1>4, <1>8, <2>1
    <2>4. size <= ValidLength
      <3>1. CASE pc = "eraseLoop"
        <4>1. PICK k \in 1 .. Len(chain[n]) :
                EndCluster < k /\ op.boundary = k * ClusterSize
          BY <3>1 DEF EraseAt
        <4>2. k \in Nat
          <5>1. Len(chain[n]) \in Nat
            BY <1>0, LenProperties DEF TypeOK
          <5> QED BY <5>1
        <4>3. size <= op.boundary
          BY <1>1, <4>1, <4>2, BehindEnd DEF EndCluster
        <4> QED BY <1>1, <1>2, <1>4, <3>1, <4>3 DEF Lesser
      <3>2. CASE pc # "eraseLoop"
        BY <1>1, <1>2, <1>4, <3>2 DEF Lesser
      <3> QED BY <3>1, <3>2
    <2> QED BY <1>0, <1>1, <1>4, <1>5, <1>6, <2>2, <2>3, <2>4, ContentStill
  <1> QED BY <1>2, <1>7, <1>8

\* Every step of a call in progress.
LEMMA ContentStep ==
  ASSUME TypeOK, SaneInv, EraseAt, IoAt, GrowthKept, Arguments, CallContent, Step, ~Done,
         faults' = 0, pc' \notin {"done", "bug"}
  PROVE  /\ pre'.content \in Seq(Cells) /\ node'[op'.node].size = SizeNow'
         /\ Holds(ValidLength)' /\ ReadSoFar'
  <1>0. op.node \in Nodes /\ UNCHANGED pre /\ pc # "idle"
    BY CallSteps
  <1>1. pre'.content \in Seq(Cells)
    BY <1>0 DEF CallContent
  <1>2. faults = 0
    BY FaultsGrow DEF Next
  <1>3. CASE Reading'
    <2>1. CASE Reading
      <3>1. \/ Advance /\ op.ret \in IoLoops /\ pc' \in {"advance", op.ret}
            \/ IoLoop /\ pc = "preadLoop"
        BY <2>1, ContentStages, StagesExclude DEF Reading, Truncating, EraseFirst, EraseNext,
           EraseStart, EraseEnd, TruncateWithin, WriteGap, WriteExtend, WriteStart, ReadStart,
           IoLoop, IoLoops
      <3>2. op.kind = "pread"
        BY <1>0, <2>1 DEF Arguments
      <3> QED BY <1>1, <1>2, <3>1, <3>2, AdvanceContent, ReadContent
    <2>2. CASE ReadStart
      BY <1>1, <2>2, ReadStartContent
    <2> QED BY <1>3, <2>1, <2>2, Stages
  <1>4. CASE ~Reading'
    <2>0. ReadSoFar'
      BY <1>4 DEF ReadSoFar
    <2>1. CASE Truncating /\ Truncating' /\ pc' # "eraseLoop"
      BY <1>1, <2>0, <2>1, TruncateContent
    <2>2. CASE EraseFirst \/ EraseNext
      BY <1>1, <2>0, <2>2, EraseFirstContent, EraseNextContent
    <2>3. CASE Truncated /\ op.then # "done" /\ (EraseStart \/ EraseEnd)
      BY <1>1, <2>0, <2>3, TruncatedContent
    <2>4. CASE TruncateWithin /\ op.then # "done" /\ node[op.node].size = op.size
      <3>1. op.size > node[op.node].size
        BY <2>4 DEF SaneInv, CallInv, TruncateWithin
      <3>2. op.size \in Nat
        BY DEF TypeOK, OpType
      <3> QED BY <2>4, <3>1, <3>2
    <2>5. CASE WriteGap \/ WriteExtend \/ WriteStart
      BY <1>1, <2>0, <2>5, WriteGapContent, WriteExtendContent, WriteStartContent
    <2>6. CASE ReadStart
      <3>1. IoStart(ReadLength, "preadLoop")
        BY <2>6 DEF ReadStart, ReadLength
      <3>2. ReadLength \in Nat
        BY <1>0, ReadLengthNat
      <3>3. Reading'
        BY <1>0, <3>1, <3>2, StartArguments DEF Return, Reading
      <3> QED BY <1>4, <3>3
    <2>7. CASE IoLoop
      <3>1. pc \in IoLoops /\ pc' = pc
        BY <2>7 DEF IoLoop, IoLoops
      <3>2. pc = "pwriteLoop"
        BY <1>4, <3>1 DEF Reading, IoLoops
      <3> QED BY <1>1, <1>2, <2>0, <2>7, <3>2, WriteContent
    <2>8. CASE Advance /\ op.ret \in IoLoops /\ pc' \in {"advance", op.ret}
      BY <1>1, <2>8, AdvanceContent
    <2> QED BY <2>1, <2>2, <2>3, <2>4, <2>5, <2>6, <2>7, <2>8, ContentStages
  <1> QED BY <1>3, <1>4

-----------------------------------------------------------------------------
(* Space: the clusters of the files are the clusters in use *)

\* A position of a file, and the cluster there.
LEMMA SlotOfChain ==
  ASSUME NEW S, NEW x
  PROVE  x \in ChainSlots(S) <=> \E m \in S : \E i \in 1 .. Len(chain[m]) : x = <<m, i>>
  <1>1. x \in ChainSlots(S) <=> \E m \in S : x \in {m} \X (1 .. Len(chain[m]))
    BY DEF ChainSlots
  <1>2. ASSUME NEW m \in S
        PROVE  x \in {m} \X (1 .. Len(chain[m])) <=> \E i \in 1 .. Len(chain[m]) : x = <<m, i>>
    OBVIOUS
  <1> QED BY <1>1, <1>2

\* The clusters available to files, as a set and as a number.
LEMMA CapacityIs ==
  /\ IsFiniteSet(Clusters \ Reserved) /\ Cardinality(Clusters \ Reserved) = Capacity
  /\ Capacity \in Nat
  <1>1. IsFiniteSet(Clusters) /\ Cardinality(Clusters) = NClusters
    <2>1. NClusters \in Nat \ {0}
      BY ClusterAssumption
    <2>2. /\ IsFiniteSet(2 .. NClusters + 1)
          /\ Cardinality(2 .. NClusters + 1)
               = IF 2 > NClusters + 1 THEN 0 ELSE (NClusters + 1) - 2 + 1
      BY <2>1, FS_Interval
    <2> QED BY <2>1, <2>2 DEF Clusters
  <1>2. Clusters \cap Reserved = Reserved
    BY VolumeAssumption
  <1>3. /\ IsFiniteSet(Clusters \ Reserved)
        /\ Cardinality(Clusters \ Reserved) = Cardinality(Clusters) - Cardinality(Clusters \cap Reserved)
    BY <1>1, FS_Difference
  <1>4. Cardinality(Clusters \ Reserved) = Capacity
    BY <1>1, <1>2, <1>3 DEF Capacity
  <1> QED BY <1>3, <1>4, FS_CardinalityType

\* The clusters of the files are different ones of those available.
LEMMA ClustersOfSlots ==
  ASSUME OwnInv, chain \in [Nodes -> Seq(Clusters)]
  PROVE  [x \in ChainSlots(Nodes) |-> chain[x[1]][x[2]]]
           \in Injection(ChainSlots(Nodes), Clusters \ Reserved)
  <1> DEFINE T == ChainSlots(Nodes)
             f == [x \in T |-> chain[x[1]][x[2]]]
  <1>1. ASSUME NEW x \in T PROVE f[x] \in Clusters \ Reserved
    <2>m. PICK m \in Nodes : \E i \in 1 .. Len(chain[m]) : x = <<m, i>>
      BY SlotOfChain
    <2>1. PICK i \in 1 .. Len(chain[m]) : x = <<m, i>>
      BY <2>m
    <2>2. f[x] = chain[m][i]
      BY <2>1
    <2>3. chain[m][i] \in Clusters
      BY <2>1, ElementOfSeq
    <2> QED BY <2>1, <2>2, <2>3 DEF OwnInv
  <1>2. ASSUME NEW x \in T, NEW y \in T, f[x] = f[y] PROVE x = y
    <2>m. PICK m \in Nodes : \E i \in 1 .. Len(chain[m]) : x = <<m, i>>
      BY SlotOfChain
    <2>1. PICK i \in 1 .. Len(chain[m]) : x = <<m, i>>
      BY <2>m
    <2>k. PICK k \in Nodes : \E j \in 1 .. Len(chain[k]) : y = <<k, j>>
      BY SlotOfChain
    <2>2. PICK j \in 1 .. Len(chain[k]) : y = <<k, j>>
      BY <2>k
    <2>3. chain[m][i] = chain[k][j]
      BY <1>2, <2>1, <2>2
    <2>4. m = k
      BY <2>1, <2>2, <2>3 DEF OwnInv
    <2>5. i = j
      BY <2>1, <2>2, <2>3, <2>4 DEF OwnInv, Injective
    <2> QED BY <2>1, <2>2, <2>4, <2>5
  <1>3. f \in [T -> Clusters \ Reserved]
    BY <1>1
  <1>4. IsInjective(f)
    <2>1. DOMAIN f = T
      OBVIOUS
    <2> HIDE DEF f, T
    <2> QED BY <1>2, <2>1 DEF IsInjective
  <1> HIDE DEF f
  <1>5. f \in Injection(T, Clusters \ Reserved)
    BY <1>3, <1>4 DEF Injection
  <1> QED BY <1>5 DEF f

\* The files take as many clusters as their chains have, and no more than
\* there are.
LEMMA SlotsCount ==
  ASSUME OwnInv, chain \in [Nodes -> Seq(Clusters)], NEW n \in Nodes
  PROVE  /\ IsFiniteSet(ChainSlots(Nodes)) /\ Cardinality(ChainSlots(Nodes)) \in Nat
         /\ Cardinality(ChainSlots(Nodes \ {n})) \in Nat
         /\ Cardinality(ChainSlots(Nodes))
              = Len(chain[n]) + Cardinality(ChainSlots(Nodes \ {n}))
         /\ Cardinality(ChainSlots(Nodes)) <= Capacity
  <1> DEFINE T == ChainSlots(Nodes)
             O == ChainSlots(Nodes \ {n})
             H == {n} \X (1 .. Len(chain[n]))
  <1>1. IsFiniteSet(T) /\ Cardinality(T) <= Capacity
    <2> DEFINE f == [x \in T |-> chain[x[1]][x[2]]]
    <2>1. f \in Injection(T, Clusters \ Reserved)
      BY ClustersOfSlots
    <2> HIDE DEF f, T
    <2> QED BY <2>1, CapacityIs, FS_Injection
  <1>2. O \subseteq T /\ H \subseteq T /\ T = O \cup H
    BY DEF ChainSlots
  <1>3. O \cap H = {}
    <2> SUFFICES ASSUME NEW x \in O, x \in H PROVE FALSE
      OBVIOUS
    <2>m. PICK m \in Nodes \ {n} : \E i \in 1 .. Len(chain[m]) : x = <<m, i>>
      BY SlotOfChain
    <2>1. PICK i \in 1 .. Len(chain[m]) : x = <<m, i>>
      BY <2>m
    <2>2. x[1] = n
      OBVIOUS
    <2> QED BY <2>1, <2>2
  <1>4. Len(chain[n]) \in Nat
    BY LenProperties
  <1>5. IsFiniteSet(H) /\ Cardinality(H) = Len(chain[n])
    <2>1. IsFiniteSet({n}) /\ Cardinality({n}) = 1
      BY FS_Singleton
    <2>2. IsFiniteSet(1 .. Len(chain[n])) /\ Cardinality(1 .. Len(chain[n])) = Len(chain[n])
      <3>1. PICK l \in Nat : l = Len(chain[n])
        BY <1>4
      <3>2. IsFiniteSet(1 .. l) /\ Cardinality(1 .. l) = IF 1 > l THEN 0 ELSE l - 1 + 1
        BY FS_Interval
      <3> QED BY <3>1, <3>2
    <2>3. IsFiniteSet(H) /\ Cardinality(H) = Cardinality({n}) * Cardinality(1 .. Len(chain[n]))
      BY <2>1, <2>2, FS_Product, Zenon
    <2> QED BY <1>4, <2>1, <2>2, <2>3
  <1> HIDE DEF T, O, H
  <1>6. IsFiniteSet(O)
    BY <1>1, <1>2, FS_Subset
  <1>7. Cardinality(O \cup H) = Cardinality(O) + Cardinality(H) - Cardinality(O \cap H)
    BY <1>5, <1>6, FS_Union
  <1>8. Cardinality(O) \in Nat /\ Cardinality(T) \in Nat
    BY <1>1, <1>6, FS_CardinalityType
  <1>9. Cardinality(O \cap H) = 0
    BY <1>3, FS_EmptySet
  <1>10. Cardinality(T) = Len(chain[n]) + Cardinality(O)
    BY <1>2, <1>4, <1>5, <1>7, <1>8, <1>9
  <1> QED BY <1>1, <1>8, <1>10 DEF T, O

\* When every cluster is in use the files take all there are.
LEMMA SlotsFull ==
  ASSUME OwnInv, chain \in [Nodes -> Seq(Clusters)],
         \A c \in Clusters : c \in Reserved \/ \E m \in Nodes : InSeq(c, chain[m])
  PROVE  Cardinality(ChainSlots(Nodes)) = Capacity
  <1> DEFINE T == ChainSlots(Nodes)
             f == [x \in T |-> chain[x[1]][x[2]]]
  <1>1. f \in Injection(T, Clusters \ Reserved)
    BY ClustersOfSlots
  <1>2. ASSUME NEW c \in Clusters \ Reserved PROVE \E x \in T : f[x] = c
    <2>m. PICK m \in Nodes : \E i \in 1 .. Len(chain[m]) : chain[m][i] = c
      BY DEF InSeq
    <2>1. PICK i \in 1 .. Len(chain[m]) : chain[m][i] = c
      BY <2>m
    <2>2. <<m, i>> \in T
      BY <2>1, SlotOfChain
    <2>3. f[<<m, i>>] = c
      BY <2>1, <2>2
    <2> QED BY <2>2, <2>3
  <1>3. DOMAIN f = T
    OBVIOUS
  <1> HIDE DEF f, T
  <1>4. f \in Surjection(T, Clusters \ Reserved)
    BY <1>1, <1>2, <1>3 DEF Injection, Surjection
  <1>5. Cardinality(T) = Cardinality(Clusters \ Reserved)
    BY <1>1, <1>4, CapacityIs, FS_Injection
  <1> QED BY <1>5, CapacityIs DEF T

\* A file has room for what its clusters can hold.
LEMMA RoomOfChain ==
  ASSUME TypeOK, SaneInv, op.node \in Nodes, NEW size \in Nat,
         bytes2clusters(size) <= Len(chain[op.node])
  PROVE  Room(size)
  <1> DEFINE T == Cardinality(ChainSlots(Nodes))
             O == Cardinality(ChainSlots(Nodes \ {op.node}))
  <1>1. OwnInv /\ chain \in [Nodes -> Seq(Clusters)]
    BY DEF SaneInv, TypeOK
  <1>2. O \in Nat /\ T \in Nat /\ T = Len(chain[op.node]) + O /\ T <= Capacity
    BY <1>1, SlotsCount
  <1>3. Capacity \in Nat /\ bytes2clusters(size) \in Nat /\ Len(chain[op.node]) \in Nat
    BY <1>1, CapacityIs, Bytes2ClustersNat, LenProperties
  <1> HIDE DEF T, O
  <1>4. bytes2clusters(size) + O <= Capacity
    BY <1>2, <1>3
  <1> QED BY <1>4 DEF Room, O

\* allocate_cluster() finds none only when every bit of the bitmap is set.
LEMMA AllocatedNone ==
  ASSUME NEW hint \in Word, Allocated(EXFAT_CLUSTER_END, hint), NEW c \in Clusters
  PROVE  c \in cmap
  <1> DEFINE h == IF Minus(hint, 2) >= NClusters THEN 0 ELSE Minus(hint, 2)
  <1>0. NClusters \in Nat /\ UMax \in Nat /\ NClusters + 1 < UMax - 8
    BY ClusterAssumption
  <1>1. h \in 0 .. NClusters
    BY <1>0 DEF Minus, Word
  <1>2. FirstClear(EXFAT_CLUSTER_END, h, NClusters) /\ FirstClear(EXFAT_CLUSTER_END, 0, h)
    BY DEF Allocated
  <1> HIDE DEF h
  <1>3. ASSUME NEW a \in 0 .. NClusters, NEW b \in 0 .. NClusters,
               FirstClear(EXFAT_CLUSTER_END, a, b), NEW bit \in a .. b - 1
        PROVE  bit + 2 \in cmap
    <2> SUFFICES ASSUME bit + 2 \notin cmap PROVE FALSE
      OBVIOUS
    <2> DEFINE clear == {x \in a .. b - 1 : x + 2 \notin cmap}
    <2>1. bit \in clear
      OBVIOUS
    <2>2. IF clear = {} THEN EXFAT_CLUSTER_END = EXFAT_CLUSTER_END
          ELSE EXFAT_CLUSTER_END - 2 \in clear
               /\ \A x \in clear : EXFAT_CLUSTER_END - 2 <= x
      BY <1>3 DEF FirstClear
    <2>3. UMax - 2 <= bit
      BY <2>1, <2>2 DEF EXFAT_CLUSTER_END
    <2> QED BY <1>0, <2>3
  <1>4. c \in Nat /\ 2 <= c /\ c <= NClusters + 1 /\ c = (c - 2) + 2
    BY <1>0 DEF Clusters
  <1>5. CASE c - 2 < h
    <2>1. c - 2 \in 0 .. h - 1 /\ 0 \in 0 .. NClusters
      BY <1>0, <1>1, <1>4, <1>5
    <2>2. (c - 2) + 2 \in cmap
      BY <1>1, <1>2, <1>3, <2>1
    <2> QED BY <1>4, <2>2
  <1>6. CASE ~(c - 2 < h)
    <2>1. c - 2 \in h .. NClusters - 1 /\ NClusters \in 0 .. NClusters
      BY <1>0, <1>1, <1>4, <1>6
    <2>2. (c - 2) + 2 \in cmap
      BY <1>1, <1>2, <1>3, <2>1
    <2> QED BY <1>4, <2>2
  <1> QED BY <1>5, <1>6

\* grow_file() finds no free cluster: the others leave no room.
LEMMA NoRoom ==
  ASSUME TypeOK, SaneInv, NoneLost, faults = 0, tail = <<>>, op.node \in Nodes,
         NEW hint \in Word, Allocated(EXFAT_CLUSTER_END, hint),
         NEW size \in Nat, bytes2clusters(size) > Len(chain[op.node])
  PROVE  ~Room(size)
  <1> DEFINE T == Cardinality(ChainSlots(Nodes))
             O == Cardinality(ChainSlots(Nodes \ {op.node}))
  <1>1. OwnInv /\ chain \in [Nodes -> Seq(Clusters)]
    BY DEF SaneInv, TypeOK
  <1>2. \A c \in Clusters : c \in Reserved \/ \E m \in Nodes : InSeq(c, chain[m])
    <2>1. \A c \in Clusters : c \in cmap
      BY AllocatedNone
    <2>2. \A c : ~InSeq(c, tail)
      BY DEF InSeq
    <2> QED BY <2>1, <2>2 DEF NoneLost
  <1>3. T = Capacity
    BY <1>1, <1>2, SlotsFull
  <1>4. O \in Nat /\ T \in Nat /\ T = Len(chain[op.node]) + O
    BY <1>1, SlotsCount
  <1>5. Capacity \in Nat /\ bytes2clusters(size) \in Nat /\ Len(chain[op.node]) \in Nat
    BY <1>1, CapacityIs, Bytes2ClustersNat, LenProperties
  <1> HIDE DEF T, O
  <1>6. ~(bytes2clusters(size) + O <= Capacity)
    BY <1>3, <1>4, <1>5
  <1> QED BY <1>6 DEF Room, O

\* The two places where grow_file() finds no free cluster.
LEMMA GrowRefused ==
  ASSUME TypeOK, SaneInv, NoneLost, faults = 0,
         GrowNoSpace \/ (GrowEmpty /\ pc' = "done")
  PROVE  ~Room(op.size) /\ op.node \in Nodes /\ UNCHANGED <<node, chain, data>>
  <1> DEFINE n == op.node
  <1>0. n \in Nodes /\ op.size \in Nat /\ node[n].size \in Nat /\ Len(chain[n]) \in Nat
    <2>1. n \in Nodes
      BY DEF TypeOK, GrowNoSpace, GrowEmpty
    <2> QED BY <2>1, LenProperties DEF TypeOK, OpType, NodeType
  <1>1. UMax \in Nat /\ NClusters \in Nat /\ NClusters + 1 < UMax - 8
    BY ClusterAssumption
  <1>2. CASE GrowNoSpace
    <2>1. pc = "growLoop" /\ op.allocated < op.difference /\ UNCHANGED <<node, chain, data>>
          /\ Allocated(EXFAT_CLUSTER_END, op.cluster + 1)
      BY <1>2 DEF GrowNoSpace, disk, history
    <2>2. op.cluster \in Clusters /\ tail = <<>> /\ GrowInv
      BY <2>1 DEF TypeOK, SaneInv, CallInv, GrowLabels
    <2>3. op.cluster + 1 \in Word
      BY <1>1, <2>2 DEF Clusters, Word
    <2>4. bytes2clusters(op.size) > Len(chain[n])
      <3>1. op.current \in Nat /\ op.allocated \in Nat /\ op.difference \in Nat
        BY DEF TypeOK, OpType
      <3> QED BY <2>1, <2>2, <3>1 DEF GrowInv, HasClusters
    <2>5. PICK hint \in Word : hint = op.cluster + 1
      BY <2>3
    <2>6. PICK size \in Nat : size = op.size
      BY <1>0
    <2>7. ~Room(size)
      BY <1>0, <2>1, <2>2, <2>4, <2>5, <2>6, NoRoom
    <2> QED BY <1>0, <2>1, <2>6, <2>7
  <1>3. CASE GrowEmpty /\ pc' = "done"
    <2>1. pc = "truncate" /\ Current < Target /\ UNCHANGED <<node, chain, data>>
          /\ Allocated(EXFAT_CLUSTER_END, 0)
      BY <1>3 DEF GrowEmpty
    <2>2. tail = <<>> /\ Len(chain[n]) = bytes2clusters(node[n].size)
      BY <1>0, <2>1 DEF SaneInv, CallInv, FilesInv, QuietLabels, SettledFile, HasClusters
    <2>3. 0 \in Word
      BY <1>1 DEF Word
    <2>4. bytes2clusters(op.size) > Len(chain[n])
      <3>1. bytes2clusters(op.size) \in Nat /\ bytes2clusters(node[n].size) \in Nat
        BY <1>0, Bytes2ClustersNat
      <3> QED BY <2>1, <2>2, <3>1 DEF Current, Target
    <2>6. PICK size \in Nat : size = op.size
      BY <1>0
    <2>7. ~Room(size)
      BY <1>0, <2>1, <2>2, <2>3, <2>4, <2>6, NoRoom
    <2> QED BY <1>0, <2>1, <2>6, <2>7
  <1> QED BY <1>2, <1>3

\* What a call leaves alone of the other files leaves the room of its own.
LEMMA SameSlots ==
  ASSUME TypeOK, Step, ~Done
  PROVE  ChainSlots(Nodes \ {op.node})' = ChainSlots(Nodes \ {op.node})
  <1>1. op'.node = op.node /\ \A m \in Nodes \ {op.node} : chain'[m] = chain[m]
    BY CallSteps
  <1>2. \A m \in Nodes \ {op.node} :
          {m} \X (1 .. Len(chain'[m])) = {m} \X (1 .. Len(chain[m]))
    BY <1>1
  <1> QED BY <1>1, <1>2, Zenon DEF ChainSlots

LEMMA RollbackStep ==
  ASSUME TypeOK, SaneInv, NoneLost, GrowthKept, CallContent, Step, ~Done, faults = 0,
         pc' \notin {"done", "bug"}, op'.rollback
  PROVE  ~Room(op.size)'
  <1>1. op'.node = op.node /\ op.rc \notin Returned /\ op.node \in Nodes
    BY CallSteps, NotReturned
  <1>2. op'.size = op.size /\ (op.rollback \/ GrowNoSpace)
    <2>1. CASE Running
      BY <2>1 DEF Running
    <2>2. CASE Truncated /\ pc \in {"erase", "eraseLoop"}
      <3>1. op.then # "done"
        BY <2>2 DEF Truncated, Return
      <3>2. ~op'.rollback
        BY <2>2, <3>1 DEF Truncated, NoOp
      <3> QED BY <3>2
    <2>3. CASE WriteGap \/ WriteExtend
      <3>1. op'.rollback = op.rollback /\ pc \in {"pwrite", "pwriteExtend"}
        <4>1. op \in OpType
          BY DEF TypeOK
        <4> QED BY <2>3, <4>1 DEF WriteGap, WriteExtend, SubTruncate, Goto, OpType
      <3> QED BY <3>1 DEF SaneInv, CallInv
    <2> QED BY <1>1, <2>1, <2>2, <2>3, StepRuns
  <1>3. ~Room(op.size)
    BY <1>2, GrowRefused DEF CallContent
  <1>4. PICK b : b = bytes2clusters(op.size)
    OBVIOUS
  <1>5. bytes2clusters(op'.size) = b
    BY <1>2, <1>4
  <1>6. Cardinality(ChainSlots(Nodes \ {op.node}))' = Cardinality(ChainSlots(Nodes \ {op.node}))
    BY SameSlots
  <1> QED BY <1>1, <1>2, <1>3, <1>4, <1>5, <1>6 DEF Room, bytes2clusters, Capacity

\* A call that has returned takes no further step.
LEMMA BeforeDone ==
  ASSUME Step, ~Done PROVE pc # "done"
BY DEF Step, Advance, AdvanceLoop, AdvanceEnd, Truncate, TruncateWithin,
   TruncateShrink, Grow, GrowStart, GrowEmpty, GrowAllocate, GrowNoSpace, GrowFat,
   GrowFatEnd, GrowLink, GrowEnd, Shrink, ShrinkStart, ShrinkAll, ShrinkCrop,
   ShrinkFree, ShrinkInvalid, ShrinkEnd, Erase, EraseStart, EraseFirst, EraseNext,
   EraseEnd, Io, WriteGap, WriteExtend, WriteStart, ReadStart, IoLoop, IoInvalid,
   IoEnd, DeviceFails, WritesFat, WritesData, ReadsData, AssertionFails,
   BadCluster, BadPointer

\* The contents of the running call's file, from step to step.
LEMMA ContentsNext ==
  ASSUME TypeOK, IInv, Progress, Arguments, Contents, [Next]_vars PROVE Contents'
  <1> SUFFICES ASSUME sane', faults' = 0, pc' \notin {"idle", "done", "bug"}
               PROVE  CallContent'
    BY DEF Contents
  <1>1. sane /\ faults = 0 /\ SaneInv /\ SaneProgress /\ TypeOK'
    BY SaneBefore, FaultsGrow, TypeNext DEF IInv, Progress
  <1>2. CASE UNCHANGED vars
    <2>1. CallContent
      BY <1>1, <1>2 DEF Contents, vars
    <2> QED BY <1>2, <2>1 DEF vars, disk, history, CallContent, SizeNow, ValidLength, Holds, Cell,
            Image, Was, Reached, ReadSoFar, Room, ChainSlots, Truncating, Writing, Reading,
            bytes2clusters, Greater, Lesser, Capacity
  <1>3. CASE Call
    BY <1>1, <1>3, BeginContent
  <1>4. CASE Step
    <2>1. ~Done
      BY DEF Done
    <2>2. pc \notin {"idle", "done", "bug"}
      <3>1. pc # "idle"
        BY <1>4, <2>1, CallSteps
      <3>2. pc # "bug"
        BY <1>1 DEF SaneProgress, NoAbort
      <3>3. pc # "done"
        BY <1>4, <2>1, BeforeDone
      <3> QED BY <3>1, <3>2, <3>3
    <2>3. CallContent
      BY <1>1, <2>2 DEF Contents
    <2>4. op'.rollback => ~Room(op.size)'
      BY <1>1, <1>4, <2>1, <2>3, RollbackStep DEF SaneProgress
    <2> QED BY <1>1, <1>4, <2>1, <2>3, <2>4, ContentStep DEF SaneProgress, CallContent
  <1>5. CASE Aborted
    BY <1>5 DEF Aborted, vars
  <1> QED BY <1>2, <1>3, <1>4, <1>5 DEF Next

\* At every step of every call of cluster.c and io.c on a sane volume: no
\* cluster is lost and chains are terminated while the device works, the loops
\* are inside the file of the call, what a truncate that makes its file larger
\* must keep is kept, and while the device works the clusters of the file hold
\* the bytes that the call is to leave, up to where it has come.
THEOREM InductiveHolds == Spec => []Inductive
  <1>1. Init => Contents
    BY DEF Init, Contents
  <1>2. TypeOK /\ IInv /\ Progress /\ Arguments /\ Contents /\ [Next]_vars => Contents'
    BY ContentsNext
  <1>3. Spec => []Contents
    BY <1>1, <1>2, TypeCorrect, InvariantHolds, ProgressHolds, ArgumentsHold, PTL DEF Spec
  <1>4. IInv /\ Progress /\ Arguments /\ Contents => Inductive
    BY DEF Inductive
  <1> QED BY <1>3, <1>4, InvariantHolds, ProgressHolds, ArgumentsHold, PTL

-----------------------------------------------------------------------------
(* The refinement *)

\* the bytes of file n in the clusters of its chain
Bytes(n) == [k \in 1 .. node[n].size |-> Cell(n, k)]

\* A file that has its clusters reads as what they hold.
ContentIs ==
  sane => \A n \in Nodes :
            bytes2clusters(node[n].size) <= Len(chain[n]) =>
              /\ Content(n) = Bytes(n) /\ Content(n) \in Seq(Cells)
              /\ Len(Content(n)) = node[n].size

LEMMA ContentIsBytes == TypeOK /\ IInv => ContentIs
  <1> SUFFICES ASSUME TypeOK, SaneInv, NEW n \in Nodes,
                      bytes2clusters(node[n].size) <= Len(chain[n])
               PROVE  /\ Content(n) = Bytes(n) /\ Content(n) \in Seq(Cells)
                      /\ Len(Content(n)) = node[n].size
    BY DEF IInv, ContentIs
  <1>1. /\ Content(n) \in Seq(Cells) /\ Len(Content(n)) = node[n].size
        /\ \A k \in 1 .. node[n].size : Content(n)[k] = Cell(n, k)
    BY ContentOfChain DEF Cell
  <1>2. Content(n) = [k \in 1 .. node[n].size |-> Content(n)[k]]
    BY DEF Content
  <1>3. Content(n) = Bytes(n)
    <2> DEFINE g == Content(n)
    <2>1. g = [k \in 1 .. node[n].size |-> g[k]]
          /\ \A k \in 1 .. node[n].size : g[k] = Cell(n, k)
      BY <1>1, <1>2
    <2> HIDE DEF g
    <2>2. g = [k \in 1 .. node[n].size |-> Cell(n, k)]
      BY <2>1
    <2> QED BY <2>2 DEF g, Bytes
  <1> QED BY <1>1, <1>3

\* A file that no call is working on has its clusters.
LEMMA SettledContent ==
  ASSUME TypeOK, SaneInv, ContentIs, sane, faults = 0, NEW m \in Nodes,
         pc \in {"idle", "done"} \/ m # op.node
  PROVE  /\ Len(chain[m]) = bytes2clusters(node[m].size)
         /\ Content(m) = Bytes(m) /\ Content(m) \in Seq(Cells)
         /\ Len(Content(m)) = node[m].size
  <1>1. Len(chain[m]) = bytes2clusters(node[m].size)
    BY DEF SaneInv, FilesInv, QuietLabels, SettledFile, HasClusters
  <1>2. bytes2clusters(node[m].size) \in Nat
    <2>1. node[m].size \in Nat
      BY DEF TypeOK, NodeType
    <2> QED BY <2>1, Bytes2ClustersNat
  <1> QED BY <1>1, <1>2 DEF ContentIs

\* A call leaves the bytes of the other files alone.
LEMMA OthersKept ==
  ASSUME TypeOK, SaneInv, SaneProgress, ContentIs, ContentIs', Step, ~Done,
         sane, sane', faults = 0, NEW m \in Nodes, m # op.node
  PROVE  Content(m)' = Content(m)
  <1>1. node'[m] = node[m] /\ chain'[m] = chain[m] /\ op.node \in Nodes
    BY CallSteps
  <1>2. /\ Len(chain[m]) = bytes2clusters(node[m].size) /\ Content(m) = Bytes(m)
        /\ node[m].size \in Nat /\ chain[m] \in Seq(Clusters)
    BY SettledContent DEF TypeOK, NodeType
  <1>3. bytes2clusters(node[m].size) <= Len(chain[m]) /\ bytes2clusters(node[m].size) \in Nat
    BY <1>2, Bytes2ClustersNat
  <1>4. Content(m)' = Bytes(m)'
    <2>1. bytes2clusters(node'[m].size) <= Len(chain'[m])
      BY <1>1, <1>3
    <2> QED BY <2>1 DEF ContentIs, bytes2clusters
  <1>5. ASSUME NEW k \in 1 .. node[m].size PROVE Cell(m, k)' = Cell(m, k)
    <2> DEFINE q == (k - 1) \div ClusterSize + 1
    <2>1. q \in 1 .. Len(chain[m])
      BY <1>2, ByteAt
    <2> HIDE DEF q
    <2>2. chain[m][q] \in Clusters
      BY <1>2, <2>1, ElementOfSeq
    <2>3. ~InSeq(chain[m][q], chain[op.node])
      BY <1>1, <2>1 DEF InSeq, SaneInv, OwnInv
    <2>4. data'[chain[m][q]] = data[chain[m][q]]
      BY <2>2, <2>3, DataWrites DEF SaneProgress, Next
    <2> QED BY <1>1, <2>4 DEF Cell, q
  <1>6. Bytes(m)' = Bytes(m)
    <2>1. [k \in 1 .. node[m].size |-> Cell(m, k)'] = [k \in 1 .. node[m].size |-> Cell(m, k)]
      BY <1>5
    <2> QED BY <1>1, <2>1 DEF Bytes
  <1> QED BY <1>2, <1>4, <1>6

\* The file of the call, when the call has returned.
LEMMA ReturnedContent ==
  ASSUME TypeOK, Step, ~Done, TypeOK', SaneInv', ContentIs', sane', faults' = 0,
         pc' = "done", UNCHANGED <<chain, data>>
  PROVE  Content(op.node)' = [k \in 1 .. node'[op.node].size |-> Cell(op.node, k)]
  <1> DEFINE n == op.node
  <1>1. n \in Nodes /\ op'.node = n
    BY CallSteps
  <1>2. Len(chain'[n]) = bytes2clusters(node'[n].size) /\ node'[n].size \in Nat
    <2>1. SettledFile(n)'
      BY <1>1 DEF SaneInv, FilesInv, QuietLabels
    <2> QED BY <1>1, <2>1 DEF SettledFile, HasClusters, TypeOK, NodeType, bytes2clusters
  <1>3. bytes2clusters(node'[n].size) <= Len(chain'[n])
    BY <1>2, Bytes2ClustersNat
  <1>4. \A m \in Nodes : bytes2clusters(node'[m].size) <= Len(chain'[m]) =>
                           Content(m)' = [k \in 1 .. node'[m].size |-> Cell(m, k)']
    BY DEF ContentIs, Bytes, bytes2clusters
  <1>5. \A m, k : Cell(m, k)' = Cell(m, k)
    BY DEF Cell
  <1>6. PICK m \in Nodes : m = n
    BY <1>1
  <1>7. Content(m)' = [k \in 1 .. node'[m].size |-> Cell(m, k)]
    BY <1>3, <1>4, <1>5, <1>6
  <1>8. Content(op.node)' = Content(m)'
    BY <1>1, <1>6
  <1> QED BY <1>6, <1>7, <1>8

\* The space the promise speaks of is that of the chains.
LEMMA FitsIsRoom ==
  ASSUME TypeOK, SaneInv, ContentIs, sane, faults = 0, pc \notin {"idle", "done"},
         op.node \in Nodes, NEW size
  PROVE  Promise!Fits(op.node, size) <=> Room(size)
  <1>1. ASSUME NEW m \in Nodes \ {op.node}
        PROVE  {m} \X (1 .. Promise!ClustersFor(Len(Files[m]))) = {m} \X (1 .. Len(chain[m]))
    <2>1. Files[m] = Content(m)
      BY DEF Files
    <2>2. Promise!ClustersFor(Len(Files[m])) = Len(chain[m])
      BY <2>1, SettledContent DEF Promise!ClustersFor, bytes2clusters
    <2> QED BY <2>2
  <1>2. Promise!Slots(Nodes \ {op.node}) = ChainSlots(Nodes \ {op.node})
    BY <1>1, Zenon DEF Promise!Slots, ChainSlots
  <1>3. Promise!ClustersFor(size) = bytes2clusters(size)
    BY DEF Promise!ClustersFor, bytes2clusters
  <1>4. \A S : Promise!Cardinality(S) = Cardinality(S)
    BY DEF Promise!Cardinality, Cardinality
  <1> QED BY <1>2, <1>3, <1>4 DEF Promise!Fits, Room

\* The files of bytes, while a call is executed and when it returns.
LEMMA FilesStill ==
  ASSUME TypeOK, SaneInv, SaneProgress, ContentIs, ContentIs', Step, ~Done,
         sane, sane', faults = 0, pc' # "done"
  PROVE  Files' = Files
  <1>1. pc \notin {"idle", "done"} /\ pc' \notin {"idle", "done"} /\ op'.node = op.node
        /\ UNCHANGED pre
    BY CallSteps, BeforeDone
  <1>2. ASSUME NEW m \in Nodes PROVE Files'[m] = Files[m]
    <2>1. CASE m = op.node
      BY <1>1, <2>1 DEF Files
    <2>2. CASE m # op.node
      BY <1>1, <2>2, OthersKept DEF Files
    <2> QED BY <2>1, <2>2
  <1>3. Files = [m \in Nodes |-> Files[m]] /\ Files' = [m \in Nodes |-> Files'[m]]
    BY DEF Files
  <1> QED BY <1>2, <1>3

LEMMA FilesReturned ==
  ASSUME TypeOK, SaneInv, SaneProgress, ContentIs, ContentIs', Step, ~Done,
         sane, sane', faults = 0, pc' = "done"
  PROVE  /\ Files' = [Files EXCEPT ![op.node] = Content(op.node)']
         /\ Files[op.node] = pre.content
  <1>1. pc \notin {"idle", "done"} /\ op'.node = op.node /\ op.node \in Nodes
    BY CallSteps, BeforeDone
  <1>2. ASSUME NEW m \in Nodes
        PROVE  Files'[m] = IF m = op.node THEN Content(op.node)' ELSE Files[m]
    <2>0. Files'[m] = Content(m)'
      BY DEF Files
    <2>1. CASE m = op.node
      BY <1>1, <2>0, <2>1
    <2>2. CASE m # op.node
      BY <1>1, <2>0, <2>2, OthersKept DEF Files
    <2> QED BY <2>1, <2>2
  <1>3. Files = [m \in Nodes |-> Files[m]] /\ Files' = [m \in Nodes |-> Files'[m]]
    BY DEF Files
  <1>4. Files' = [Files EXCEPT ![op.node] = Content(op.node)']
    BY <1>2, <1>3
  <1> QED BY <1>1, <1>4 DEF Files

\* A call that returns while the device works has succeeded, or was refused
\* for lack of space.
LEMMA NoEIO ==
  ASSUME TypeOK, SaneInv, SaneProgress, Step, ~Done, faults = 0, faults' = 0, pc' = "done"
  PROVE  ~Advance /\ ~ShrinkInvalid /\ ~IoInvalid /\ ~DeviceFails
  <1>1. ~Advance
    <2>1. op.ret # "done"
      BY DEF TypeOK, OpType
    <2> QED BY <2>1, AdvanceStep
  <1>2. ~ShrinkInvalid
    BY Freeing DEF ShrinkInvalid, CLUSTER_INVALID
  <1>3. ~IoInvalid
    <2> SUFFICES ASSUME IoInvalid PROVE FALSE
      OBVIOUS
    <2>1. op.node \in Nodes /\ pc \in IoLoops /\ op.remainder > 0 /\ op.cluster \notin Clusters
      BY CallSteps DEF IoInvalid, CLUSTER_INVALID, IoLoops
    <2>2. PICK k \in 1 .. Len(chain[op.node]) : op.cluster = chain[op.node][k]
      BY <2>1 DEF SaneProgress, IoAt
    <2>3. chain[op.node] \in Seq(Clusters)
      BY <2>1 DEF TypeOK
    <2> QED BY <2>1, <2>2, <2>3, ElementOfSeq
  <1>4. ~DeviceFails
    BY DEF DeviceFails
  <1> QED BY <1>1, <1>2, <1>3, <1>4

\* The device works, and the invariants hold.
Healthy ==
  sane /\ faults = 0 /\ TypeOK /\ SaneInv /\ SaneProgress /\ Arguments /\ ContentIs

\* What the caller is told, when the call returns.
LEMMA ReplyReturned ==
  ASSUME Healthy, Step, ~Done, NEW rc \in Returned, Return(rc), op.rollback => rc = "ENOSPC"
  PROVE  Promise!Reply(rc, op.out)
  <1>1. pc # "done"
    BY BeforeDone
  <1>2. pc' = "done" /\ op'.rc = rc /\ op'.out = op.out
    BY ReturnKind, ReturnArguments DEF Healthy
  <1>3. Reply = [rc |-> "none", out |-> <<>>] /\ Reply' = [rc |-> rc, out |-> op.out]
    BY <1>1, <1>2 DEF Reply
  <1> QED BY <1>3 DEF Promise!Reply, Promise!NoResult

\* exfat_truncate() succeeds.
LEMMA TruncateSimulates ==
  ASSUME Healthy, Healthy', CallContent, Step, ~Done, Return("ok"), ~op.rollback,
         UNCHANGED <<chain, data>>, Truncating, op.then = "done",
         node'[op.node].size = op.size, ValidLength = op.size
  PROVE  Promise!Operation
  <1> DEFINE n == op.node
             p == pre.content
  <1>0. n \in Nodes /\ pc \notin {"idle", "done"} /\ pc' = "done" /\ TypeOK /\ op.size \in Nat
    BY CallSteps, BeforeDone DEF Healthy, Return, TypeOK, OpType
  <1>1. op.kind = "truncate" /\ op.size \in 0 .. MaxSize /\ op.out = <<>>
    BY <1>0 DEF Healthy, Arguments
  <1>2. Promise!Reply("ok", <<>>)
    BY <1>1, ReplyReturned DEF Returned
  <1>3. /\ Files' = [Files EXCEPT ![n] = Content(n)'] /\ Files[n] = p
        /\ Content(n)' = [k \in 1 .. op.size |-> Cell(n, k)]
    BY <1>0, FilesReturned, ReturnedContent DEF Healthy
  <1>4. \A k \in 1 .. op.size : Cell(n, k) = IF k <= Len(p) THEN p[k] ELSE "zero"
    <2>1. Holds(op.size) /\ Reached = op.off /\ op.off \in Nat
      BY <1>0, TruncateStage DEF CallContent, TypeOK, OpType
    <2> QED BY <2>1, ImageBefore DEF Holds, Was
  <1>5. Content(n)' = Promise!Resized(p, op.size)
    <2>1. [k \in 1 .. op.size |-> Cell(n, k)]
            = [k \in 1 .. op.size |-> IF k <= Len(p) THEN p[k] ELSE "zero"]
      BY <1>4
    <2> QED BY <1>3, <2>1 DEF Promise!Resized
  <1>6. Promise!Fits(n, op.size)
    <2>1. PICK size \in Nat : size = op.size
      BY <1>0
    <2>2. bytes2clusters(size) <= Len(chain[n])
      BY <2>1 DEF CallContent, Holds
    <2>3. Room(size)
      BY <1>0, <2>2, RoomOfChain DEF Healthy
    <2>4. Promise!Fits(op.node, size)
      BY <1>0, <2>3, FitsIsRoom DEF Healthy
    <2> QED BY <2>1, <2>4
  <1>7. Promise!Truncate(n, op.size)
    BY <1>2, <1>3, <1>5, <1>6 DEF Promise!Truncate
  <1> QED BY <1>0, <1>1, <1>7 DEF Promise!Operation

\* A file that keeps its length keeps its bytes.
LEMMA ResizedSame ==
  ASSUME NEW p \in Seq(Cells) PROVE Promise!Resized(p, Len(p)) = p
  <1>1. p = [k \in 1 .. Len(p) |-> p[k]]
    OBVIOUS
  <1>2. [k \in 1 .. Len(p) |-> p[k]] = [k \in 1 .. Len(p) |-> IF k <= Len(p) THEN p[k] ELSE "zero"]
    OBVIOUS
  <1> QED BY <1>1, <1>2 DEF Promise!Resized

\* A file for which there is no space does not fit if it is longer either.
LEMMA RoomMonotone ==
  ASSUME TypeOK, SaneInv, op.node \in Nodes, NEW s1 \in Nat, NEW s2 \in Nat, s1 <= s2, Room(s2)
  PROVE  Room(s1)
  <1>1. bytes2clusters(s1) <= bytes2clusters(s2) /\ bytes2clusters(s1) \in Nat
        /\ bytes2clusters(s2) \in Nat
    BY ClustersMonotone, Bytes2ClustersNat
  <1>2. Cardinality(ChainSlots(Nodes \ {op.node})) \in Nat
    BY SlotsCount DEF SaneInv, TypeOK
  <1>3. Capacity \in Nat
    BY CapacityIs
  <1> QED BY <1>1, <1>2, <1>3 DEF Room

\* exfat_truncate() finds no space: what the caller asked for does not fit.
\* A write may have zeroed the gap before.
LEMMA RefusedSimulates ==
  ASSUME Healthy, Healthy', CallContent, Step, ~Done, Return("ENOSPC"),
         UNCHANGED <<chain, data>>, Truncating, pc # "eraseLoop", ~Room(op.size),
         op.size > node[op.node].size, node'[op.node].size = node[op.node].size
  PROVE  Promise!Operation
  <1> DEFINE n == op.node
             p == pre.content
             s == node[op.node].size
  <1>0. /\ n \in Nodes /\ pc \notin {"idle", "done"} /\ pc' = "done" /\ TypeOK /\ SaneInv
        /\ op.size \in Nat /\ op.off \in Nat /\ op.len \in Nat /\ s \in Nat
        /\ p \in Seq(Cells) /\ Len(p) \in Nat
        /\ op.then \in {"done", "pwriteExtend", "pwriteData"}
    <2>1. TypeOK /\ SaneInv /\ n \in Nodes /\ pc \notin {"idle", "done"} /\ pc' = "done"
      BY CallSteps, BeforeDone DEF Healthy, Return
    <2>2. op \in OpType /\ s \in Nat
      BY <2>1 DEF TypeOK, NodeType
    <2>3. p \in Seq(Cells) /\ Len(p) \in Nat
      BY DEF CallContent
    <2> QED BY <2>1, <2>2, <2>3 DEF OpType
  <1>1. /\ s = IF op.then = "pwriteData" THEN Greater(op.off, Len(p)) ELSE Len(p)
        /\ ValidLength = s /\ Reached = op.off
    BY <1>0, TruncateStage DEF CallContent, Lesser
  <1>2. op.out = <<>> /\ Promise!Reply("ENOSPC", <<>>)
    <2>1. op.out = <<>>
      BY <1>0 DEF Healthy, Arguments
    <2> QED BY <2>1, ReplyReturned DEF Returned
  <1>3. /\ Files' = [Files EXCEPT ![n] = Content(n)'] /\ Files[n] = p
        /\ Content(n)' = [k \in 1 .. s |-> Cell(n, k)]
    BY <1>0, FilesReturned, ReturnedContent DEF Healthy
  <1>4. Content(n)' = Promise!Resized(p, s)
    <2>1. \A k \in 1 .. s : Cell(n, k) = IF k <= Len(p) THEN p[k] ELSE "zero"
      <3>1. Holds(s)
        BY <1>1 DEF CallContent
      <3> QED BY <1>0, <1>1, <3>1, ImageBefore DEF Holds, Was
    <2>2. [k \in 1 .. s |-> Cell(n, k)] = [k \in 1 .. s |-> IF k <= Len(p) THEN p[k] ELSE "zero"]
      BY <2>1
    <2> QED BY <1>3, <2>2 DEF Promise!Resized
  <1>5. s = Len(p) => Content(n)' = p
    BY <1>0, <1>4, ResizedSame
  <1>6. \A size \in Nat : Promise!Fits(n, size) <=> Room(size)
    BY <1>0, FitsIsRoom DEF Healthy
  <1>7. Files' = [Files EXCEPT ![n] = p] => UNCHANGED Files
    <2>1. Files = [m \in Nodes |-> Files[m]]
      BY DEF Files
    <2> QED BY <1>3, <2>1
  <1>8. op.then # "done" => /\ op.kind = "pwrite" /\ op.off \in 0 .. MaxSize
                            /\ op.buf \in Buffers /\ op.len = Len(op.buf)
    BY <1>0 DEF TypeOK, WriteLabels, Healthy, Arguments
  <1>9. CASE op.then = "done"
    <2>1. op.kind = "truncate" /\ op.size \in 0 .. MaxSize
      BY <1>0, <1>9 DEF Healthy, Arguments
    <2>2. Promise!Truncate(n, op.size)
      BY <1>0, <1>1, <1>2, <1>3, <1>5, <1>6, <1>7, <1>9 DEF Promise!Truncate
    <2> QED BY <1>0, <2>1, <2>2 DEF Promise!Operation
  <1>10. CASE op.then = "pwriteExtend"
    <2>1. op.size = op.off
      BY <1>0, <1>10 DEF Healthy, Arguments
    <2>2. ~Room(op.off) /\ ~Room(op.off + op.len)
      <3>1. op.off + op.len \in Nat /\ op.off <= op.off + op.len
        BY <1>0
      <3> QED BY <1>0, <2>1, <3>1, RoomMonotone
    <2>3. ~Promise!Fits(n, op.off) /\ ~Promise!Fits(n, op.off + Len(op.buf))
      BY <1>0, <1>6, <1>8, <1>10, <2>2
    <2>4. Files' = [Files EXCEPT ![n] = p]
      BY <1>1, <1>3, <1>5, <1>10
    <2>5. Promise!Write(n, op.off, op.buf)
      BY <1>2, <1>3, <2>3, <2>4 DEF Promise!Write
    <2> QED BY <1>0, <1>8, <1>10, <2>5 DEF Promise!Operation
  <1>11. CASE op.then = "pwriteData"
    <2>1. op.size = op.off + op.len
      BY <1>0, <1>11 DEF SaneInv, CallInv
    <2>2. ~Promise!Fits(n, op.off + Len(op.buf))
      BY <1>0, <1>6, <1>8, <1>11, <2>1
    <2>3. CASE op.off > Len(p)
      <3>1. s = op.off
        BY <1>0, <1>1, <1>11, <2>3 DEF Greater
      <3>2. PICK off \in Nat : off = op.off
        BY <1>0
      <3>3. bytes2clusters(off) <= Len(chain[n])
        BY <1>1, <3>1, <3>2 DEF CallContent, Holds
      <3>4. Promise!Fits(n, op.off)
        BY <1>0, <1>6, <3>2, <3>3, RoomOfChain
      <3>5. Files' = [Files EXCEPT ![n] = Promise!Resized(p, op.off)]
        BY <1>3, <1>4, <3>1
      <3>6. Promise!Write(n, op.off, op.buf)
        BY <1>2, <1>3, <2>2, <2>3, <3>4, <3>5 DEF Promise!Write
      <3> QED BY <1>0, <1>8, <1>11, <3>6 DEF Promise!Operation
    <2>4. CASE ~(op.off > Len(p))
      <3>1. s = Len(p)
        BY <1>0, <1>1, <1>11, <2>4 DEF Greater
      <3>2. Files' = [Files EXCEPT ![n] = p]
        BY <1>3, <1>5, <3>1
      <3>3. Promise!Write(n, op.off, op.buf)
        BY <1>2, <1>3, <2>2, <2>4, <3>2 DEF Promise!Write
      <3> QED BY <1>0, <1>8, <1>11, <3>3 DEF Promise!Operation
    <2> QED BY <2>3, <2>4
  <1> QED BY <1>0, <1>9, <1>10, <1>11

\* exfat_generic_pwrite() succeeds.
LEMMA WriteSimulates ==
  ASSUME Healthy, Healthy', CallContent, Step, ~Done, Return("ok"), ~op.rollback,
         UNCHANGED <<chain, data>>, pc \in {"pwriteData", "pwriteLoop"},
         op.len = 0 \/ (pc = "pwriteLoop" /\ op.remainder = 0),
         node'[op.node].size = node[op.node].size
  PROVE  Promise!Operation
  <1> DEFINE n == op.node
             p == pre.content
             end == op.off + op.len
             s == node[op.node].size
  <1>0. /\ n \in Nodes /\ pc \notin {"idle", "done"} /\ pc' = "done" /\ TypeOK /\ SaneInv
        /\ op.off \in Nat /\ op.len \in Nat /\ op.remainder \in Nat
        /\ op.remainder <= op.len /\ s \in Nat
        /\ p \in Seq(Cells) /\ Len(p) \in Nat
    <2>1. TypeOK /\ SaneInv /\ n \in Nodes /\ pc' = "done"
      BY CallSteps DEF Healthy, Return
    <2>2. op \in OpType /\ s \in Nat /\ op.remainder <= op.len
      BY <2>1 DEF TypeOK, NodeType
    <2>3. p \in Seq(Cells) /\ Len(p) \in Nat
      BY DEF CallContent
    <2> QED BY <2>1, <2>2, <2>3 DEF OpType
  <1>1. /\ op.kind = "pwrite" /\ op.off \in 0 .. MaxSize
        /\ op.buf \in Buffers /\ op.len = Len(op.buf) /\ op.out = <<>>
    BY <1>0 DEF TypeOK, WriteLabels, Healthy, Arguments
  <1>2. Promise!Reply("ok", <<>>)
    BY <1>1, ReplyReturned DEF Returned
  <1>3. /\ Files' = [Files EXCEPT ![n] = Content(n)'] /\ Files[n] = p
        /\ Content(n)' = [k \in 1 .. s |-> Cell(n, k)]
    BY <1>0, FilesReturned, ReturnedContent DEF Healthy
  <1>4. Reached = end /\ s = Greater(end, Len(p)) /\ ValidLength = s
    <2>1. Reached = end
      BY <1>0 DEF Reached, Writing
    <2>2. s = Greater(end, Len(p))
      BY DEF CallContent, SizeNow, Writing
    <2> QED BY <2>1, <2>2 DEF ValidLength, Writing
  <1>5. Holds(s)
    BY <1>4 DEF CallContent
  <1>6. Content(n)' = Promise!Written(p, op.off, op.buf)
    <2> DEFINE b(k) == IF k \in op.off + 1 .. op.off + Len(op.buf) THEN op.buf[k - op.off]
                       ELSE IF k <= Len(p) THEN p[k] ELSE "zero"
    <2>1. \A k \in 1 .. s : Cell(n, k) = b(k)
      BY <1>0, <1>1, <1>4, <1>5 DEF Holds, Image, Was
    <2>2. s = IF op.off + Len(op.buf) > Len(p) THEN op.off + Len(op.buf) ELSE Len(p)
      BY <1>1, <1>4 DEF Greater
    <2>3. Promise!Written(p, op.off, op.buf) = [k \in 1 .. s |-> b(k)]
      BY <2>2 DEF Promise!Written
    <2> HIDE DEF b
    <2> QED BY <1>3, <2>1, <2>3
  <1>7. Promise!Fits(n, op.off + Len(op.buf))
    <2>1. PICK e \in Nat : e = op.off + op.len
      BY <1>0
    <2>2. PICK size \in Nat : size = s
      BY <1>0
    <2>3. Room(size)
      BY <1>0, <1>5, <2>2, RoomOfChain DEF Holds
    <2>4. e <= size
      BY <1>0, <1>4, <2>1, <2>2 DEF Greater
    <2>5. Room(e)
      BY <1>0, <2>3, <2>4, RoomMonotone
    <2>6. Promise!Fits(op.node, e)
      BY <1>0, <2>5, FitsIsRoom DEF Healthy
    <2> QED BY <1>1, <2>1, <2>6
  <1>8. Promise!Write(n, op.off, op.buf)
    BY <1>2, <1>3, <1>6, <1>7 DEF Promise!Write
  <1> QED BY <1>0, <1>1, <1>8 DEF Promise!Operation

\* exfat_generic_pread() succeeds.
LEMMA ReadSimulates ==
  ASSUME Healthy, Healthy', CallContent, Step, ~Done, Return("ok"), ~op.rollback,
         UNCHANGED <<chain, data>>,
         \/ pc = "pread" /\ ReadLength = 0
         \/ pc = "preadLoop" /\ op.remainder = 0,
         node'[op.node].size = node[op.node].size
  PROVE  Promise!Operation
  <1> DEFINE n == op.node
             p == pre.content
             last == IF op.off + op.len < Len(p) THEN op.off + op.len ELSE Len(p)
             s == node[op.node].size
  <1>0. /\ n \in Nodes /\ pc \notin {"idle", "done"} /\ pc' = "done" /\ TypeOK /\ SaneInv
        /\ op.off \in Nat /\ op.len \in Nat /\ op.out \in Seq(Cells) /\ Len(op.out) \in Nat
        /\ s \in Nat /\ p \in Seq(Cells) /\ Len(p) \in Nat
    <2>1. TypeOK /\ SaneInv /\ n \in Nodes /\ pc' = "done"
      BY CallSteps DEF Healthy, Return
    <2>2. op \in OpType /\ s \in Nat
      BY <2>1 DEF TypeOK, NodeType
    <2>3. p \in Seq(Cells) /\ Len(p) \in Nat
      BY DEF CallContent
    <2> QED BY <2>1, <2>2, <2>3, SMTT(30) DEF OpType
  <1>1. /\ op.kind = "pread" /\ op.off \in 0 .. MaxSize /\ op.len \in ReadSizes
    BY <1>0 DEF Healthy, Arguments, Reading
  <1>2. s = Len(p) /\ ValidLength = s /\ Reached = op.off
    BY DEF CallContent, SizeNow, ValidLength, Reached, Truncating, Writing
  <1>3. /\ Files' = [Files EXCEPT ![n] = Content(n)'] /\ Files[n] = p
        /\ Content(n)' = [k \in 1 .. s |-> Cell(n, k)]
    BY <1>0, FilesReturned, ReturnedContent DEF Healthy
  <1>4. Content(n)' = p
    <2>1. \A k \in 1 .. s : Cell(n, k) = p[k]
      <3>1. Holds(s)
        BY <1>2 DEF CallContent
      <3> QED BY <1>0, <1>2, <3>1, ImageBefore DEF Holds, Was
    <2>2. p = [k \in 1 .. Len(p) |-> p[k]]
      <3>1. p \in [1 .. Len(p) -> Cells]
        BY <1>0, LenProperties
      <3> QED BY ONLY <3>1
    <2> QED BY <1>2, <1>3, <2>1, <2>2
  <1>5. UNCHANGED Files
    <2>1. Files = [m \in Nodes |-> Files[m]]
      BY DEF Files
    <2> QED BY <1>3, <1>4, <2>1
  <1>6. op.out = SubSeq(p, op.off + 1, last)
    <2>0. last \in Nat /\ last <= Len(p) /\ last <= op.off + op.len
      BY <1>0
    <2>1. CASE pc = "pread"
      <3>1. op.out = <<>>
        BY <2>1 DEF Healthy, SaneProgress, IoAt
      <3>2. last < op.off + 1
        BY <1>0, <1>2, <2>1 DEF ReadLength, Lesser
      <3> QED BY <1>0, <2>0, <3>1, <3>2, SubSeqEmpty, SMTT(30)
    <2>2. CASE pc = "preadLoop"
      <3>1. /\ op.off + Len(op.out) = last
            /\ \A k \in 1 .. Len(op.out) : op.out[k] = p[op.off + k]
        BY <1>0, <2>2 DEF CallContent, ReadSoFar, Reading, Lesser
      <3>2. \A i \in op.off + 1 .. last : p[i] \in Cells
        BY <1>0, <2>0, ElementOfSeq
      <3>3. /\ SubSeq(p, op.off + 1, last) \in Seq(Cells)
            /\ Len(SubSeq(p, op.off + 1, last)) = IF op.off + 1 <= last THEN last - (op.off + 1) + 1 ELSE 0
            /\ \A i \in 1 .. last - (op.off + 1) + 1 :
                 SubSeq(p, op.off + 1, last)[i] = p[(op.off + 1) + i - 1]
        <4>1. PICK a \in Int : a = op.off + 1
          BY <1>0
        <4>2. PICK b \in Int : b = last
          BY <2>0
        <4>3. \A i \in a .. b : p[i] \in Cells
          BY <3>2, <4>1, <4>2
        <4>4. /\ SubSeq(p, a, b) \in Seq(Cells)
              /\ Len(SubSeq(p, a, b)) = IF a <= b THEN b - a + 1 ELSE 0
              /\ \A i \in 1 .. b - a + 1 : SubSeq(p, a, b)[i] = p[a + i - 1]
          BY <4>3, SubSeqProperties
        <4> QED BY <4>1, <4>2, <4>4, Zenon
      <3>4. Len(SubSeq(p, op.off + 1, last)) = Len(op.out)
        BY <1>0, <2>0, <3>1, <3>3
      <3>5. ASSUME NEW i \in 1 .. Len(op.out) PROVE op.out[i] = SubSeq(p, op.off + 1, last)[i]
        <4>1. i \in 1 .. last - (op.off + 1) + 1 /\ (op.off + 1) + i - 1 = op.off + i
          BY <1>0, <2>0, <3>1
        <4> QED BY <3>1, <3>3, <4>1
      <3> QED BY <1>0, <3>3, <3>4, <3>5, SeqEqual
    <2> QED BY <2>1, <2>2
  <1>7. Promise!Reply("ok", SubSeq(p, op.off + 1, last))
    BY <1>6, ReplyReturned DEF Returned
  <1>8. Promise!Read(n, op.off, op.len)
    BY <1>3, <1>5, <1>7 DEF Promise!Read
  <1> QED BY <1>0, <1>1, <1>8 DEF Promise!Operation

\* Every return is what the promise says of the call.
LEMMA ReturnSimulates ==
  ASSUME Healthy, Healthy', CallContent, Step, ~Done, pc' = "done"
  PROVE  Promise!Operation
  <1> DEFINE n == op.node
  <1>0. /\ TypeOK /\ SaneInv /\ SaneProgress /\ Arguments /\ n \in Nodes /\ faults = 0
        /\ op.size \in Nat /\ node[n].size \in Nat /\ op.boundary \in Nat
        /\ node \in [Nodes -> NodeType]
    <2>1. TypeOK /\ SaneInv /\ SaneProgress /\ Arguments /\ n \in Nodes /\ faults = 0
      BY CallSteps DEF Healthy
    <2> QED BY <2>1 DEF TypeOK, OpType, NodeType
  <1>1. op.rollback => pc \in {"shrink", "shrinkCrop", "shrinkFree", "done", "bug", "advance"}
    BY <1>0 DEF SaneInv, CallInv
  <1>2. CASE TruncateWithin /\ Return("ok") /\ op.then = "done" /\ node[n].size = op.size
    <2>1. pc = "truncate" /\ UNCHANGED <<node, chain, data>>
      BY <1>2 DEF TruncateWithin, disk, history
    <2>2. Truncating /\ ValidLength = op.size
      BY <1>0, <1>2, <2>1 DEF Truncating, ValidLength, Writing, Lesser
    <2> QED BY <1>1, <1>2, <2>1, <2>2, TruncateSimulates
  <1>3. CASE GrowEmpty /\ Return("ENOSPC")
    <2>1. ~Room(op.size) /\ UNCHANGED <<node, chain, data>>
      BY <1>0, <1>3, GrowRefused DEF SaneProgress
    <2>2. pc = "truncate" /\ Current < Target
      BY <1>3 DEF GrowEmpty
    <2>3. op.size > node[n].size
      BY <1>0, <2>2, Larger DEF Target, Current
    <2> QED BY <1>3, <2>1, <2>2, <2>3, RefusedSimulates DEF Truncating
  <1>4. CASE GrowNoSpace /\ op.allocated = 0 /\ Return("ENOSPC")
    <2>1. ~Room(op.size) /\ UNCHANGED <<node, chain, data>>
      BY <1>0, <1>4, GrowRefused DEF SaneProgress
    <2>2. pc = "growLoop" /\ op.allocated < op.difference
      BY <1>4 DEF GrowNoSpace
    <2>3. op.size > node[n].size
      <3>0. op.allocated \in Nat /\ op.difference \in Nat
        BY <1>0 DEF TypeOK, OpType
      <3>1. /\ op.current = bytes2clusters(node[n].size)
            /\ op.current + op.difference = bytes2clusters(op.size)
        BY <1>0, <2>2 DEF SaneInv, CallInv, GrowLabels, GrowInv
      <3>2. bytes2clusters(op.size) \in Nat /\ bytes2clusters(node[n].size) \in Nat
        BY <1>0, Bytes2ClustersNat
      <3>3. bytes2clusters(node[n].size) < bytes2clusters(op.size)
        BY <2>2, <3>0, <3>1, <3>2
      <3> QED BY <1>0, <3>3, Larger
    <2> QED BY <1>4, <2>1, <2>2, <2>3, RefusedSimulates DEF Truncating
  <1>5. CASE ShrinkEnd /\ op.rollback /\ Return("ENOSPC")
    <2>1. pc = "shrinkFree" /\ UNCHANGED <<node, chain, data>>
      BY <1>5 DEF ShrinkEnd, disk
    <2>2. op.size > node[n].size
      BY <1>0, <1>5, <2>1 DEF SaneProgress, GrowthKept
    <2>3. ~Room(op.size)
      BY <1>5 DEF CallContent
    <2> QED BY <1>5, <2>1, <2>2, <2>3, RefusedSimulates DEF Truncating
  <1>6. CASE Truncated /\ op.then = "done" /\ Return("ok") /\ (EraseStart \/ EraseEnd)
    <2>1. pc \in {"erase", "eraseLoop"} /\ UNCHANGED <<chain, data>>
      BY <1>6 DEF EraseStart, EraseEnd, Truncated, disk, history
    <2>2. node'[n].size = op.size
      BY <1>0, <1>6 DEF Truncated, NodeType
    <2>3. Truncating /\ ~op.rollback
      BY <1>1, <2>1 DEF Truncating
    <2>4. ValidLength = op.size
      <3>1. CASE EraseStart
        <4>1. pc = "erase" /\ op.erase
          BY <1>0, <1>6, <2>3, <3>1 DEF EraseStart, Arguments
        <4>2. ~(node[n].size < op.size)
          BY <3>1, <4>1 DEF EraseStart, CallAdvance
        <4> QED BY <1>0, <2>3, <4>1, <4>2, TruncateStage DEF Lesser
      <3>2. CASE EraseEnd
        <4>1. pc = "eraseLoop" /\ op.boundary >= op.size
          BY <3>2 DEF EraseEnd
        <4> QED BY <1>0, <2>3, <4>1, TruncateStage DEF Lesser
      <3> QED BY <1>6, <3>1, <3>2
    <2> QED BY <1>6, <2>1, <2>2, <2>3, <2>4, TruncateSimulates
  <1>7. CASE WriteStart /\ Return("ok")
    <2>1. pc = "pwriteData" /\ IoStart(op.len, "pwriteLoop")
      BY <1>7 DEF WriteStart
    <2>2. op.len = 0 /\ UNCHANGED <<node, chain, data>>
      <3>1. op.len = 0
        BY <1>7, <2>1 DEF IoStart, CallAdvance
      <3> QED BY <2>1, <3>1 DEF IoStart, disk, history
    <2> QED BY <1>1, <1>7, <2>1, <2>2, WriteSimulates
  <1>8. CASE ReadStart /\ Return("ok")
    <2>1. pc = "pread" /\ IoStart(ReadLength, "preadLoop")
      BY <1>8 DEF ReadStart, ReadLength
    <2>2. ReadLength = 0 /\ UNCHANGED <<node, chain, data>>
      <3>1. ReadLength = 0
        BY <1>8, <2>1 DEF IoStart, CallAdvance
      <3> QED BY <2>1, <3>1 DEF IoStart, disk, history
    <2> QED BY <1>1, <1>8, <2>1, <2>2, ReadSimulates
  <1>9. CASE IoEnd /\ Return("ok")
    <2>1. pc \in {"pwriteLoop", "preadLoop"} /\ op.remainder = 0 /\ UNCHANGED <<chain, data>>
      BY <1>9 DEF IoEnd, disk, history
    <2>2. node'[n].size = node[n].size
      BY <1>0, <1>9 DEF IoEnd, NodeType
    <2>3. ~op.rollback
      BY <1>1, <2>1
    <2> QED BY <1>9, <2>1, <2>2, <2>3, WriteSimulates, ReadSimulates
  <1>10. ~((Advance \/ ShrinkInvalid \/ IoInvalid \/ DeviceFails) /\ Return("EIO"))
    <2>1. faults' = 0
      BY DEF Healthy
    <2> QED BY <1>0, <2>1, NoEIO
  <1> QED BY <1>0, <1>2, <1>3, <1>4, <1>5, <1>6, <1>7, <1>8, <1>9, <1>10, Returns

\* Where the file system is not touched the files are the same.
LEMMA SameContent ==
  ASSUME TypeOK, SaneInv, ContentIs, ContentIs', sane, sane', faults = 0,
         UNCHANGED <<node, chain, data>>, NEW m \in Nodes,
         pc \in {"idle", "done"} \/ m # op.node
  PROVE  Content(m)' = Content(m)
  <1>1. Len(chain[m]) = bytes2clusters(node[m].size) /\ Content(m) = Bytes(m)
    BY SettledContent
  <1>2. bytes2clusters(node[m].size) \in Nat
    <2>1. node[m].size \in Nat
      BY DEF TypeOK, NodeType
    <2> QED BY <2>1, Bytes2ClustersNat
  <1>3. Content(m)' = Bytes(m)'
    <2>1. bytes2clusters(node'[m].size) <= Len(chain'[m])
      BY <1>1, <1>2
    <2> QED BY <2>1 DEF ContentIs, bytes2clusters
  <1>4. Bytes(m)' = Bytes(m)
    BY DEF Bytes, Cell
  <1> QED BY <1>1, <1>3, <1>4

\* A step of a call that does not return changes nothing a caller sees, one
\* that returns is what the promise says of the call.
LEMMA StepSimulates ==
  ASSUME TypeOK, IInv, Progress, Arguments, Contents, ContentIs,
         TypeOK', IInv', Progress', Arguments', ContentIs', [Next]_vars
  PROVE  [Promise!Next]_<<Files, Reply, Working>>
  <1>1. CASE ~Working'
    BY <1>1 DEF Promise!Next
  <1>2. CASE Working'
    <2>0. Healthy /\ Healthy' /\ Working = Working'
      <3>1. sane /\ faults = 0
        BY <1>2, SaneBefore, FaultsGrow DEF Working
      <3> QED BY <1>2, <3>1 DEF Healthy, Working, IInv, Progress
    <2>1. CASE UNCHANGED vars
      <3>1. UNCHANGED <<node, chain, data, pc, op, pre>>
        BY <2>1 DEF vars, disk, history
      <3>2. ASSUME NEW m \in Nodes PROVE Files'[m] = Files[m]
        <4>1. CASE pc \notin {"idle", "done"} /\ op.node = m
          BY <3>1, <4>1 DEF Files
        <4>2. CASE ~(pc \notin {"idle", "done"} /\ op.node = m)
          <5>1. Content(m)' = Content(m)
            BY <2>0, <3>1, <4>2, SameContent DEF Healthy
          <5> QED BY <3>1, <4>2, <5>1 DEF Files
        <4> QED BY <4>1, <4>2
      <3>3. Files' = Files
        <4>1. Files = [m \in Nodes |-> Files[m]] /\ Files' = [m \in Nodes |-> Files'[m]]
          BY DEF Files
        <4> QED BY <3>2, <4>1
      <3>4. Reply' = Reply
        BY <3>1 DEF Reply
      <3> QED BY <2>0, <3>3, <3>4
    <2>2. CASE Call
      <3>1. PICK n \in Nodes : /\ op'.node = n /\ pc = "idle" /\ pre'.content = Content(n)
                               /\ UNCHANGED <<node, chain, data>>
                               /\ pc' \in {"truncate", "pwrite", "pread"}
        BY <2>2, CallBegins DEF disk
      <3>2. ASSUME NEW m \in Nodes PROVE Files'[m] = Files[m]
        <4>1. Content(m)' = Content(m)
          BY <2>0, <3>1, SameContent DEF Healthy
        <4> QED BY <3>1, <4>1 DEF Files
      <3>3. Files' = Files
        <4>1. Files = [m \in Nodes |-> Files[m]] /\ Files' = [m \in Nodes |-> Files'[m]]
          BY DEF Files
        <4> QED BY <3>2, <4>1
      <3>4. Reply' = Reply
        BY <3>1 DEF Reply
      <3> QED BY <2>0, <3>3, <3>4
    <2>3. CASE Done
      <3>1. pc = "done" /\ pc' = "idle" /\ UNCHANGED <<node, chain, data>>
        BY <2>3 DEF Done, disk
      <3>2. ASSUME NEW m \in Nodes PROVE Files'[m] = Files[m]
        <4>1. Content(m)' = Content(m)
          BY <2>0, <3>1, SameContent DEF Healthy
        <4> QED BY <3>1, <4>1 DEF Files
      <3>3. Files' = Files
        <4>1. Files = [m \in Nodes |-> Files[m]] /\ Files' = [m \in Nodes |-> Files'[m]]
          BY DEF Files
        <4> QED BY <3>2, <4>1
      <3>4. Reply.rc # "none" /\ Reply' = [rc |-> "none", out |-> <<>>]
        BY <3>1 DEF Reply, Arguments
      <3>5. Promise!Take
        BY <3>3, <3>4 DEF Promise!Take, Promise!NoResult
      <3> QED BY <3>5 DEF Promise!Next, Promise!Operation
    <2>4. CASE Step /\ ~Done
      <3>1. pc \notin {"idle", "done", "bug"}
        BY <2>0, <2>4, CallSteps, BeforeDone DEF Healthy, SaneProgress, NoAbort
      <3>2. CASE pc' = "done"
        <4>1. CallContent
          BY <2>0, <3>1 DEF Healthy, Contents
        <4>2. Promise!Operation
          BY <2>0, <2>4, <3>2, <4>1, ReturnSimulates
        <4> QED BY <4>2 DEF Promise!Next
      <3>3. CASE pc' # "done"
        <4>1. Files' = Files
          BY <2>0, <2>4, <3>3, FilesStill DEF Healthy
        <4>2. Reply' = Reply
          BY <3>1, <3>3 DEF Reply
        <4> QED BY <2>0, <4>1, <4>2
      <3> QED BY <3>2, <3>3
    <2>5. CASE Aborted
      BY <2>1, <2>5 DEF Aborted
    <2> QED BY <2>1, <2>2, <2>3, <2>4, <2>5 DEF Next
  <1> QED BY <1>1, <1>2

\* The volume that is mounted has the files of bytes of its layout.
LEMMA InitSimulates == Init => Promise!Init
  <1> SUFFICES ASSUME NEW l \in Layouts, NEW g \in FatGarbage, Init!(l, g)
               PROVE  Promise!Init
    BY DEF Init
  <1>1. Init
    BY DEF Init
  <1>2. TypeOK /\ SaneInv /\ sane /\ faults = 0 /\ pc = "idle" /\ ContentIs
    <2>1. TypeOK /\ SaneInv
      BY <1>1, TypeInit, InitInv
    <2> QED BY <2>1, ContentIsBytes DEF IInv
  <1>3. ASSUME NEW n \in Nodes PROVE Files[n] = Junk(l[n].size)
    <2>1. /\ Len(chain[n]) = bytes2clusters(node[n].size) /\ Content(n) = Bytes(n)
          /\ node[n].size = l[n].size /\ node[n].size \in Nat
          /\ chain[n] \in Seq(Clusters)
      <3>1. Len(chain[n]) = bytes2clusters(node[n].size) /\ Content(n) = Bytes(n)
        BY <1>2, SettledContent
      <3>2. node[n].size \in Nat /\ chain[n] \in Seq(Clusters)
        BY <1>2 DEF TypeOK, NodeType
      <3> QED BY <3>1, <3>2
    <2>2. ASSUME NEW k \in 1 .. node[n].size PROVE Cell(n, k) = "junk"
      <3> DEFINE q == (k - 1) \div ClusterSize + 1
      <3>1. q \in 1 .. Len(chain[n]) /\ (k - 1) % ClusterSize \in 0 .. ClusterSize - 1
        BY <2>1, ByteAt
      <3> HIDE DEF q
      <3>2. chain[n][q] \in Clusters
        BY <2>1, <3>1, ElementOfSeq
      <3>3. data[chain[n][q]][(k - 1) % ClusterSize] = "junk"
        BY <3>1, <3>2
      <3> QED BY <3>3 DEF Cell, q
    <2>3. Bytes(n) = Junk(l[n].size)
      <3>1. [k \in 1 .. node[n].size |-> Cell(n, k)] = [k \in 1 .. node[n].size |-> "junk"]
        BY <2>2
      <3> QED BY <2>1, <3>1 DEF Bytes, Junk
    <2> QED BY <1>2, <2>1, <2>3 DEF Files
  <1>4. Files = [n \in Nodes |-> Junk(l[n].size)]
    <2>1. Files = [n \in Nodes |-> Files[n]]
      BY DEF Files
    <2> QED BY <1>3, <2>1
  <1>5. Reply = Promise!NoResult /\ Working = TRUE
    BY <1>2 DEF Reply, Working, Promise!NoResult
  <1> QED BY <1>4, <1>5 DEF Promise!Init

\* The calls of cluster.c and io.c implement files of bytes, for every volume,
\* cluster size and sequence of calls: a file is what the callers wrote to it
\* and zeros where they only made it longer, a read returns it, a call leaves
\* the other files alone, and ENOSPC is returned exactly when the clusters the
\* call needs are not free.  This holds as long as the device works and no
\* contiguous file was given the cluster before its last one (Working).
THEOREM RefinesByteFilesHolds == Spec => RefinesByteFiles
  <1>1. Init => Promise!Init
    BY InitSimulates
  <1>2. Spec => []ContentIs
    BY ContentIsBytes, TypeCorrect, InvariantHolds, PTL
  <1>3. Inductive => IInv /\ Progress /\ Arguments /\ Contents
    BY DEF Inductive
  <1>4. /\ TypeOK /\ IInv /\ Progress /\ Arguments /\ Contents /\ ContentIs
        /\ TypeOK' /\ IInv' /\ Progress' /\ Arguments' /\ ContentIs' /\ [Next]_vars
        => [Promise!Next]_<<Files, Reply, Working>>
    BY StepSimulates
  <1> QED BY <1>1, <1>2, <1>3, <1>4, InductiveHolds, TypeCorrect, PTL
          DEF Spec, RefinesByteFiles, Promise!Spec

=============================================================================
