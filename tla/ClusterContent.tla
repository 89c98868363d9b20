--------------------------- MODULE ClusterContent ---------------------------
(***************************************************************************)
(* What the clusters of a file hold at each step of a call on a sane       *)
(* volume and a working device, and how the calls of cluster.c and io.c    *)
(* implement the files of bytes of ByteFiles.                              *)
(***************************************************************************)
EXTENDS ClusterProgress, FiniteSets

Greater(a1, a2) == IF a1 > a2 THEN a1 ELSE a2

\* exfat_truncate() is being executed.
Truncating ==
  \/ pc \in {"truncate", "growLoop", "growFat", "growLink", "shrink", "shrinkCrop",
             "shrinkFree", "erase", "eraseFirst", "eraseLoop"}
  \/ pc = "advance" /\ op.ret \notin IoLoops

\* The loop of exfat_generic_pwrite, of exfat_generic_pread.
Writing == pc = "pwriteLoop" \/ (pc = "advance" /\ op.ret = "pwriteLoop")
Reading == pc = "preadLoop" \/ (pc = "advance" /\ op.ret = "preadLoop")

\* A call has the arguments its caller gave it, and an exfat_truncate() those
\* of the place it was called from.
Arguments ==
  pc # "idle" =>
    /\ op.kind # "none"
    /\ op.kind = "truncate" => op.size \in 0 .. MaxSize
    /\ op.kind = "pwrite" => op.off \in 0 .. MaxSize /\ op.buf \in Buffers
    /\ op.kind = "pread" => op.off \in 0 .. MaxSize /\ op.len \in ReadSizes
    /\ pc = "pread" \/ Reading => op.kind = "pread"
    /\ pc = "done" => op.rc \in {"ok", "EIO", "ENOSPC"}
    /\ op.kind # "pread" => op.out = <<>>
    /\ Truncating =>
         /\ op.kind # "pread"
         /\ op.kind = "truncate" <=> op.then = "done"
         /\ op.erase <=> op.then # "pwriteData"
         /\ op.then = "pwriteExtend" => op.size = op.off

\* byte k of the file as the call found it, with zeros behind its end
Was(k) == IF k <= Len(pre.content) THEN pre.content[k] ELSE "zero"

\* the byte up to which the call has written its buffer
Reached == IF Writing THEN op.off + op.len - op.remainder ELSE op.off

\* byte k of the file as the call has left it so far
Image(k) == IF op.off < k /\ k <= Reached THEN op.buf[k - op.off] ELSE Was(k)

\* byte k of file n on the device
Cell(n, k) ==
  data[chain[n][(k - 1) \div ClusterSize + 1]][(k - 1) % ClusterSize]

\* The file has its first len bytes.
Holds(len) ==
  /\ bytes2clusters(len) <= Len(chain[op.node])
  /\ \A k \in 1 .. len : Cell(op.node, k) = Image(k)

\* the size of the file, at each stage of the call
SizeNow ==
  IF pc = "pwriteData" \/ Writing
  THEN Greater(op.off + op.len, Len(pre.content))
  ELSE IF pc = "pwriteExtend" \/ (Truncating /\ op.then = "pwriteData")
  THEN Greater(op.off, Len(pre.content))
  ELSE Len(pre.content)

\* how much of it is as it has to be: the rest is to be cut off, zeroed or
\* written to
ValidLength ==
  IF pc = "pwriteData" \/ Writing THEN Greater(Reached, Len(pre.content))
  ELSE IF pc = "eraseLoop" THEN Lesser(op.boundary, op.size)
  ELSE IF Truncating THEN Lesser(op.size, node[op.node].size)
  ELSE node[op.node].size

\* What a read has returned so far, and how much is left of what it returns.
ReadSoFar ==
  Reading =>
    /\ op.off + Len(op.out) + op.remainder
         = Lesser(op.off + op.len, Len(pre.content))
    /\ \A k \in 1 .. Len(op.out) : op.out[k] = pre.content[op.off + k]

\* the clusters of the files S, by file and position
ChainSlots(S) == UNION {{m} \X (1 .. Len(chain[m])) : m \in S}

\* The clusters available to files.
Capacity == NClusters - Cardinality(Reserved)

\* The other files leave the clusters that op.node needs for size bytes.
Room(size) ==
  bytes2clusters(size) + Cardinality(ChainSlots(Nodes \ {op.node})) <= Capacity

\* A call in progress: what its file holds, and if it is refused for lack of
\* space the space is missing.
CallContent ==
  /\ pre.content \in Seq(Cells)
  /\ node[op.node].size = SizeNow
  /\ Holds(ValidLength)
  /\ ReadSoFar
  /\ op.rollback => ~Room(op.size)

Contents ==
  sane /\ faults = 0 /\ pc \notin {"idle", "done", "bug"} => CallContent

\* The inductive invariant of the calls of cluster.c and io.c: what
\* ClusterInvariant, ClusterProgress and this module say holds at every step
\* of every call on a sane volume.
Inductive == IInv /\ Progress /\ Arguments /\ Contents

-----------------------------------------------------------------------------
Junk(size) == [k \in 1 .. size |-> "junk"]

\* The files of bytes: until a call returns its file is what it was.
Files ==
  [n \in Nodes |-> IF pc \notin {"idle", "done"} /\ op.node = n
                   THEN pre.content ELSE Content(n)]

Reply == IF pc = "done" THEN [rc |-> op.rc, out |-> op.out]
         ELSE [rc |-> "none", out |-> <<>>]

Working == sane /\ faults = 0

Promise == INSTANCE ByteFiles WITH
  Volumes <- {[n \in Nodes |-> Junk(l[n].size)] : l \in Layouts},
  files <- Files, result <- Reply, ok <- Working

\* The calls of cluster.c and io.c implement files of bytes: every call reads,
\* writes and resizes what the caller asked for and nothing else, zeroes what
\* it adds, and fails with ENOSPC exactly when the space is missing.
RefinesByteFiles == Promise!Spec

=============================================================================
