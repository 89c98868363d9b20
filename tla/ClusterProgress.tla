-------------------------- MODULE ClusterProgress --------------------------
(***************************************************************************)
(* What holds beyond ClusterInvariant as long as the volume is sane: where *)
(* the loops of a call are in its file, how chains end, and what a call    *)
(* that extends its file has kept.                                         *)
(***************************************************************************)
EXTENDS ClusterInvariant

InSeq(c, s) == \E i \in 1 .. Len(s) : s[i] = c

\* The end of the chain is marked, unless the file is one run of clusters.
Terminated(n) ==
  Len(chain[n]) > 0 /\ ~node[n].is_contiguous =>
    fat[chain[n][Len(chain[n])]] = EXFAT_CLUSTER_END

\* The call has appended clusters or is about to cut the chain.
OpenEnded ==
  \/ pc \in {"growFat", "growLink", "shrink", "shrinkCrop", "bug"}
  \/ pc = "growLoop" /\ op.allocated > 0
  \/ pc = "advance" /\ op.ret = "shrinkCrop"

EndsMarked ==
  faults = 0 => \A n \in Nodes : n # op.node \/ ~OpenEnded => Terminated(n)

\* A cluster in use is a system file's, a file's or the running call's.
NoneLost ==
  faults = 0 =>
    \A c \in cmap : \/ c \in Reserved
                    \/ InSeq(c, tail)
                    \/ \E n \in Nodes : InSeq(c, chain[n])

NoAbort == faults = 0 => pc # "bug"

\* Number of the cluster, from 0, in which the file of the call ends.
EndCluster == node[op.node].size \div ClusterSize

\* erase_range() has reached byte op.boundary of the file, the end of a
\* cluster behind its old end.
EraseAt ==
  LET n == op.node
  IN  /\ pc = "advance" /\ op.ret = "eraseFirst" =>
           op.count = EndCluster /\ op.boundary = (EndCluster + 1) * ClusterSize
      /\ pc = "eraseFirst" =>
           /\ EndCluster < Len(chain[n])
           /\ op.cluster = chain[n][EndCluster + 1]
           /\ op.boundary = (EndCluster + 1) * ClusterSize
      /\ pc = "eraseLoop" =>
           \E k \in 1 .. Len(chain[n]) :
             /\ EndCluster < k
             /\ op.cluster = chain[n][k]
             /\ op.boundary = k * ClusterSize

IoLoops == {"pwriteLoop", "preadLoop"}

\* the byte of the file a read or write has come to
Position == IF op.kind = "pwrite" THEN op.off + op.len - op.remainder
            ELSE op.off + Len(op.out)

\* The loops of pread and pwrite are inside the file, and at the cluster that
\* holds the byte they have come to.
IoAt ==
  /\ pc = "pread" => op.kind = "pread" /\ op.out = <<>>
  /\ pc \in IoLoops \/ (pc = "advance" /\ op.ret \in IoLoops) =>
       Position + op.remainder <= node[op.node].size
  /\ pc = "advance" /\ op.ret \in IoLoops =>
       Position = op.count * ClusterSize + op.loffset
  /\ pc \in IoLoops /\ op.remainder > 0 =>
       IF faults # 0 THEN op.cluster \notin Clusters
       ELSE \E k \in 1 .. Len(chain[op.node]) :
              /\ op.cluster = chain[op.node][k]
              /\ Position = (k - 1) * ClusterSize + op.loffset

\* The bytes the file had, in the clusters it has.
BytesKept ==
  LET n == op.node
  IN  /\ bytes2clusters(node[n].size) <= Len(chain[n])
      /\ \A k \in 1 .. node[n].size :
           data[chain[n][(k - 1) \div ClusterSize + 1]][(k - 1) % ClusterSize]
             = pre.content[k]

\* The clusters in use when the call began.
MapKept ==
  LET n == op.node
  IN  /\ pre.cmap \subseteq Clusters
      /\ \A c \in Clusters :
           c \in pre.cmap <=>
             \/ c \in Reserved
             \/ \E m \in Nodes \ {n} : InSeq(c, chain[m])
             \/ \E i \in 1 .. bytes2clusters(node[n].size) : chain[n][i] = c

\* A call is refused for lack of space when it would make its file larger;
\* until a truncate has succeeded its file has the size it had, and one that
\* makes the file larger has kept its bytes and clusters.
GrowthKept ==
  /\ pc # "idle" /\ (op.rollback \/ op.rc = "ENOSPC") =>
       op.size > node[op.node].size
  /\ op.rc \in {"ok", "EIO", "ENOSPC"} => pc = "done"
  /\ pc # "idle" /\ op.kind = "truncate" /\ op.rc # "ok" =>
       /\ pre.content \in Seq(Cells) /\ Len(pre.content) = node[op.node].size
       /\ op.size > node[op.node].size => BytesKept /\ (faults = 0 => MapKept)

SaneProgress ==
  EndsMarked /\ NoneLost /\ NoAbort /\ EraseAt /\ IoAt /\ GrowthKept

Progress == sane => SaneProgress

=============================================================================
