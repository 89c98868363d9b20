-------------------------- MODULE ClusterInvariant --------------------------
(***************************************************************************)
(* The inductive invariant behind Ownership: what holds at each step of a  *)
(* call, as long as the volume is sane.                                    *)
(***************************************************************************)
EXTENDS FileClusters

Injective(s) == \A i, j \in 1 .. Len(s) : s[i] = s[j] => i = j

\* Clusters are owned once and allocated.
OwnInv ==
  /\ \A n \in Nodes : Injective(chain[n])
  /\ Injective(tail)
  /\ \A n \in Nodes, m \in Nodes : n # m =>
       \A i \in 1 .. Len(chain[n]), j \in 1 .. Len(chain[m]) :
         chain[n][i] # chain[m][j]
  /\ \A n \in Nodes : \A i \in 1 .. Len(chain[n]), j \in 1 .. Len(tail) :
       chain[n][i] # tail[j]
  /\ \A n \in Nodes : \A i \in 1 .. Len(chain[n]) :
       chain[n][i] \in cmap /\ chain[n][i] \notin Reserved
  /\ \A i \in 1 .. Len(tail) : tail[i] \in cmap /\ tail[i] \notin Reserved
  /\ Reserved \subseteq cmap

\* Each cluster of s leads to the next one, for file n: in one run of
\* clusters, or through the FAT.
LinkedSeq(n, s) ==
  IF node[n].is_contiguous
  THEN \A i \in 1 .. Len(s) : s[i] = s[1] + i - 1
  ELSE \A i \in 1 .. Len(s) - 1 : s[i + 1] = fat[s[i]]

\* The start cluster and the links of a file are those of its chain.
FileChain(n) ==
  /\ Len(chain[n]) = 0 => node[n].start_cluster = EXFAT_CLUSTER_FREE
  /\ Len(chain[n]) > 0 => node[n].start_cluster = chain[n][1]
  /\ LinkedSeq(n, chain[n])

ChainInv == \A n \in Nodes : FileChain(n)

\* The cursor of n is at cluster number k of its chain.
CursorAt(n, k) ==
  IF Len(chain[n]) = 0
  THEN k = 0 /\ node[n].fptr_cluster = EXFAT_CLUSTER_FREE
  ELSE k < Len(chain[n]) /\ node[n].fptr_cluster = chain[n][k + 1]

HasClusters(n, len) == Len(chain[n]) = len

\* what a file is between calls
SettledFile(n) ==
  /\ HasClusters(n, bytes2clusters(node[n].size))
  /\ CursorAt(n, node[n].fptr_index)

\* labels at which the call has not changed its file, or has completely
QuietLabels ==
  {"done", "truncate", "pwrite", "pwriteExtend", "pwriteData", "pwriteLoop",
   "pread", "preadLoop"}

GrowLabels == {"growLoop", "growFat", "growLink"}

FilesInv ==
  faults = 0 =>
    \A n \in Nodes :
      pc \in QuietLabels \cup {"idle"} \/ n # op.node => SettledFile(n)

\* where shrink_file is to end
ShrinksTo(len) ==
  len = bytes2clusters(IF op.rollback THEN node[op.node].size ELSE op.size)

GrowInv ==
  LET n == op.node
  IN  /\ HasClusters(n, op.current + op.allocated)
      /\ op.current + op.allocated > 0
      /\ op.allocated <= op.difference
      /\ op.current = bytes2clusters(node[n].size)
      /\ op.current + op.difference = bytes2clusters(op.size)

\* The call on n = op.node, while it changes n.
CallInv ==
  LET n == op.node
  IN  /\ pc \notin {"growFat", "growLink", "shrinkFree"} => tail = <<>>
      /\ pc \in GrowLabels =>
           /\ GrowInv
           /\ CursorAt(n, node[n].fptr_index)
           /\ op.cluster = chain[n][Len(chain[n])]
      /\ pc \in {"growFat", "growLink"} =>
           tail = <<op.next>> /\ op.allocated < op.difference
      /\ pc = "growFat" =>
           /\ node[n].is_contiguous
           /\ op.i \in chain[n][1] .. op.cluster
           /\ \A k \in 1 .. Len(chain[n]) :
                chain[n][k] < op.i => fat[chain[n][k]] = chain[n][k] + 1
      /\ pc = "growLink" => ~node[n].is_contiguous
      /\ pc = "advance" =>
           /\ op.i <= op.count
           /\ op.count < Len(chain[n])
           /\ CursorAt(n, op.i)
           /\ op.ret = "growLoop" =>
                GrowInv /\ op.count = op.current - 1 /\ op.allocated = 0
           /\ op.ret \in {"pwriteLoop", "preadLoop"} =>
                HasClusters(n, bytes2clusters(node[n].size))
           /\ op.ret = "eraseFirst" => HasClusters(n, bytes2clusters(op.size))
      /\ pc = "shrink" => CursorAt(n, node[n].fptr_index)
      /\ pc = "shrink" \/ (pc = "advance" /\ op.ret = "shrinkCrop") =>
           /\ HasClusters(n, op.current)
           /\ 0 < op.difference /\ op.difference <= op.current
           /\ ShrinksTo(op.current - op.difference)
      /\ pc = "advance" /\ op.ret = "shrinkCrop" =>
           op.count = op.current - op.difference - 1
      /\ pc = "shrinkCrop" =>
           /\ HasClusters(n, op.current)
           /\ 0 < op.difference /\ op.difference < op.current
           /\ ShrinksTo(op.current - op.difference)
           /\ op.cluster = chain[n][op.current - op.difference]
      /\ pc = "shrinkFree" =>
           /\ Len(tail) = op.difference
           /\ ShrinksTo(Len(chain[n]))
           /\ CursorAt(n, node[n].fptr_index)
           /\ LinkedSeq(n, tail)
           /\ op.difference > 0 /\ (faults = 0 \/ op.cluster \in Clusters) =>
                op.cluster = tail[1]
      /\ pc \in {"erase", "eraseFirst", "eraseLoop"} =>
           /\ HasClusters(n, bytes2clusters(op.size))
           /\ CursorAt(n, node[n].fptr_index)
      \* only a grow_file that found no space allocates and rolls back
      /\ pc \in {"truncate", "pwrite", "pwriteExtend"} => op.allocated = 0
      /\ op.rollback =>
           \/ pc \in {"shrink", "shrinkCrop", "shrinkFree", "done", "bug"}
           \/ pc = "advance" /\ op.ret = "shrinkCrop"
      \* a pwrite only grows its file, up to what it writes
      /\ op.then # "done" /\ pc \notin {"done", "bug"} => op.size > node[n].size
      /\ op.then = "pwriteData" => op.size = op.off + op.len
      /\ pc = "pwriteData" => op.off + op.len <= node[n].size
      /\ \/ pc \in {"shrink", "shrinkCrop", "shrinkFree"}
         \/ (pc = "advance" /\ op.ret = "shrinkCrop")
         => op.rollback \/ (op.then = "done" /\ op.size < node[n].size)
      \* a call that met a failure has returned, or changes nothing any more
      /\ faults > 0 =>
           \/ pc \in {"idle", "done", "bug", "pwriteLoop", "preadLoop"}
           \/ pc = "shrinkFree" /\ (op.difference > 0 => op.cluster \notin Clusters)
           \/ pc = "erase" /\ op.then = "done" /\ op.size < node[n].size

SaneInv == OwnInv /\ ChainInv /\ FilesInv /\ CallInv

IInv == sane => SaneInv

=============================================================================
