------------------------------- MODULE Walks --------------------------------
(***************************************************************************)
(* The loops that go along a chain or over the bitmap of a volume they do  *)
(* not change:                                                             *)
(*   "u"  the ranges of used sectors (dumpexfat -u, cluster.c)             *)
(*   "f"  the fragments of a file (dumpexfat -f, dump/main.c)              *)
(*   "r"  the size of the root directory (rootdir_size(), mount.c)         *)
(*   "n"  the clusters of a file (nodeck(), fsck/main.c)                   *)
(*   "p"  the share of allocated clusters (finalize_super_block())         *)
(* Positions are in sectors; a sector has one byte.  What can be wrong on  *)
(* the device is in the FAT: links out of range, cycles, entries that      *)
(* cannot be read.                                                         *)
(***************************************************************************)
EXTENDS Integers, Sequences, FiniteSets

CONSTANTS
  Counts,      \* the numbers of clusters a volume may have
  SpcBits,     \* the values of spc_bits
  HeapStart,   \* cluster_sector_start, after the super block in sector 0
  Word,        \* the values of a uint32_t, 2^32
  Fats         \* the volumes of a given number of clusters with a file

VARIABLES
  sb,      \* the super block
  used,    \* the clusters whose bit is set
  node,    \* the file of option -f and its chain
  a, b,    \* the last range of sectors
  cluster, fragment_start_cluster, remainder, fragment_size,
  clusters, \* the counter of rootdir_size(), nodeck() and the bitmap's bits
  out,     \* what is printed, or the percentage
  rc,
  pc

vars == <<sb, used, node, a, b, cluster, fragment_start_cluster, remainder,
          fragment_size, clusters, out, rc, pc>>

EXFAT_FIRST_DATA_CLUSTER == 2
EXFAT_CLUSTER_BAD == -9
EXFAT_CLUSTER_END == -1
Clusters(count) == EXFAT_FIRST_DATA_CLUSTER .. count + 1
Least(S) == CHOOSE x \in S : \A y \in S : x <= y
CLUSTER_SIZE == 2 ^ sb.spc_bits

CLUSTER_INVALID(c) == c < EXFAT_FIRST_DATA_CLUSTER
                      \/ c - EXFAT_FIRST_DATA_CLUSTER >= sb.cluster_count
c2s(c) == HeapStart + (c - EXFAT_FIRST_DATA_CLUSTER) * CLUSTER_SIZE
s2c(s) == (s - HeapStart) \div CLUSTER_SIZE + EXFAT_FIRST_DATA_CLUSTER

NoFile == [start_cluster |-> 0, size |-> 0, is_contiguous |-> FALSE, fat |-> <<>>]

\* The bitmap matters to "u", "n" and "p", the file to "f", "r" and "n".
Init ==
  /\ sb \in [cluster_count : Counts, spc_bits : SpcBits]
  /\ \/ /\ pc \in {"u", "p"} /\ node = NoFile
        /\ used \in SUBSET Clusters(sb.cluster_count)
     \/ /\ pc \in {"f", "r"} /\ used = {} /\ node \in Fats[sb.cluster_count]
        \* memset(ef->root, 0, sizeof(struct exfat_node))
        /\ pc = "r" => node.size = 0 /\ ~node.is_contiguous
     \/ /\ pc = "n" /\ node \in Fats[sb.cluster_count]
        /\ used \in {Clusters(sb.cluster_count), Clusters(sb.cluster_count) \ {3}}
  /\ a = 0 /\ b = 0 /\ out = <<>> /\ rc = 0 /\ fragment_size = 0
  /\ cluster = node.start_cluster /\ fragment_start_cluster = node.start_cluster
  /\ remainder = node.size
  /\ clusters = IF pc = "n" THEN (node.size + CLUSTER_SIZE - 1) \div CLUSTER_SIZE ELSE 0

-----------------------------------------------------------------------------
(* Used sectors.                                                           *)

\* mutant: the cluster after the last range is skipped
find_used_clustersSkip(cb) ==
  LET end == sb.cluster_count
      first == Least({c \in cb + 2 .. cb + end + 2 : c >= end \/ c \in used})
      last == Least({c \in first .. first + end : c >= end \/ c \notin used})
  IN IF first >= end THEN <<>>
     ELSE <<first, IF last >= end THEN last ELSE last - 1>>

\* mutant: every cluster is a range
find_used_clustersSingle(cb) ==
  LET end == sb.cluster_count
      first == Least({c \in cb + 1 .. cb + end + 1 : c >= end \/ c \in used})
  IN IF first >= end THEN <<>> ELSE <<first, first>>

\* The next range of clusters after cb, or nothing.  A range that reaches the
\* end is left at the end itself.
find_used_clusters(cb) ==
  LET end == sb.cluster_count
      first == Least({c \in cb + 1 .. cb + end + 1 : c >= end \/ c \in used})
      last == Least({c \in first .. first + end : c >= end \/ c \notin used})
  IN IF first >= end THEN <<>>
     ELSE <<first, IF last >= end THEN last ELSE last - 1>>

LastSector(cb) == c2s(cb) + CLUSTER_SIZE - 1

Ranges == find_used_clusters(IF a = 0 /\ b = 0 THEN EXFAT_FIRST_DATA_CLUSTER - 1
                             ELSE s2c(b))

\* The first range keeps a = 0.
exfat_find_used_sectors ==
  /\ pc = "u" /\ Ranges # <<>>
  /\ a' = (IF a = 0 /\ b = 0 THEN 0 ELSE c2s(Ranges[1]))
  /\ b' = LastSector(Ranges[2])
  /\ out' = Append(out, <<a', b'>>)
  /\ UNCHANGED <<sb, used, node, cluster, fragment_start_cluster, remainder,
                 fragment_size, clusters, rc, pc>>

dump_sectors ==
  /\ pc = "u" /\ Ranges = <<>> /\ pc' = "u_done"
  /\ UNCHANGED <<sb, used, node, a, b, cluster, fragment_start_cluster, remainder,
                 fragment_size, clusters, out, rc>>

-----------------------------------------------------------------------------
(* Fragments of a file.                                                    *)

\* A FAT entry that cannot be read is EXFAT_CLUSTER_BAD in fat.
exfat_next_cluster(c) == IF node.is_contiguous THEN c + 1 ELSE node.fat[c]

\* mutant: a fragment ends only where the chain jumps
FragmentEndsJump(next, left) == next # cluster + 1

FragmentEnds(next, left) == next # cluster + 1 \/ left = 0

dump_fragment ==
  LET lsize == IF CLUSTER_SIZE < remainder THEN CLUSTER_SIZE ELSE remainder
      next == exfat_next_cluster(cluster)
      ends == FragmentEnds(next, remainder - lsize)
  IN
  /\ pc = "f" /\ remainder > 0 /\ ~CLUSTER_INVALID(cluster)
  /\ remainder' = remainder - lsize
  /\ IF ends THEN /\ out' = Append(out, <<c2s(fragment_start_cluster), fragment_size + lsize>>)
                  /\ fragment_start_cluster' = next /\ fragment_size' = 0
     ELSE fragment_size' = fragment_size + lsize
          /\ UNCHANGED <<out, fragment_start_cluster>>
  /\ cluster' = next
  /\ UNCHANGED <<sb, used, node, a, b, clusters, rc, pc>>

\* mutant: the loop is not left
dump_invalidContinues ==
  /\ pc = "f" /\ remainder > 0 /\ CLUSTER_INVALID(cluster) /\ rc' = 1
  /\ UNCHANGED <<sb, used, node, a, b, cluster, fragment_start_cluster, remainder,
                 fragment_size, clusters, out, pc>>

dump_invalid ==
  /\ pc = "f" /\ remainder > 0 /\ CLUSTER_INVALID(cluster)
  /\ rc' = 1 /\ pc' = "f_done"
  /\ UNCHANGED <<sb, used, node, a, b, cluster, fragment_start_cluster, remainder,
                 fragment_size, clusters, out>>

dump_file_fragments ==
  /\ pc = "f" /\ remainder = 0 /\ pc' = "f_done"
  /\ UNCHANGED <<sb, used, node, a, b, cluster, fragment_start_cluster, remainder,
                 fragment_size, clusters, out, rc>>

-----------------------------------------------------------------------------
(* The size of the root directory and the clusters of a file.              *)

others == <<sb, used, node, a, b, fragment_start_cluster, remainder, fragment_size, out>>

\* mutant: the bound is off by one
rootdir_sizeEarly ==
  /\ pc = "r" /\ UNCHANGED others
  /\ IF clusters + 1 = sb.cluster_count \/ CLUSTER_INVALID(cluster)
     THEN rc' = 1 /\ pc' = "r_done" /\ UNCHANGED <<cluster, clusters>>
     ELSE /\ cluster' = exfat_next_cluster(cluster)
          /\ clusters' = clusters + 1 /\ UNCHANGED rc
          /\ pc' = IF cluster' = EXFAT_CLUSTER_END THEN "r_done" ELSE "r"

\* One iteration; rc = 1 stands for the size 0 that exfat_mount() refuses.
rootdir_size ==
  /\ pc = "r" /\ UNCHANGED others
  /\ IF clusters = sb.cluster_count \/ CLUSTER_INVALID(cluster)
     THEN rc' = 1 /\ pc' = "r_done" /\ UNCHANGED <<cluster, clusters>>
     ELSE /\ cluster' = exfat_next_cluster(cluster)
          /\ clusters' = clusters + 1 /\ UNCHANGED rc
          /\ pc' = IF cluster' = EXFAT_CLUSTER_END THEN "r_done" ELSE "r"

\* mutant: the first cluster is not looked up in the bitmap
nodeckLate ==
  /\ pc = "n" /\ UNCHANGED others
  /\ IF clusters = 0 THEN pc' = "n_done" /\ UNCHANGED <<cluster, clusters, rc>>
     ELSE IF CLUSTER_INVALID(cluster)
     THEN rc' = 1 /\ pc' = "n_done" /\ clusters' = clusters - 1 /\ UNCHANGED cluster
     ELSE /\ rc' = (IF cluster \in used \/ cluster = node.start_cluster THEN rc ELSE 1)
          /\ cluster' = exfat_next_cluster(cluster)
          /\ clusters' = clusters - 1 /\ UNCHANGED pc

nodeck ==
  /\ pc = "n" /\ UNCHANGED others
  /\ IF clusters = 0 THEN pc' = "n_done" /\ UNCHANGED <<cluster, clusters, rc>>
     ELSE IF CLUSTER_INVALID(cluster)
     THEN rc' = 1 /\ pc' = "n_done" /\ clusters' = clusters - 1 /\ UNCHANGED cluster
     ELSE /\ rc' = (IF cluster \in used THEN rc ELSE 1)
          /\ cluster' = exfat_next_cluster(cluster)
          /\ clusters' = clusters - 1 /\ UNCHANGED pc

-----------------------------------------------------------------------------
(* The share of allocated clusters.                                        *)

exfat_count_free_clusters == Cardinality(Clusters(sb.cluster_count) \ used)

\* mutant: the fraction is cut off
PercentDown(free, total) == ((((total - free) * 100) % Word) \div total) % 256

\* unsigned arithmetic, stored in a uint8_t
Percent(free, total) ==
  ((((((total - free) * 100) % Word) + (total \div 2)) % Word) \div total) % 256

\* for a volume whose percentage is not the 0xff that is left alone
allocated_percent ==
  /\ pc = "p" /\ pc' = "p_done"
  /\ out' = <<Percent(exfat_count_free_clusters, sb.cluster_count)>>
  /\ UNCHANGED <<sb, used, node, a, b, cluster, fragment_start_cluster, remainder,
                 fragment_size, clusters, rc>>

Next == \/ exfat_find_used_sectors \/ dump_sectors
        \/ dump_fragment \/ dump_invalid \/ dump_file_fragments
        \/ rootdir_size \/ nodeck \/ allocated_percent

Spec == Init /\ [][Next]_vars

-----------------------------------------------------------------------------
(* Properties.                                                             *)

SectorsOf(c) == c2s(c) .. c2s(c) + CLUSTER_SIZE - 1
Printed == UNION {out[i][1] .. out[i][2] : i \in DOMAIN out}

\* The ranges are ascending and no two of them touch: what option -u prints
\* is the shortest list of ranges.
RangesApart ==
  pc \in {"u", "u_done"} =>
    \A i \in 1 .. Len(out) : /\ out[i][1] <= out[i][2]
                             /\ i > 1 => out[i - 1][2] + 1 < out[i][1]

\* Every used sector is in a range, and every sector of a range after the first
\* used cluster is used.
RangesExact ==
  pc = "u_done" =>
    /\ \A c \in used : SectorsOf(c) \subseteq Printed
    /\ \A c \in Clusters(sb.cluster_count) \ used :
         (\E u \in used : u < c) => SectorsOf(c) \cap Printed = {}

\* The same for the clusters the loop of find_used_clusters() looks at.
RangesExactBelow ==
  pc = "u_done" =>
    \A c \in Clusters(sb.cluster_count) : c < sb.cluster_count =>
      IF c \in used THEN SectorsOf(c) \subseteq Printed
      ELSE (\E u \in used : u < c) => SectorsOf(c) \cap Printed = {}

\* The i-th cluster of the file, by its chain alone.
Chain == LET at[i \in 0 .. node.size] ==
               IF i = 0 THEN node.start_cluster
               ELSE IF CLUSTER_INVALID(at[i - 1]) THEN EXFAT_CLUSTER_BAD
               ELSE exfat_next_cluster(at[i - 1])
         IN at
ByteAt(i) == c2s(Chain[i \div CLUSTER_SIZE]) + (i % CLUSTER_SIZE)
SizeTo(n) == LET sum[i \in 0 .. n] == IF i = 0 THEN 0 ELSE sum[i - 1] + out[i][2]
             IN sum[n]

\* The fragments that option -f prints are the bytes of the file in their
\* order, all of them when the exit code is zero; otherwise the chain is broken.
FragmentsExact ==
  pc = "f_done" =>
    /\ \A f \in DOMAIN out : \A i \in 0 .. out[f][2] - 1 :
         out[f][1] + i = ByteAt(SizeTo(f - 1) + i)
    /\ IF rc = 0 THEN SizeTo(Len(out)) = node.size
       ELSE \E i \in 0 .. (node.size - 1) \div CLUSTER_SIZE : CLUSTER_INVALID(Chain[i])

\* The root directory is accepted exactly if its chain ends, and its size is
\* the length of the chain: a cycle is told from a chain that takes up the
\* whole volume.
RootSizeExact ==
  pc = "r_done" =>
    LET at[i \in 0 .. sb.cluster_count] ==
          IF i = 0 THEN node.start_cluster
          ELSE IF CLUSTER_INVALID(at[i - 1]) THEN EXFAT_CLUSTER_BAD
          ELSE exfat_next_cluster(at[i - 1])
        ends == {i \in 1 .. sb.cluster_count : at[i] = EXFAT_CLUSTER_END}
    IN IF rc = 0 THEN ends = {clusters}
                      /\ Cardinality({at[i] : i \in 0 .. clusters - 1}) = clusters
       ELSE ends = {}

\* exfatfsck reports a file exactly if one of the clusters its size needs is
\* invalid or marked free.
NodeckExact ==
  pc = "n_done" =>
    (rc = 1 <=> \E i \in 0 .. node.size - 1 :
                  LET c == Chain[i \div CLUSTER_SIZE] IN CLUSTER_INVALID(c) \/ c \notin used)

\* What exfat_unmount() stores is the percentage of clusters in use, rounded.
PercentRight ==
  pc = "p_done" =>
    LET total == sb.cluster_count
    IN /\ 2 * (out[1] * total - 100 * Cardinality(used)) <= total
       /\ 2 * (100 * Cardinality(used) - out[1] * total) <= total

\* Every walk ends, also along a chain with a cycle.
Ended == pc \in {"u_done", "f_done", "r_done", "n_done", "p_done"}
=============================================================================
