----------------------------- MODULE Reconstruct -----------------------------
(***************************************************************************)
(* The file allocation table that the recovery library builds for a        *)
(* damaged volume (reconstruct() of recovery.c, and the constructor of     *)
(* ExFATFilesystem in fsrestore.cpp): the chain of the allocation bitmap   *)
(* and the cluster of the upper case table.  The numbers of the one volume *)
(* the code is written for are parameters.                                 *)
(***************************************************************************)
EXTENDS Integers, FiniteSets

CONSTANT Layouts   \* values of CLUSTER_COUNT, cluster_size_bytes and the table's length

VARIABLES
  layout,
  entries,   \* of the file allocation table
  c, i,      \* of the loop in init_cluster_heap
  filled,    \* entries of the upper case table that are written
  upcase,    \* start_cluster of the upper case table, 0 before it is chosen
  pc

vars == <<layout, entries, c, i, filled, upcase, pc>>

FREE == 0
END == -1
Media == -8
Indices == 0 .. layout.count - 1
FAT_CLUSTER_COUNT == layout.count - 2

Init == /\ layout \in Layouts
        /\ entries = [x \in Indices |-> FREE] /\ c = 2 /\ i = 1 /\ filled = 0 /\ upcase = 0
        /\ pc = "init_fat"

\* mutant: the clusters of the upper case table and the root directory stay free
init_fatShort ==
  /\ pc = "init_fat" /\ pc' = "init_cluster_heap"
  /\ entries' = [x \in Indices |-> IF x = 0 THEN Media ELSE IF x < 3 THEN END ELSE FREE]
  /\ UNCHANGED <<layout, c, i, filled, upcase>>

init_fat ==
  /\ pc = "init_fat" /\ pc' = "init_cluster_heap"
  /\ entries' = [x \in Indices |-> IF x = 0 THEN Media ELSE IF x < 5 THEN END ELSE FREE]
  /\ UNCHANGED <<layout, c, i, filled, upcase>>

\* The first free entry.  The loop goes on to the size of the table in bytes:
\* behind the last entry it finds a zero somewhere, or none.
find_next_free_cluster ==
  LET free == {x \in Indices : entries[x] = FREE}
  IN IF free # {} THEN {CHOOSE x \in free : \A y \in free : x <= y}
     ELSE {END} \cup layout.count .. 4 * layout.count - 1

bmp_size == FAT_CLUSTER_COUNT \div 8 + (FAT_CLUSTER_COUNT % 8)

\* mutant: the bytes of the last cluster are not counted
bmp_size_clustersDown == bmp_size \div layout.cluster_size

bmp_size_clusters == bmp_size \div layout.cluster_size + (bmp_size % layout.cluster_size)

\* An entry outside the table is written.
Undefined == pc' = "undefined" /\ UNCHANGED <<layout, entries, c, i, filled, upcase>>

init_cluster_heap ==
  /\ pc = "init_cluster_heap"
  /\ \/ /\ i < bmp_size_clusters
        /\ \E next \in find_next_free_cluster :
             \/ next = END /\ pc' = "failed" /\ UNCHANGED <<layout, entries, c, i, filled, upcase>>
             \/ /\ next # END /\ c \in Indices
                /\ entries' = [entries EXCEPT ![c] = next] /\ c' = next /\ i' = i + 1
                /\ UNCHANGED <<layout, filled, upcase, pc>>
             \/ next # END /\ c \notin Indices /\ Undefined
     \/ /\ i >= bmp_size_clusters /\ c \in Indices
        /\ entries' = [entries EXCEPT ![c] = END] /\ pc' = "init_upcase_table"
        /\ UNCHANGED <<layout, c, i, filled, upcase>>
     \/ i >= bmp_size_clusters /\ c \notin Indices /\ Undefined

\* The identity is written to as many entries as the table has bytes, two for
\* each entry; what is overwritten behind the table may matter or not.
init_upcase_table ==
  /\ pc = "init_upcase_table"
  /\ \/ filled < 2 * layout.table /\ filled' = filled + 1
        /\ UNCHANGED <<layout, entries, c, i, upcase, pc>>
     \/ filled > layout.table /\ Undefined
     \/ /\ filled = 2 * layout.table
        /\ \E next \in find_next_free_cluster :
             \/ next = END /\ pc' = "done" /\ UNCHANGED <<entries, upcase>>
             \/ next \in Indices /\ pc' = "done" /\ upcase' = next
                /\ entries' = [entries EXCEPT ![next] = END]
             \/ next \notin Indices \cup {END} /\ pc' = "undefined"
                /\ UNCHANGED <<entries, upcase>>
        /\ UNCHANGED <<layout, c, i, filled>>

Next == init_fat \/ init_cluster_heap \/ init_upcase_table

Spec == Init /\ [][Next]_vars

-----------------------------------------------------------------------------
(* Properties.                                                             *)

\* the clusters from x to the end of its chain
ChainFrom(x) ==
  LET step[k \in 0 .. layout.count] ==
        IF k = 0 THEN {x}
        ELSE LET before == step[k - 1]
             IN before \cup ({entries[y] : y \in before \cap Indices} \ {END})
  IN step[layout.count]
Reserved == 0 .. 4

\* The rebuilt table: the chain of the bitmap ends, keeps away from the upper
\* case table and the root directory, and every cluster in use is its own,
\* reserved, or the one of the upper case table.
TableWellFormed ==
  pc \in {"init_upcase_table", "done"} =>
    LET chain == ChainFrom(2) IN
    /\ chain \subseteq Indices
    /\ Cardinality({x \in chain : entries[x] = END}) = 1
    /\ \A x, y \in chain : x # y => entries[x] # entries[y]
    /\ chain \cap Reserved = {2}
    /\ {x \in Indices : entries[x] # FREE} = chain \cup Reserved \cup ({upcase} \ {0})
    /\ upcase \notin chain

\* The chain of the bitmap has room for it, on a volume whose bitmap ends in a
\* cluster with more bytes than the bitmap has clusters, as the one the
\* constants describe.
BitmapFits ==
  pc = "done" /\ bmp_size % layout.cluster_size >= bmp_size \div layout.cluster_size =>
    Cardinality(ChainFrom(2)) * layout.cluster_size >= bmp_size
=============================================================================
