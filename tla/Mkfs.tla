-------------------------------- MODULE Mkfs --------------------------------
(***************************************************************************)
(* mkexfatfs (mkfs/): the objects of a volume are laid out one after       *)
(* another, erased, and written.  The layout is computed in bytes from the *)
(* parameters; of what is on the device only matters whether each object   *)
(* is the old one, zero, new or torn.                                      *)
(***************************************************************************)
EXTENDS Integers, Sequences, FiniteSets, SequencesExt

CONSTANTS
  Params,      \* [sector_bits, spc, size]: what mkexfatfs is called with
  SmallSize,   \* the volume size with clusters of 32 KB: 256 MB
  LargeSize,   \* the volume size with clusters of 128 KB or more: 32 GB
  LastCluster, \* EXFAT_LAST_DATA_CLUSTER
  Faults       \* whether transfers fail and power is lost

VARIABLES
  param,  \* static struct param
  pc, at, \* the function of mkfs() and the object it is at
  dev     \* what is in the place of each object

vars == <<param, pc, at, dev>>

FirstCluster == 2
DivUp(x, d) == (x + d - 1) \div d
RoundUp(x, d) == DivUp(x, d) * d
\* C division truncates towards zero
Quotient(x, d) == IF x < 0 THEN -((-x) \div d) ELSE x \div d

-----------------------------------------------------------------------------
(* Parameters.                                                             *)

\* The code tries cluster sizes without a bound; 2^24 is enough here.
MaxBits == 24

\* mutant: one cluster too many
setup_spc_bitsDown(bits, user, size) ==
  IF user # -1
  THEN IF size \div 2^(bits + user) > LastCluster THEN -1 ELSE user
  ELSE LET pick(i) == IF i < bits THEN 0 ELSE i - bits
           larger == {i \in 17 .. MaxBits : DivUp(size, 2^i) <= LastCluster + 1}
       IN IF size < SmallSize THEN pick(12)
          ELSE IF size < LargeSize THEN pick(15)
          ELSE pick(CHOOSE i \in larger : \A j \in larger : i <= j)

setup_spc_bits(bits, user, size) ==
  IF user # -1
  THEN IF size \div 2^(bits + user) > LastCluster THEN -1 ELSE user
  ELSE LET pick(i) == IF i < bits THEN 0 ELSE i - bits
           larger == {i \in 17 .. MaxBits : DivUp(size, 2^i) <= LastCluster}
       IN IF size < SmallSize THEN pick(12)
          ELSE IF size < LargeSize THEN pick(15)
          ELSE pick(CHOOSE i \in larger : \A j \in larger : i <= j)

get_sector_size == 2^param.sector_bits
get_cluster_size == get_sector_size * 2^param.spc
clusters_max == param.size \div get_cluster_size

-----------------------------------------------------------------------------
(* Objects, their sizes and places.                                        *)

objects == <<"vbr", "backup", "fat", "cbm", "uct", "rootdir">>

uct_size == 5836
rootdir_size == get_cluster_size
fat_alignment == 128 * get_sector_size
cbm_size(position) ==
  Quotient(Quotient(param.size - position, get_cluster_size) + 7, 8)

Alignment(o) ==
  CASE o \in {"vbr", "backup"} -> get_sector_size
    [] o = "fat" -> fat_alignment
    [] OTHER -> get_cluster_size

SizeAt(o, position) ==
  CASE o \in {"vbr", "backup"} -> 12 * get_sector_size
    [] o = "fat" -> clusters_max * 4
    [] o = "cbm" -> cbm_size(position)
    [] o = "uct" -> uct_size
    [] o = "rootdir" -> rootdir_size

\* where the first i objects end
EndOf ==
  LET end[i \in 0 .. Len(objects)] ==
        IF i = 0 THEN 0
        ELSE LET position == RoundUp(end[i - 1], Alignment(objects[i]))
             IN position + SizeAt(objects[i], position)
  IN end

IndexOf(o) == CHOOSE i \in DOMAIN objects : objects[i] = o
get_position(o) == RoundUp(EndOf[IndexOf(o) - 1], Alignment(o))
SizeOf(o) == SizeAt(o, get_position(o))

\* mutant: the alignment of the last object is forgotten
check_sizeLoose == EndOf[Len(objects) - 1] <= param.size

check_size == EndOf[Len(objects)] <= param.size

-----------------------------------------------------------------------------
(* What is written.                                                        *)

\* mutant: the heap is said to begin with the first object after the FAT
\* that is not the bitmap
init_sbShifted ==
  LET spc == 2^param.spc
      start == fat_alignment \div get_sector_size
      sectors == DivUp(clusters_max * 4, get_sector_size)
      count == RoundUp(start + sectors, spc) - start
  IN [fat_sector_start |-> start, fat_sector_count |-> count,
      cluster_sector_start |-> get_position("cbm") \div get_sector_size,
      cluster_count |-> clusters_max - (start + count) \div spc,
      rootdir_cluster |-> (get_position("rootdir") - get_position("uct"))
                            \div get_cluster_size + FirstCluster]

init_sb ==
  LET spc == 2^param.spc
      start == fat_alignment \div get_sector_size
      sectors == DivUp(clusters_max * 4, get_sector_size)
      count == RoundUp(start + sectors, spc) - start
  IN [fat_sector_start |-> start, fat_sector_count |-> count,
      cluster_sector_start |-> get_position("cbm") \div get_sector_size,
      cluster_count |-> clusters_max - (start + count) \div spc,
      rootdir_cluster |-> (get_position("rootdir") - get_position("cbm"))
                            \div get_cluster_size + FirstCluster]

End == -1
ClustersOf(o) == DivUp(SizeOf(o), get_cluster_size)

\* The entries of a chain that begins at cluster c
fat_write_entries(c, length) ==
  LET n == DivUp(length, get_cluster_size)
  IN [i \in 1 .. n |-> IF i = n THEN End ELSE c + i]

\* The FAT from entry 0 on: the media type, a constant and three chains
fat_write ==
  LET chain(fat, o) == fat \o fat_write_entries(Len(fat), SizeOf(o))
  IN FoldLeft(chain, <<End, End>>, <<"cbm", "uct", "rootdir">>)

\* The clusters marked in the bitmap
cbm_write == FirstCluster ..
  FirstCluster + ClustersOf("cbm") + ClustersOf("uct") + ClustersOf("rootdir") - 1

\* The entries of the root directory
rootdir_write ==
  [bitmap |-> [start |-> FirstCluster, size |-> SizeOf("cbm")],
   upcase |-> [start |-> (get_position("uct") - get_position("cbm"))
                           \div get_cluster_size + FirstCluster,
               size |-> uct_size]]

\* The bytes an object's write() puts on the device
Written(o) ==
  LET bytes == CASE o = "fat" -> 4 * Len(fat_write)
                 [] o = "cbm" -> RoundUp(Cardinality(cbm_write), 8) \div 8
                 [] o = "rootdir" -> 3 * 32
                 [] OTHER -> SizeOf(o)
  IN [from |-> get_position(o), to |-> get_position(o) + bytes]

-----------------------------------------------------------------------------
(* The program.                                                            *)

Init ==
  /\ param \in Params
  /\ pc = "setup" /\ at = 1
  /\ dev = [o \in Range(objects) |-> "old"]

setup ==
  LET spc == setup_spc_bits(param.sector_bits, param.spc, param.size)
  IN /\ pc = "setup" /\ UNCHANGED <<at, dev>>
     /\ \/ /\ spc = -1 /\ pc' = "failed" /\ UNCHANGED param
        \* the label cannot be converted, or there is no time of day
        \/ /\ spc # -1 /\ pc' = "failed" /\ param' = [param EXCEPT !.spc = spc]
        \/ /\ spc # -1 /\ pc' = "check" /\ param' = [param EXCEPT !.spc = spc]

Check ==
  /\ pc = "check" /\ UNCHANGED <<param, at, dev>>
  /\ pc' = IF check_size THEN "erase" ELSE "failed"

\* mutant: create() goes on where erase() ended
PutOn(content) ==
  LET o == objects[at]
  IN /\ UNCHANGED param
     /\ dev' = [dev EXCEPT ![o] = content] /\ at' = at + 1
     /\ pc' = IF at < Len(objects) THEN pc
              ELSE IF pc = "erase" THEN "create" ELSE "fsync"

\* One object of erase() or create(): it becomes content, or the transfer
\* fails and it is torn.
Put(content) ==
  LET o == objects[at]
  IN /\ UNCHANGED param
     /\ \/ /\ dev' = [dev EXCEPT ![o] = content]
           /\ at' = IF at = Len(objects) THEN 1 ELSE at + 1
           /\ pc' = IF at < Len(objects) THEN pc
                    ELSE IF pc = "erase" THEN "create" ELSE "fsync"
        \/ /\ Faults /\ dev' = [dev EXCEPT ![o] = "torn"]
           /\ pc' = "failed" /\ UNCHANGED at

\* mutant: only the backup is erased
eraseLess == pc = "erase" /\ Put(IF at = 2 THEN "zero" ELSE dev[objects[at]])

erase == pc = "erase" /\ Put("zero")

create == pc = "create" /\ Put("new")

\* Power may also be lost: then nothing more is written.
exfat_fsync ==
  /\ pc = "fsync" /\ UNCHANGED <<param, at, dev>>
  /\ \/ pc' = "done"
     \/ Faults /\ pc' = "failed"

Next == setup \/ Check \/ erase \/ create \/ exfat_fsync

Spec == Init /\ [][Next]_vars

-----------------------------------------------------------------------------
(* Properties.                                                             *)

\* The variables have the types of what they model.
TypeOK ==
  /\ pc \in {"setup", "check", "erase", "create", "fsync", "done", "failed"}
  /\ at \in DOMAIN objects /\ (pc = "erase" => param.spc >= 0)
  /\ \A o \in Range(objects) : dev[o] \in {"old", "zero", "new", "torn"}

Laid == pc \notin {"setup", "check", "failed"}

\* Nothing is written outside the device, on another object, or outside the
\* part of the device that was erased for the object.
WritesApart ==
  Laid => \A o \in Range(objects) :
    /\ Written(o).from >= 0 /\ Written(o).to <= param.size
    /\ Written(o).to <= Written(o).from + SizeOf(o)
    /\ \A x \in Range(objects) :
         o = x \/ Written(o).to <= Written(x).from
               \/ Written(x).to <= Written(o).from

Offset(sb, cluster) ==
  sb.cluster_sector_start * get_sector_size
  + (cluster - FirstCluster) * get_cluster_size
Valid(sb, cluster) ==
  cluster >= FirstCluster /\ cluster - FirstCluster < sb.cluster_count

\* exfat_mount() finds every object where the boot record, the FAT and the
\* root directory say it is: the chains end where the objects do, the bitmap
\* marks those clusters, has a bit for every cluster of the volume, and all
\* clusters lie on the device after the FAT.
MountAgrees ==
  Laid =>
    LET sb == init_sb
        fat == fat_write
        dir == rootdir_write
        chained(first, o) ==
          LET last == first + ClustersOf(o) - 1
          IN /\ Valid(sb, first) /\ Valid(sb, last)
             /\ Offset(sb, first) = get_position(o)
             /\ \A c \in first .. last :
                  fat[c + 1] = (IF c = last THEN End ELSE c + 1) /\ c \in cbm_write
    IN /\ chained(dir.bitmap.start, "cbm") /\ chained(dir.upcase.start, "uct")
       /\ chained(sb.rootdir_cluster, "rootdir")
       /\ dir.bitmap.size >= DivUp(sb.cluster_count, 8)
       /\ sb.fat_sector_start * get_sector_size = get_position("fat")
       /\ sb.fat_sector_start + sb.fat_sector_count <= sb.cluster_sector_start
       /\ Offset(sb, FirstCluster + sb.cluster_count) <= param.size

\* mkexfatfs that fails or is interrupted leaves the old volume, a new one, or
\* one that does not mount: exfat_mount() wants the first boot record and the
\* tables in the root directory.
NoHybrid ==
  LET whole(o) == dev[o] \in {"old", "new"}
  IN whole("vbr") /\ whole("rootdir") =>
       \A o, x \in Range(objects) : dev[o] = dev[x]

\* A volume has no more clusters than can be numbered.
Numbered == Laid => clusters_max <= LastCluster
=============================================================================
