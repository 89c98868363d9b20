------------------------------ MODULE NodeTree ------------------------------
(***************************************************************************)
(* The nodes, directories and path lookup of libexfat (node.c, lookup.c).  *)
(*                                                                         *)
(* A function of the library is an operator from a state to the set of its *)
(* outcomes.  A state s holds what is in memory and what is on the device: *)
(*   s.node    the live struct exfat_node's, by pointer                    *)
(*   s.used    cmap.chunk, the set of clusters marked in memory            *)
(*   s.cdirty  cmap.dirty                                                  *)
(*   s.slot    the directory entries on the device, by cluster and index   *)
(*   s.bits    the cluster bitmap on the device                            *)
(*   s.fat     the FAT on the device                                       *)
(*   s.ro      ef->ro                                                      *)
(*   s.faults  how many more device transfers may fail                     *)
(*   s.failed  whether one has failed                                      *)
(*   s.crashes whether power may be lost                                   *)
(* and what has happened so far (history, no field of the program):        *)
(*   s.torn     a transfer failed inside exfat_truncate()                  *)
(*   s.cursor   exfat_advance_cluster() left a cursor at an invalid cluster*)
(*   s.backward grow_file() kept a file contiguous that went on before its *)
(*              last cluster (cluster.c:283)                               *)
(* An outcome has the state, the return code and the out-parameters.  The  *)
(* codes "crash" and "bug" end the program: power is lost before a write,  *)
(* or exfat_bug() aborts.                                                  *)
(*                                                                         *)
(* Sizes are counted in clusters and slots (struct exfat_entry), clusters  *)
(* from 1.  The cursor of a node is not part of the state: as long as it   *)
(* points into the chain it only saves reads of the FAT (FileClusters has  *)
(* it, and the bytes of the files); s.cursor tells when it does not.       *)
(***************************************************************************)
EXTENDS Integers, Sequences, FiniteSets, SequencesExt, TLC

CONSTANTS
  Names,       \* file names
  Upcase,      \* [Names -> names]: the name mapped through ef->upcase
  BadNames,    \* names with a character exFAT does not allow
  Width,       \* [Names -> Nat]: entries of a set, 2 + name entries
  Slots,       \* directory entries in a cluster
  MaxCluster,  \* clusters are 1 .. MaxCluster
  MaxNode,     \* nodes are 0 .. MaxNode
  NoAtime      \* ef->noatime

ASSUME TreeAssumption ==
  /\ Slots \in Nat \ {0} /\ MaxCluster \in Nat \ {0} /\ MaxNode \in Nat
  /\ \A n \in Names : Width[n] >= 3
  /\ NoAtime \in BOOLEAN

Root == 0
NULL == -1
Clusters == 1 .. MaxCluster
Places == Clusters \X (0 .. Slots - 1)

FREE == 0                  \* EXFAT_CLUSTER_FREE
End == MaxCluster + 1      \* EXFAT_CLUSTER_END, or any other invalid cluster

NoSet == [name |-> "", isdir |-> FALSE, start |-> FREE, size |-> 0,
          contig |-> FALSE, cont |-> 0]
Deleted == [type |-> "deleted", set |-> NoSet]
Special(type) == [type |-> type, set |-> NoSet]
Specials == {Special(t) : t \in {"label", "bitmap", "upcase"}}

\* The n entries of a file: meta1, meta2 and the name.
EntrySet(set, n) ==
  [i \in 1 .. n |->
     [type |-> IF i = 1 THEN "file" ELSE IF i = 2 THEN "info" ELSE "name",
      set |-> set]]

NodeOf(set, parent, off) ==
  [parent |-> parent, kids |-> <<>>, refs |-> 0, dirty |-> FALSE,
   unlinked |-> FALSE, cached |-> FALSE, off |-> off, cont |-> set.cont,
   name |-> set.name, isdir |-> set.isdir, start |-> set.start,
   size |-> set.size, contig |-> set.contig]

-----------------------------------------------------------------------------
(* Outcomes and how they are put in sequence.                              *)

Outcome(s, rc, v, d) == [s |-> s, rc |-> rc, v |-> v, d |-> d]
Ok(s) == Outcome(s, "ok", NULL, NULL)
Err(s, rc) == Outcome(s, rc, NULL, NULL)
Found(s, v) == Outcome(s, "ok", v, NULL)
exfat_bug(s) == {Err(s, "bug")}

Stopped(o) == o.rc \in {"crash", "bug"}
Bind(S, K(_)) == UNION {IF Stopped(o) THEN {o} ELSE K(o) : o \in S}
Then(S, K(_)) == UNION {IF o.rc = "ok" THEN K(o.s) ELSE {o} : o \in S}
WithCode(S, rc) == Bind(S, LAMBDA o : {Err(o.s, rc)})

Fails(s) ==
  IF s.faults = 0 THEN {}
  ELSE {Err([s EXCEPT !.faults = @ - 1, !.failed = TRUE], "EIO")}
DevRead(s) == {Ok(s)} \cup Fails(s)
DevWrite(s, t) ==
  {Ok(t)} \cup Fails(s) \cup (IF s.crashes THEN {Err(s, "crash")} ELSE {})

-----------------------------------------------------------------------------
(* References.                                                             *)

exfat_get_node(s, n) == [s EXCEPT !.node[n].refs = @ + 1]

exfat_put_node(S, n) ==
  Bind(S, LAMBDA o :
    IF o.s.node[n].refs = 0 THEN exfat_bug(o.s)
    ELSE {[o EXCEPT !.s.node[n].refs = @ - 1]})

Touched(s, n) == [s EXCEPT !.node[n].dirty = TRUE]

-----------------------------------------------------------------------------
(* Clusters: the chains, the bitmap and exfat_truncate().                  *)

\* The clusters that are found from x.start on, x.size of them unless the
\* chain breaks off earlier.
Chain(s, x) ==
  LET next(c) == IF x.contig THEN c + 1 ELSE s.fat[c]
      from[k \in 0 .. x.size, c \in FREE .. End] ==
        IF k = 0 \/ c \notin Clusters THEN <<>> ELSE <<c>> \o from[k - 1, next(c)]
  IN from[x.size, x.start]
Clus(s, n) == Chain(s, s.node[n])

\* The cluster after c; a FAT entry that cannot be read is an invalid cluster.
exfat_next_cluster(s, n, c) ==
  IF s.node[n].contig THEN {Found(s, c + 1)}
  ELSE {Found(s, s.fat[c])} \cup {Found(o.s, End) : o \in Fails(s)}

\* The cluster with index i.  In a file that has lost its start cluster the
\* walk starts from cluster 0, which exfat_next_cluster() does not accept.
exfat_advance_cluster(s, n, i) ==
  LET walk == Chain(s, [s.node[n] EXCEPT !.size = i + 1])
      invalid(t) == Err([t EXCEPT !.cursor = @ \/ i > 0], "EIO")
  IN IF s.node[n].start = FREE /\ i > 0 THEN exfat_bug(s)
     ELSE (IF Len(walk) > i THEN {Found(s, walk[i + 1])} ELSE {invalid(s)})
          \cup (IF i > 0 /\ ~s.node[n].contig
                THEN {invalid(o.s) : o \in Fails(s)} ELSE {})

set_next_cluster(s, contig, c, next) ==
  IF contig THEN {Ok(s)} ELSE DevWrite(s, [s EXCEPT !.fat[c] = next])

Free(s) == Clusters \ s.used

\* allocate_cluster(): the first free cluster from the hint on, or from the
\* start of the bitmap
NextFree(s, hint) ==
  LET from == IF hint \in Clusters THEN hint ELSE 1
      away(c) == (c - from) % MaxCluster
  IN CHOOSE c \in Free(s) : \A d \in Free(s) : away(c) <= away(d)
allocate_cluster(s, c) == [s EXCEPT !.used = @ \cup {c}, !.cdirty = TRUE]
free_cluster(s, c) == [s EXCEPT !.used = @ \ {c}, !.cdirty = TRUE]

\* K is applied to the cluster of every outcome that has one, count times.
Repeat(S, K(_, _), count) ==
  FoldLeft(LAMBDA T, i :
             Bind(T, LAMBDA o : IF o.rc # "ok" THEN {o} ELSE K(o, i)),
           S, [i \in 1 .. count |-> i])

make_noncontiguous(s, first, last) ==
  Repeat({Ok(s)}, LAMBDA o, i :
           set_next_cluster(o.s, FALSE, first + i - 1, first + i), last - first)

\* mutant: the last cluster that is kept is freed as well
cropLast(s, n, kept) ==
  Bind(exfat_advance_cluster(s, n, kept - 1), LAMBDA o :
    IF o.rc # "ok" THEN {o}
    ELSE Then(set_next_cluster(o.s, o.s.node[n].contig, o.v, End),
              LAMBDA t : {Found(t, o.v)}))

\* "crop the file": the chain ends after the clusters that are kept; the
\* first one that is not is returned.
crop(s, n, kept) ==
  Bind(exfat_advance_cluster(s, n, kept - 1), LAMBDA o :
    IF o.rc # "ok" THEN {o}
    ELSE Bind(exfat_next_cluster(o.s, n, o.v), LAMBDA p :
           Then(set_next_cluster(p.s, p.s.node[n].contig, o.v, End),
                LAMBDA t : {Found(t, p.v)})))

shrink_file(s, n, current, difference) ==
  LET start == s.node[n].start
      cut == IF current > difference THEN crop(s, n, current - difference)
             ELSE {Found([Touched(s, n) EXCEPT !.node[n].start = FREE], start)}
      free(o, i) ==
        IF o.v \notin Clusters THEN {Err(o.s, "EIO")}
        ELSE Bind(exfat_next_cluster(o.s, n, o.v), LAMBDA p :
               Then(set_next_cluster(p.s, p.s.node[n].contig, o.v, FREE),
                    LAMBDA t : {Found(free_cluster(t, o.v), p.v)}))
  IN IF start = FREE THEN exfat_bug(s)
     ELSE Then(Repeat(cut, free, difference), LAMBDA t : {Ok(t)})

\* grow_file() takes one more cluster; previous is the last one so far.
GrowByOne(s, n, previous) ==
  LET next == NextFree(s, previous + 1)
      contig == s.node[n].contig
      follows == next = previous - 1
      t == [allocate_cluster(s, next) EXCEPT !.backward = @ \/ (contig /\ follows)]
      broken == Then(make_noncontiguous(t, s.node[n].start, previous), LAMBDA u :
                  {Ok([Touched(u, n) EXCEPT !.node[n].contig = FALSE])})
  IN Then(IF contig /\ ~follows THEN broken ELSE {Ok(t)}, LAMBDA u :
       Then(set_next_cluster(u, u.node[n].contig, previous, next),
            LAMBDA v : {Found(v, next)}))

\* For a file of size 0 that has a start cluster "current - 1" is the largest
\* unsigned number: the walk goes on until the chain ends.
grow_file(s, n, current, difference) ==
  LET empty == s.node[n].start = FREE
      c == NextFree(s, FREE)
      last == IF current = 0 THEN MaxCluster ELSE current - 1
      allocated == IF empty THEN 1 ELSE 0
      first == IF ~empty THEN exfat_advance_cluster(s, n, last)
               ELSE IF Free(s) = {} THEN {Err(s, "ENOSPC")}
               ELSE {Found([allocate_cluster(s, c) EXCEPT
                              !.node[n].start = c, !.node[n].contig = TRUE], c)}
      more(o, i) ==
        LET got == allocated + i - 1
        IN IF Free(o.s) # {} THEN GrowByOne(o.s, n, o.v)
           ELSE IF got = 0 THEN {Err(o.s, "ENOSPC")}
           ELSE WithCode(shrink_file(o.s, n, current + got, got), "ENOSPC")
  IN Bind(Repeat(first, more, difference - allocated), LAMBDA o :
       IF o.rc # "ok" THEN {o}
       ELSE set_next_cluster(o.s, o.s.node[n].contig, o.v, End))

Zeroed(s, c) ==
  [s EXCEPT !.slot = [p \in Places |-> IF p[1] = c THEN Deleted ELSE @[p]]]
erase_raw(s, c) == Then(DevWrite(s, Zeroed(s, c)), LAMBDA t : {Found(t, c)})

erase_range(s, n, begin, end) ==
  IF begin >= end THEN {Ok(s)}
  ELSE Repeat(Bind(exfat_advance_cluster(s, n, begin), LAMBDA o :
                IF o.rc # "ok" THEN {o} ELSE erase_raw(o.s, o.v)),
              LAMBDA o, i :
                Bind(exfat_next_cluster(o.s, n, o.v), LAMBDA p :
                  IF p.v \notin Clusters THEN exfat_bug(p.s)
                  ELSE erase_raw(p.s, p.v)),
              end - begin - 1)

exfat_truncate(s, n, k, erase) ==
  LET c1 == s.node[n].size
      sized == IF c1 < k THEN grow_file(s, n, c1, k - c1)
               ELSE shrink_file(s, n, c1, c1 - k)
      done == Then(sized, LAMBDA t :
                Then(IF erase THEN erase_range(t, n, c1, k) ELSE {Ok(t)},
                     LAMBDA u : {Ok([Touched(u, n) EXCEPT !.node[n].size = k])}))
  IN IF s.node[n].refs = 0 /\ s.node[n].parent # NULL THEN exfat_bug(s)
     ELSE IF k = c1 THEN {Ok(s)}
     ELSE {[o EXCEPT !.s.torn = @ \/ (o.rc # "ok" /\ o.s.faults # s.faults)] :
             o \in done}

\* mutant: the bitmap is cleared before it is written
exfat_flushCleared(s) ==
  IF s.cdirty
  THEN Then(DevWrite(s, [s EXCEPT !.bits = {}]), LAMBDA t :
         DevWrite(t, [t EXCEPT !.bits = t.used, !.cdirty = FALSE]))
  ELSE {Ok(s)}

exfat_flush(s) ==
  IF s.cdirty THEN DevWrite(s, [s EXCEPT !.bits = s.used, !.cdirty = FALSE])
  ELSE {Ok(s)}

exfat_fsync(s) == DevRead(s)

exfat_cleanup_node(s, n) ==
  IF s.node[n].refs # 0 THEN exfat_bug(s)
  ELSE IF ~s.node[n].unlinked THEN {Ok(s)}
  ELSE Bind(exfat_truncate(s, n, 0, TRUE), LAMBDA o :
         {[o EXCEPT !.s.node = [m \in DOMAIN @ \ {n} |-> @[m]]]})

-----------------------------------------------------------------------------
(* Directory entries on the device.                                        *)

DirSize(s, d) == Slots * s.node[d].size
Place(chain, off) == <<chain[off \div Slots + 1], off % Slots>>
AtChain(s, chain, off) == s.slot[Place(chain, off)]
At(s, d, off) == AtChain(s, Clus(s, d), off)

\* The clusters from index i to j are found one after another.
Reached(s, n, i, j) ==
  Then(exfat_advance_cluster(s, n, i), LAMBDA t :
    (IF Len(Chain(t, [t.node[n] EXCEPT !.size = j + 1])) > j THEN {Ok(t)}
     ELSE {Err(t, "EIO")})
    \cup (IF j > i /\ ~t.node[n].contig THEN Fails(t) ELSE {}))

read_entries(s, d, n, off) ==
  IF ~s.node[d].isdir THEN exfat_bug(s)
  ELSE IF off >= DirSize(s, d) THEN {Err(s, "ENOENT")}
  ELSE IF off + n > DirSize(s, d) THEN {Err(s, "EIO")}
  ELSE Then(Reached(s, d, off \div Slots, (off + n - 1) \div Slots), DevRead)

Stored(s, chain, entries, off) ==
  LET where(i) == Place(chain, off + i - 1)
  IN [s EXCEPT !.slot = [p \in {where(i) : i \in DOMAIN entries} |->
                           entries[CHOOSE i \in DOMAIN entries : where(i) = p]] @@ @]

\* Each cluster is a transfer of its own, so a failure, or a chain that breaks
\* off, can leave a set torn.
write_entries(s, d, entries, off) ==
  Then(exfat_advance_cluster(s, d, off \div Slots), LAMBDA t :
    LET cuts == {i \in 0 .. Len(entries) - 1 : i = 0 \/ (off + i) % Slots = 0}
        room == Slots * Len(Clus(t, d)) - off
        upto(i) == Stored(t, Clus(t, d), SubSeq(entries, 1, i), off)
    IN (IF Len(entries) <= room THEN {Ok(upto(Len(entries)))}
        ELSE {Err(upto(room), "EIO")})
       \cup UNION {Fails(u) \cup (IF t.crashes THEN {Err(u, "crash")} ELSE {}) :
                     u \in {upto(i) : i \in {c \in cuts : c <= room}}})

\* The types only: the entries may belong to different sets.
check_entries(s, chain, n, off) ==
  \A i \in 1 .. n :
    AtChain(s, chain, off + i - 1).type = EntrySet(NoSet, n)[i].type

\* A set that parse_file_entries() accepts: entries of one set, so that the
\* checksum is right, inside the directory, with a start cluster if and only
\* if the file is not empty.
ValidSet(s, chain, off) ==
  LET e == AtChain(s, chain, off)
      n == e.set.cont + 1
  IN /\ e.type = "file" /\ off + n <= Slots * Len(chain)
     /\ (e.set.size = 0) = (e.set.start = FREE)
     /\ check_entries(s, chain, n, off)
     /\ \A i \in 1 .. n - 1 : AtChain(s, chain, off + i).set = e.set

\* readdir(): the offsets of the entry sets in the order they are found; -1
\* stands for one that is not valid, or for an entry of an unknown type.
Scan(s, chain) ==
  LET size == Slots * Len(chain)
      from[off \in 0 .. size] ==
        IF off = size THEN <<>>
        ELSE LET e == AtChain(s, chain, off)
             IN IF ValidSet(s, chain, off)
                THEN <<off>> \o from[off + e.set.cont + 1]
                ELSE IF e = Deleted \/ e \in Specials THEN from[off + 1]
                ELSE <<-1>>
  IN from[0]

\* The nodes ids are made for the entry sets at offs, as far as they are needed.
AddNodes(s, d, chain, offs, ids) ==
  LET kids == SubSeq(ids, 1, Len(offs))
      at(m) == offs[CHOOSE i \in DOMAIN kids : kids[i] = m]
      made == [m \in Range(kids) |-> NodeOf(AtChain(s, chain, at(m)).set, d, at(m))]
  IN IF -1 \in Range(offs) THEN {Err(s, "EIO")}
     ELSE IF Len(offs) > Len(ids) THEN {Err(s, "ENOMEM")}
     ELSE {Ok([s EXCEPT !.node = [@ EXCEPT ![d].kids = kids, ![d].cached = TRUE]
                                 @@ made])}

exfat_cache_directory(s, d) ==
  IF s.node[d].cached THEN {Ok(s)}
  ELSE IF ~s.node[d].isdir THEN exfat_bug(s)
  ELSE Then(IF s.node[d].size = 0 THEN {Ok(s)}
            ELSE Then(Reached(s, d, 0, s.node[d].size - 1), DevRead),
            LAMBDA t : AddNodes(t, d, Clus(t, d), Scan(t, Clus(t, d)),
                         SelectSeq([i \in 1 .. MaxNode |-> i],
                                   LAMBDA m : m \notin DOMAIN t.node)))

tree_attach(s, d, n) ==
  [s EXCEPT !.node[n].parent = d, !.node[d].kids = <<n>> \o @]

tree_detach(s, n) ==
  [s EXCEPT !.node[s.node[n].parent].kids = Remove(@, n),
            !.node[n].parent = NULL]

-----------------------------------------------------------------------------
(* Lookup.                                                                 *)

\* mutant: names are compared as they are
SameNameExact(a, b) == a = b

\* compare_name() = 0
SameName(a, b) == Upcase[a] = Upcase[b]

lookup_name(s, d, name) ==
  Then(exfat_cache_directory(s, d), LAMBDA t :
    LET hits == SelectSeq(t.node[d].kids,
                          LAMBDA m : SameName(name, t.node[m].name))
    IN IF hits = <<>> THEN {Err(t, "ENOENT")}
       ELSE {Found(exfat_get_node(t, hits[1]), hits[1])})

\* A path is the sequence of its components.
exfat_lookup(s, path) ==
  FoldLeft(LAMBDA S, comp :
             Bind(S, LAMBDA o :
               IF o.rc # "ok" THEN {o}
               ELSE exfat_put_node(lookup_name(o.s, o.v, comp), o.v)),
           {Found(exfat_get_node(s, Root), Root)}, path)

\* The parent is returned in d, the node itself or NULL in v.
exfat_split(s, path) ==
  IF path = <<>> THEN exfat_bug(s)
  ELSE Bind(exfat_lookup(s, Front(path)), LAMBDA p :
         IF p.rc # "ok" THEN {p}
         ELSE IF Last(path) \in BadNames
              THEN exfat_put_node({Err(p.s, "ENOENT")}, p.v)
         ELSE Bind(lookup_name(p.s, p.v, Last(path)), LAMBDA o :
                IF o.rc \in {"ok", "ENOENT"} THEN {Outcome(o.s, "ok", o.v, p.v)}
                ELSE exfat_put_node({o}, p.v)))

-----------------------------------------------------------------------------
(* Writing nodes back.                                                     *)

exfat_flush_node(s, n) ==
  LET node == s.node[n]
      d == node.parent
  IN IF ~node.dirty THEN {Ok(s)}
     ELSE IF s.ro THEN exfat_bug(s)
     ELSE IF d = NULL THEN {Ok(s)}
     ELSE Then(read_entries(s, d, 1 + node.cont, node.off), LAMBDA t :
            IF ~check_entries(t, Clus(t, d), 1 + node.cont, node.off)
            THEN {Err(t, "EIO")}
            ELSE LET set == [isdir |-> node.isdir, start |-> node.start,
                             size |-> node.size,
                             contig |-> node.contig /\ node.size # 0,
                             cont |-> At(t, d, node.off).set.cont,
                             name |-> At(t, d, node.off + 2).set.name]
                 IN Then(write_entries(t, d, EntrySet(set, 1 + node.cont), node.off),
                         LAMBDA u :
                           exfat_flush([u EXCEPT !.node[n].dirty = FALSE])))

\* mutant: only the root directory and what is in it
FlushOrderShallow(s) == Append(s.node[Root].kids, Root)

\* flush_nodes() visits the children before their parent.
FlushOrder(s) ==
  LET below[n \in DOMAIN s.node] ==
        FoldLeft(LAMBDA acc, m : acc \o below[m], <<>>, s.node[n].kids) \o <<n>>
  IN below[Root]

exfat_flush_nodes(s) ==
  FoldLeft(LAMBDA S, n : Then(S, LAMBDA t : exfat_flush_node(t, n)),
           {Ok(s)}, FlushOrder(s))

erase_entries(s, d, n, off) ==
  Then(read_entries(s, d, n, off), LAMBDA t :
    write_entries(t, d, [i \in 1 .. n |-> Deleted], off))

\* mutant: the parent's reference is kept on an error
erase_nodeKeepsReference(s, n) ==
  LET d == s.node[n].parent
  IN Then(erase_entries(exfat_get_node(s, d), d, 1 + s.node[n].cont,
                        s.node[n].off),
          LAMBDA t : exfat_put_node(exfat_flush_node(t, d), d))

erase_node(s, n) ==
  LET d == s.node[n].parent
  IN exfat_put_node(
       Then(erase_entries(exfat_get_node(s, d), d, 1 + s.node[n].cont,
                          s.node[n].off),
            LAMBDA t : exfat_flush_node(t, d)), d)

RoundUp(n) == (n + Slots - 1) \div Slots

shrink_directory(s, d, deleted) ==
  LET kids == Range(s.node[d].kids)
      last == IF kids = {} THEN 0
              ELSE LET m == CHOOSE m \in kids : \A k \in kids :
                                s.node[k].off <= s.node[m].off
                   IN s.node[m].off + Width[s.node[m].name]
  IN IF \E m \in kids : deleted < s.node[m].off THEN {Ok(s)}
     ELSE exfat_truncate(s, d, IF last = 0 THEN 1 ELSE RoundUp(last), TRUE)

delete(s, n) ==
  LET d == s.node[n].parent
      off == s.node[n].off
      unlinked(t) == [t EXCEPT !.node[n].unlinked = TRUE]
  IN exfat_put_node(
       Then(erase_node(exfat_get_node(s, d), n), LAMBDA t :
         Bind(shrink_directory(tree_detach(t, n), d, off), LAMBDA o :
           LET u == unlinked(o.s)
           IN Bind(exfat_flush_node(IF o.rc = "ok" THEN Touched(u, d) ELSE u, d),
                   LAMBDA f : IF o.rc = "ok" THEN {f} ELSE {Err(f.s, o.rc)}))), d)

exfat_unlink(s, n) == IF s.node[n].isdir THEN {Err(s, "EISDIR")} ELSE delete(s, n)

exfat_rmdir(s, n) ==
  IF ~s.node[n].isdir THEN {Err(s, "ENOTDIR")}
  ELSE Then(exfat_cache_directory(s, n), LAMBDA t :
         IF t.node[n].kids # <<>> THEN {Err(t, "ENOTEMPTY")} ELSE delete(t, n))

-----------------------------------------------------------------------------
(* Creating entries.                                                       *)

\* mutant: entries without nodes are not looked for
SlotFreeAlways(s, d, n, off) == TRUE

\* check_slot() = 0
SlotFree(s, d, n, off) ==
  d = Root => \A i \in 0 .. n - 1 : At(s, d, off + i) = Deleted

\* mutant: the last entry of a set is forgotten
SlotsOfShort(s, n) == s.node[n].off .. s.node[n].off + s.node[n].cont - 1

\* The bits dmap has for a node.
SlotsOf(s, n) == s.node[n].off .. s.node[n].off + s.node[n].cont

\* The loop of find_slot() tries the windows of n slots free of known nodes in
\* turn.  When it runs off the end, the slots after the last window it tried
\* are kept as the beginning of the new set.
find_slot(s, d, n) ==
  LET size == DirSize(s, d)
      taken == UNION {SlotsOf(s, m) : m \in Range(s.node[d].kids)}
      readable(o) == o + n <= Slots * Len(Clus(s, d))
      fit == {o \in 0 .. size - n : /\ (o .. o + n - 1) \cap taken = {}
                                    /\ readable(o) => SlotFree(s, d, n, o)}
      first == CHOOSE o \in fit : \A p \in fit : o <= p
      tail == CHOOSE o \in 0 .. size :
                /\ (o .. size - 1) \cap taken = {} /\ size - o < n
                /\ o = 0 \/ o - 1 \in taken \/ size - o = n - 1
  IN IF ~s.node[d].cached THEN exfat_bug(s)
     ELSE Then(IF d = Root THEN DevRead(s) ELSE {Ok(s)}, LAMBDA t :
            IF fit # {}
            THEN IF d = Root /\ ~readable(first) THEN {Err(t, "EIO")}
                 ELSE {Found(t, first)}
            ELSE Then(exfat_truncate(t, d, RoundUp(tail + n), TRUE),
                      LAMBDA u : {Found(u, tail)}))

commit_entry(s, d, name, off, isdir) ==
  LET set == [NoSet EXCEPT !.name = name, !.isdir = isdir,
                           !.cont = Width[name] - 1]
  IN Then(write_entries(s, d, EntrySet(set, Width[name]), off), LAMBDA t :
       LET spare == (0 .. MaxNode) \ DOMAIN t.node
           id == CHOOSE m \in spare : \A k \in spare : m <= k
           grown == [m \in DOMAIN t.node \cup {id} |->
                       IF m = id THEN NodeOf(set, NULL, off) ELSE t.node[m]]
       IN IF spare = {} THEN {Err(t, "ENOMEM")}
          ELSE {Ok(tree_attach([t EXCEPT !.node = grown], d, id))})

\* mutant: the reference to the node that exists is kept
createKeepsReference(s, path, isdir) ==
  Bind(exfat_split(s, path), LAMBDA p :
    IF p.rc # "ok" THEN {p}
    ELSE IF p.v # NULL
         THEN exfat_put_node({Err(p.s, "EEXIST")}, p.d)
    ELSE exfat_put_node(
           Bind(find_slot(p.s, p.d, Width[Last(path)]), LAMBDA o :
             IF o.rc # "ok" THEN {o}
             ELSE Then(commit_entry(o.s, p.d, Last(path), o.v, isdir), LAMBDA t :
                    exfat_flush_node(Touched(t, p.d), p.d))), p.d))

create(s, path, isdir) ==
  Bind(exfat_split(s, path), LAMBDA p :
    IF p.rc # "ok" THEN {p}
    ELSE IF p.v # NULL
         THEN exfat_put_node(exfat_put_node({Err(p.s, "EEXIST")}, p.v), p.d)
    ELSE exfat_put_node(
           Bind(find_slot(p.s, p.d, Width[Last(path)]), LAMBDA o :
             IF o.rc # "ok" THEN {o}
             ELSE Then(commit_entry(o.s, p.d, Last(path), o.v, isdir), LAMBDA t :
                    exfat_flush_node(Touched(t, p.d), p.d))), p.d))

exfat_mknod(s, path) == create(s, path, FALSE)

exfat_mkdir(s, path) ==
  Then(create(s, path, TRUE), LAMBDA t :
    Bind(exfat_lookup(t, path), LAMBDA o :
      IF o.rc # "ok" THEN {Ok(o.s)}
      ELSE exfat_put_node(
             Bind(Then(exfat_truncate(o.s, o.v, 1, TRUE),
                       LAMBDA u : exfat_flush_node(u, o.v)), LAMBDA r :
               IF r.rc = "ok" THEN {r}
               ELSE WithCode(delete(r.s, o.v), r.rc)), o.v)))

-----------------------------------------------------------------------------
(* Renaming.                                                               *)

\* mutant: the node keeps its old entry_offset
rename_entryOldOffset(s, d, n, name, off) ==
  LET old == s.node[n].parent
      cont == Width[name] - 1
  IN Then(read_entries(s, old, 2, s.node[n].off), LAMBDA r :
       LET set == [At(r, old, s.node[n].off).set EXCEPT !.name = name,
                                                        !.cont = cont]
       IN Then(erase_node(r, n), LAMBDA t :
            LET u == [t EXCEPT !.node[n].cont = cont]
            IN Then(write_entries(u, d, EntrySet(set, cont + 1), off), LAMBDA w :
                 {Ok(tree_attach(tree_detach([w EXCEPT !.node[n].name = name], n),
                                 d, n))})))

rename_entry(s, d, n, name, off) ==
  LET old == s.node[n].parent
      cont == Width[name] - 1
  IN Then(read_entries(s, old, 2, s.node[n].off), LAMBDA r :
       LET set == [At(r, old, s.node[n].off).set EXCEPT !.name = name,
                                                        !.cont = cont]
       IN Then(erase_node(r, n), LAMBDA t :
            LET u == [t EXCEPT !.node[n].off = off, !.node[n].cont = cont]
            IN Then(write_entries(u, d, EntrySet(set, cont + 1), off), LAMBDA w :
                 {Ok(tree_attach(tree_detach([w EXCEPT !.node[n].name = name], n),
                                 d, n))})))

\* mutant: the clusters of the target are not freed
remove_targetKeepsClusters(s, n, existing) ==
  IF existing = NULL THEN {Ok(s)}
  ELSE IF existing = n THEN exfat_put_node({Ok(s)}, existing)
  ELSE LET removal ==
             IF s.node[existing].isdir
             THEN IF s.node[n].isdir THEN exfat_rmdir(s, existing)
                  ELSE {Err(s, "ENOTDIR")}
             ELSE IF s.node[n].isdir THEN {Err(s, "EISDIR")}
                  ELSE exfat_unlink(s, existing)
       IN exfat_put_node(removal, existing)

\* mutant: on an error the target is cleaned up before it is released
remove_targetCleansHeld(s, n, existing) ==
  IF existing = NULL THEN {Ok(s)}
  ELSE IF existing = n THEN exfat_put_node({Ok(s)}, existing)
  ELSE LET removal ==
             IF s.node[existing].isdir
             THEN IF s.node[n].isdir THEN exfat_rmdir(s, existing)
                  ELSE {Err(s, "ENOTDIR")}
             ELSE IF s.node[n].isdir THEN {Err(s, "EISDIR")}
                  ELSE exfat_unlink(s, existing)
       IN Bind(removal, LAMBDA o :
            IF o.rc = "ok"
            THEN Then(exfat_put_node({o}, existing),
                      LAMBDA t : exfat_cleanup_node(t, existing))
            ELSE exfat_put_node(WithCode(exfat_cleanup_node(o.s, existing), o.rc),
                                existing))

\* Removes what the new name stands for, unless it is the node itself.
remove_target(s, n, existing) ==
  IF existing = NULL THEN {Ok(s)}
  ELSE IF existing = n THEN exfat_put_node({Ok(s)}, existing)
  ELSE LET removal ==
             IF s.node[existing].isdir
             THEN IF s.node[n].isdir THEN exfat_rmdir(s, existing)
                  ELSE {Err(s, "ENOTDIR")}
             ELSE IF s.node[n].isdir THEN {Err(s, "EISDIR")}
                  ELSE exfat_unlink(s, existing)
       IN Bind(exfat_put_node(removal, existing), LAMBDA o :
            Bind(exfat_cleanup_node(o.s, existing), LAMBDA c :
              IF o.rc = "ok" THEN {c} ELSE {Err(c.s, o.rc)}))

Ancestors(s, n) ==
  LET up[m \in DOMAIN s.node] ==
        {m} \cup IF s.node[m].parent = NULL THEN {} ELSE up[s.node[m].parent]
  IN up[n]

exfat_rename(s, old, new) ==
  LET moved(t, n, d) ==
        Bind(find_slot(t, d, Width[Last(new)]), LAMBDA o :
          IF o.rc # "ok" THEN {o}
          ELSE Then(rename_entry(o.s, d, n, Last(new), o.v),
                    LAMBDA u : exfat_flush_node(u, d)))
  IN Bind(exfat_lookup(s, old), LAMBDA o :
       IF o.rc # "ok" THEN {o}
       ELSE Bind(exfat_split(o.s, new), LAMBDA p :
         IF p.rc # "ok" THEN exfat_put_node({p}, o.v)
         ELSE exfat_put_node(exfat_put_node(
                IF p.s.node[o.v].isdir /\ o.v \in Ancestors(p.s, p.d)
                THEN IF p.v = NULL THEN {Err(p.s, "EINVAL")}
                     ELSE exfat_put_node({Err(p.s, "EINVAL")}, p.v)
                ELSE Then(remove_target(p.s, o.v, p.v),
                          LAMBDA t : moved(t, o.v, p.d)), p.d), o.v)))

-----------------------------------------------------------------------------
(* The volume label, an entry of the root directory without a node.        *)

exfat_set_label(s, clear) ==
  LET chain == Clus(s, Root)
      held == {o \in 0 .. Slots * Len(chain) - 1 :
                 AtChain(s, chain, o) = Special("label")}
      place(t) == IF held = {} /\ Len(chain) < s.node[Root].size
                  THEN {Err(t, "EIO")}
                  ELSE IF held = {} THEN find_slot(t, Root, 1)
                  ELSE {Found(t, CHOOSE o \in held : \A p \in held : o <= p)}
  IN Then(DevRead(s), LAMBDA t :
       Bind(place(t), LAMBDA o :
         IF o.rc # "ok" THEN {o}
         ELSE write_entries(o.s, Root,
                            <<IF clear THEN Deleted ELSE Special("label")>>, o.v)))

-----------------------------------------------------------------------------
(* Mounting a tree and giving it up.                                       *)

\* The root directory as far as the FAT leads.
RootSet(s) ==
  LET whole == [NoSet EXCEPT !.isdir = TRUE, !.start = 1, !.size = MaxCluster]
  IN [whole EXCEPT !.size = Len(Chain(s, whole))]

\* rootdir_size(): 0 when the chain does not end as it should
rootdir_size(s) ==
  LET chain == Chain(s, RootSet(s))
  IN IF s.fat[Last(chain)] = End THEN Len(chain) ELSE 0

\* exfat_mount() up to exfat_cache_directory() of the root
Mounted(s) ==
  LET root == [NodeOf(RootSet(s), NULL, 0) EXCEPT !.refs = 1]
  IN Then(DevRead(s), LAMBDA t :
       IF rootdir_size(s) = 0 THEN {Err(t, "EIO")}
       ELSE exfat_cache_directory([t EXCEPT !.used = t.bits, !.cdirty = FALSE,
                                            !.node = Root :> root], Root))

exfat_reset_cache(s) ==
  IF \E n \in DOMAIN s.node : n # Root /\ s.node[n].dirty
                              /\ n \in Range(FlushOrder(s))
  THEN exfat_bug(s)
  ELSE {Ok([s EXCEPT !.node = <<>>])}

exfat_unmount(s) ==
  Bind(exfat_flush_nodes(s), LAMBDA o :
    Bind(exfat_flush(o.s), LAMBDA f :
      Then(exfat_put_node({Ok(f.s)}, Root), exfat_reset_cache)))

=============================================================================
