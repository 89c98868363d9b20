----------------------------- MODULE FuseDaemon -----------------------------
(***************************************************************************)
(* The handlers of the FUSE daemon (fuse/main.c) over the node tree, and   *)
(* the exfatlabel tool (label/main.c).                                     *)
(*                                                                         *)
(* The daemon is single-threaded (main.c adds "-s"), so a handler is one   *)
(* step; what can come between its device writes is a failed transfer or a *)
(* loss of power, and both are outcomes of the operators of NodeTree.      *)
(*                                                                         *)
(* The kernel and libfuse are external.  The kernel calls a handler only   *)
(* with a path whose parent it found to be a directory, and opens and      *)
(* truncates only files.  libfuse remembers under which path a file is     *)
(* open, and on unlink or rename over such a path renames the file to a    *)
(* hidden name first.                                                      *)
(***************************************************************************)
EXTENDS NodeTree

CONSTANTS
  Paths,       \* the paths handlers are called with
  HiddenName,  \* .fuse_hidden...
  InitVolumes, \* the volumes a behaviour may begin with
  Worlds,      \* the circumstances it may run in: whether the volume is
               \* write-protected, whether power may be lost, how many
               \* transfers fail and how many calls there are
  HiddenPaths, \* the paths of hidden files libfuse may pass back
  Clears,      \* which of FALSE and TRUE exfatlabel is asked: set, clear
  MaxLen,      \* clusters of a file
  MaxHandle    \* open files

VARIABLES
  fs,        \* the state of the library and of the device
  status,    \* "mounted", "unmounted", "crash" or "bug"
  handles,   \* fi->fh of the open files, with libfuse's path
  res,       \* the last handler, its arguments and its return code
  labelled,  \* whether the volume was given a label
  ops        \* handler calls left

vars == <<fs, status, handles, res, labelled, ops>>

Closed == [path |-> <<>>, node |-> NULL]
Handles == 1 .. MaxHandle

Init ==
  /\ \E v \in InitVolumes, w \in Worlds :
       /\ \E o \in Mounted([v EXCEPT !.ro = w.ro, !.crashes = w.crashes,
                                     !.faults = w.faults]) :
            o.rc = "ok" /\ fs = o.s
       /\ ops = w.ops
       /\ labelled = (\E p \in Places : v.slot[p] = Special("label"))
  /\ status = "mounted"
  /\ handles = [h \in Handles |-> Closed]
  /\ res = [op |-> "mount", path |-> <<>>, to |-> <<>>, rc |-> "ok"]

\* The handler op returns with one of the outcomes S.
Return(op, path, to, S) ==
  /\ ops' = ops - 1
  /\ \E o \in S :
       /\ fs' = o.s
       /\ res' = [op |-> op, path |-> path, to |-> to, rc |-> o.rc]
       /\ status' = IF Stopped(o) THEN o.rc ELSE "mounted"
  /\ UNCHANGED labelled

OpenAt(path) == \E h \in Handles : handles[h] # Closed /\ handles[h].path = path

\* What the kernel knows of a path: that it is a directory, or a file.
Resolves(path, isdir) ==
  \E o \in exfat_lookup([fs EXCEPT !.faults = 0], path) :
     o.rc = "ok" /\ o.s.node[o.v].isdir = isdir

\* The kernel calls a handler for a path whose parent it found to be a
\* directory, or for an open file.
Serving == status = "mounted" /\ ops > 0
Reachable(P) == {p \in P : Serving /\ (p = <<>> \/ Resolves(Front(p), TRUE))}
Open == {h \in Handles : Serving /\ handles[h] # Closed}

\* exfat_lookup(), the handler's work on the node, exfat_put_node()
WithNode(path, Work(_, _)) ==
  Bind(exfat_lookup(fs, path), LAMBDA o :
    IF o.rc # "ok" THEN {o} ELSE exfat_put_node(Work(o.s, o.v), o.v))

-----------------------------------------------------------------------------

fuse_exfat_getattr(path) ==
  /\ UNCHANGED handles
  /\ Return("getattr", path, <<>>, WithNode(path, LAMBDA s, n : {Ok(s)}))

fuse_exfat_readdir(path) ==
  /\ UNCHANGED handles
  /\ Return("readdir", path, <<>>, WithNode(path, LAMBDA s, n :
       IF ~s.node[n].isdir THEN {Err(s, "ENOTDIR")}
       ELSE exfat_cache_directory(s, n)))

fuse_exfat_truncate(path, k) ==
  /\ ~fs.ro /\ Resolves(path, FALSE) /\ UNCHANGED handles
  /\ Return("truncate", path, <<>>, WithNode(path, LAMBDA s, n :
       Bind(exfat_truncate(s, n, k, TRUE), LAMBDA o :
         IF o.rc = "ok" THEN exfat_flush_node(o.s, n)
         ELSE WithCode(exfat_flush_node(o.s, n), o.rc))))

fuse_exfat_utimens(path) ==
  /\ ~fs.ro /\ UNCHANGED handles
  /\ Return("utimens", path, <<>>, WithNode(path, LAMBDA s, n :
       exfat_flush_node(Touched(s, n), n)))

\* Opened by the handlers open and create: the reference of the lookup stays.
OpenWith(op, path, S) ==
  \E h \in Handles :
    /\ handles[h] = Closed /\ \A g \in 1 .. h - 1 : handles[g] # Closed
    /\ \E o \in Bind(S, LAMBDA c : IF c.rc # "ok" THEN {c}
                                   ELSE exfat_lookup(c.s, path)) :
         /\ Return(op, path, <<>>, {o})
         /\ handles' = IF o.rc = "ok"
                       THEN [handles EXCEPT ![h] = [path |-> path, node |-> o.v]]
                       ELSE handles

fuse_exfat_open(path) ==
  /\ Resolves(path, FALSE)
  /\ OpenWith("open", path, {Ok(fs)})

fuse_exfat_create(path) ==
  /\ ~fs.ro
  /\ OpenWith("create", path, exfat_mknod(fs, path))

fuse_exfat_mknod(path) ==
  /\ ~fs.ro /\ UNCHANGED handles
  /\ Return("mknod", path, <<>>, exfat_mknod(fs, path))

fuse_exfat_mkdir(path) ==
  /\ ~fs.ro /\ UNCHANGED handles
  /\ Return("mkdir", path, <<>>, exfat_mkdir(fs, path))

\* mutant: the clusters are freed before the reference is dropped
RemovedEarly(S, n) == exfat_put_node(Then(S, LAMBDA t : exfat_cleanup_node(t, n)), n)

\* The entry goes, with the outcomes S, and the clusters once that succeeded.
Removed(S, n) == Then(exfat_put_node(S, n), LAMBDA t : exfat_cleanup_node(t, n))

fuse_exfat_unlink(path) ==
  /\ ~fs.ro /\ ~OpenAt(path) /\ UNCHANGED handles
  /\ Return("unlink", path, <<>>, Bind(exfat_lookup(fs, path), LAMBDA o :
       IF o.rc # "ok" THEN {o} ELSE Removed(exfat_unlink(o.s, o.v), o.v)))

fuse_exfat_rmdir(path) ==
  /\ ~fs.ro /\ UNCHANGED handles
  /\ Return("rmdir", path, <<>>, Bind(exfat_lookup(fs, path), LAMBDA o :
       IF o.rc # "ok" THEN {o} ELSE Removed(exfat_rmdir(o.s, o.v), o.v)))

\* libfuse follows a rename that succeeded.
Follow(path, old, new) ==
  IF IsPrefix(old, path) THEN new \o SubSeq(path, Len(old) + 1, Len(path)) ELSE path

fuse_exfat_rename(old, new) ==
  /\ ~fs.ro /\ old # new /\ ~OpenAt(new)
  /\ Return("rename", old, new, exfat_rename(fs, old, new))
  /\ handles' = [h \in Handles |->
       IF handles[h] = Closed \/ res'.rc # "ok" THEN handles[h]
       ELSE [handles[h] EXCEPT !.path = Follow(@, old, new)]]

\* libfuse removes an open file by renaming it.
Hide(path) ==
  LET hidden == Append(Front(path), HiddenName)
  IN OpenAt(path) /\ path # hidden /\ ~OpenAt(hidden)
     /\ ~Resolves(hidden, FALSE) /\ fuse_exfat_rename(path, hidden)

\* mutant: the access time is updated on a read-only volume
exfat_update_atimeAlways(s, n) == IF NoAtime THEN s ELSE Touched(s, n)

exfat_update_atime(s, n) == IF s.ro \/ NoAtime THEN s ELSE Touched(s, n)

\* The cluster with index i is read.
fuse_exfat_read(h, i) ==
  LET n == handles[h].node
  IN /\ UNCHANGED handles
     /\ Return("read", handles[h].path, <<>>,
          IF i >= fs.node[n].size THEN {Ok(fs)}
          ELSE Then(exfat_advance_cluster(fs, n, i), LAMBDA s :
                 Then(DevRead(s), LAMBDA t : {Ok(exfat_update_atime(t, n))})))

\* The cluster with index i is written, after the file was extended to it
\* with zeros and then by it.
fuse_exfat_write(h, i) ==
  LET n == handles[h].node
      grown(s, k, erase) == IF k > s.node[n].size
                            THEN exfat_truncate(s, n, k, erase) ELSE {Ok(s)}
  IN /\ ~fs.ro /\ UNCHANGED handles
     /\ Return("write", handles[h].path, <<>>,
          Then(grown(fs, i, TRUE), LAMBDA s :
            Then(grown(s, i + 1, FALSE), LAMBDA t :
              Bind(exfat_advance_cluster(t, n, i), LAMBDA o :
                IF o.rc # "ok" THEN {o}
                ELSE Then(DevWrite(o.s, Zeroed(o.s, o.v)),
                          LAMBDA u : {Ok(Touched(u, n))})))))

fuse_exfat_flush(h) ==
  /\ UNCHANGED handles
  /\ Return("flush", handles[h].path, <<>>, exfat_flush_node(fs, handles[h].node))

fuse_exfat_release(h) ==
  /\ Return("release", handles[h].path, <<>>,
            WithCode(exfat_put_node(exfat_flush_node(fs, handles[h].node),
                                    handles[h].node), "ok"))
  /\ handles' = [handles EXCEPT ![h] = Closed]

fuse_exfat_fsync ==
  /\ Serving /\ UNCHANGED handles
  /\ Return("fsync", <<>>, <<>>,
            Then(exfat_flush_nodes(fs), LAMBDA s :
              Then(exfat_flush(s), exfat_fsync)))

fuse_exfat_destroy ==
  /\ status = "mounted"
  /\ \E o \in exfat_unmount(fs) :
       /\ fs' = o.s
       /\ res' = [op |-> "destroy", path |-> <<>>, to |-> <<>>, rc |-> o.rc]
       /\ status' = IF Stopped(o) THEN o.rc ELSE "unmounted"
  /\ handles' = [h \in Handles |-> Closed]
  /\ UNCHANGED <<labelled, ops>>

Remount ==
  /\ status = "unmounted" /\ ops > 0 /\ ops' = ops - 1
  /\ \E o \in Mounted(fs) :
       /\ fs' = IF o.rc = "ok" THEN o.s ELSE [o.s EXCEPT !.node = <<>>]
       /\ status' = IF o.rc = "ok" THEN "mounted" ELSE "unmounted"
       /\ res' = [op |-> "mount", path |-> <<>>, to |-> <<>>, rc |-> o.rc]
  /\ UNCHANGED <<handles, labelled>>

\* exfatlabel mounts the volume, sets the label and unmounts it.
Relabel(clear) ==
  /\ ~fs.ro /\ status = "unmounted" /\ ops > 0 /\ ops' = ops - 1
  /\ \E o \in Then(Mounted(fs), LAMBDA s :
               Bind(exfat_set_label(s, clear), LAMBDA l :
                 WithCode(exfat_unmount(l.s), l.rc))) :
       /\ fs' = [o.s EXCEPT !.node = <<>>]
       /\ res' = [op |-> "label", path |-> <<>>, to |-> <<>>, rc |-> o.rc]
       /\ status' = IF Stopped(o) THEN o.rc ELSE "unmounted"
       /\ labelled' = IF o.rc = "ok" THEN ~clear ELSE labelled
  /\ UNCHANGED handles

OnPath ==
  \/ \E p \in Reachable(Paths \cup {<<>>}) : fuse_exfat_readdir(p)
  \/ \E p \in Reachable(Paths \cup {<<>>}) : fuse_exfat_utimens(p)
  \/ \E p \in Reachable(Paths) : fuse_exfat_getattr(p)
  \/ \E p \in Reachable(Paths) : fuse_exfat_open(p)
  \/ \E p \in Reachable(Paths) : fuse_exfat_create(p)
  \/ \E p \in Reachable(Paths) : fuse_exfat_mknod(p)
  \/ \E p \in Reachable(Paths) : fuse_exfat_mkdir(p)
  \/ \E p \in Reachable(Paths \cup HiddenPaths) : fuse_exfat_unlink(p)
  \/ \E p \in Reachable(Paths) : fuse_exfat_rmdir(p)
  \/ \E p \in Reachable(Paths), k \in 0 .. MaxLen : fuse_exfat_truncate(p, k)
  \/ \E p, q \in Reachable(Paths) : fuse_exfat_rename(p, q)
  \/ \E p \in Reachable(Paths) : Hide(p)

OnHandle ==
  \/ \E h \in Open : fuse_exfat_flush(h)
  \/ \E h \in Open : fuse_exfat_release(h)
  \/ \E h \in Open, i \in 0 .. MaxLen - 1 : fuse_exfat_read(h, i)
  \/ \E h \in Open, i \in 0 .. MaxLen - 1 : fuse_exfat_write(h, i)

Next ==
  \/ OnPath \/ OnHandle \/ fuse_exfat_fsync \/ fuse_exfat_destroy \/ Remount
  \/ \E clear \in Clears : Relabel(clear)

Spec == Init /\ [][Next]_vars

-----------------------------------------------------------------------------
(* What is on the device.                                                  *)

SetsIn(chain) ==
  {AtChain(fs, chain, o).set :
     o \in {p \in 0 .. Slots * Len(chain) - 1 : ValidSet(fs, chain, p)}}

\* The entry sets on the device with their paths, to the depth paths have.
Depth == 3
EntryType == [name : Names \cup {""}, isdir : BOOLEAN, start : FREE .. End,
              size : Nat, contig : BOOLEAN, cont : Nat]
DeviceTree ==
  LET from[path \in Seq(Names), set \in EntryType, k \in 0 .. Depth] ==
        {[path |-> path, set |-> set]}
        \cup IF ~set.isdir \/ k = 0 THEN {}
             ELSE UNION {from[Append(path, t.name), t, k - 1] :
                           t \in SetsIn(Chain(fs, set))}
  IN from[<<>>, RootSet(fs), Depth]

PathOf(n) ==
  LET up[m \in DOMAIN fs.node] ==
        IF fs.node[m].parent = NULL THEN <<>>
        ELSE Append(up[fs.node[m].parent], fs.node[m].name)
  IN up[n]

Linked == {n \in DOMAIN fs.node : n = Root \/ fs.node[n].parent # NULL}
Shown(n) == [path |-> PathOf(n),
             set |-> [f \in DOMAIN NoSet |->
                        IF f = "contig" THEN fs.node[n].contig /\ fs.node[n].size # 0
                        ELSE fs.node[n][f]]]
Held(n) == Range(Clus(fs, n))
HeldBy(e) == Range(Chain(fs, e.set))
Disjoint(S) ==
  \A m \in S : LET held == Held(m)
               IN \A n \in S : m < n => held \cap Held(n) = {}

-----------------------------------------------------------------------------
(* Properties.                                                             *)

\* No pointer dangles, and between handlers the references of a node are its
\* open handles (and one for the root), on every path through every handler,
\* its errors included: one too many and the file can never be removed, one
\* too few and the node is freed under a handle.
References ==
  /\ \A n \in DOMAIN fs.node :
       /\ fs.node[n].parent \in DOMAIN fs.node \cup {NULL}
       /\ Range(fs.node[n].kids) \subseteq DOMAIN fs.node
  /\ \A h \in Handles : handles[h].node \in DOMAIN fs.node \cup {NULL}
  /\ status = "mounted" =>
       \A n \in DOMAIN fs.node :
         fs.node[n].refs = Cardinality({h \in Handles : handles[h].node = n})
                           + (IF n = Root THEN 1 ELSE 0)

\* Whether one of the two faults of cluster.c has shown that make a file reach
\* for clusters it does not have: a file kept contiguous that is not, and a
\* cursor at an invalid cluster.
Astray == fs.backward \/ fs.cursor
Undisturbed == ~fs.failed /\ ~Astray

\* No sequence of handlers runs into an exfat_bug() as long as the device
\* does its work, on a write-protected volume either.  When transfers fail the
\* daemon aborts in two ways only: as it unmounts a node it could not write
\* back, and when one of them failed inside exfat_truncate(), which aborts at
\* once (an entry of the FAT could not be read while zeroing) or leaves a file
\* that a later call aborts on.
NoBug ==
  status = "bug" =>
    fs.failed /\ (Astray \/ fs.torn \/ res.op \in {"destroy", "label"})

\* The tree in memory is a tree, and what it knows of a directory is what the
\* device holds: each node's entries are at its entry_offset with its name,
\* the entries of two nodes do not overlap, no other set is in a directory
\* that is cached.
InAgreement ==
  /\ \A n \in Linked \ {Root} :
       /\ n \in Range(fs.node[fs.node[n].parent].kids)
       /\ Root \in Ancestors(fs, n)
  /\ \A d \in {n \in DOMAIN fs.node : fs.node[n].cached} :
       LET found == Scan(fs, Clus(fs, d))
           kids == fs.node[d].kids
       IN /\ Range(found) = {fs.node[m].off : m \in Range(kids)}
          /\ Len(found) = Len(kids)
          /\ \A m \in Range(kids) :
               LET set == At(fs, d, fs.node[m].off).set
               IN /\ set.name = fs.node[m].name /\ set.cont = fs.node[m].cont
                  /\ set.isdir = fs.node[m].isdir

\* Unless a transfer has failed, memory and device agree between handlers.
TreeOnDevice == status = "mounted" /\ Undisturbed => InAgreement

\* No cluster is lost and none belongs to two nodes, whatever was created,
\* renamed over, grown or removed.
SpaceExact ==
  status = "mounted" /\ Undisturbed =>
    /\ fs.used = UNION {Held(n) : n \in Linked}
                 \cup UNION {HeldBy(e) : e \in DeviceTree}
    /\ Disjoint(DOMAIN fs.node)

\* When fsync has succeeded the device shows what memory holds, every name,
\* every size and the bitmap, also when an earlier flush stopped at a transfer
\* that failed and left nodes unwritten.  So it does after an unmount in a
\* session without failures.
SyncedOnDevice ==
  /\ res.op = "fsync" /\ res.rc = "ok" /\ InAgreement /\ ~fs.torn /\ ~Astray =>
       /\ {Shown(n) : n \in Linked \ {Root}} \subseteq DeviceTree
       /\ fs.bits = fs.used
  /\ status = "unmounted" /\ Undisturbed =>
       fs.bits = UNION {HeldBy(e) : e \in DeviceTree}

\* The entries of the root directory that have no node stay.
SpecialsKept ==
  status \notin {"crash", "bug"} /\ Undisturbed =>
    LET root == Chain(fs, RootSet(fs))
        held == {AtChain(fs, root, o) : o \in 0 .. Slots * Len(root) - 1}
    IN {Special("bitmap"), Special("upcase")}
       \cup (IF labelled THEN {Special("label")} ELSE {}) \subseteq held

UnsharedAmong(S) ==
  status = "mounted" => Disjoint(S) /\ \A n \in S : Held(n) \subseteq fs.used
Unshared == UnsharedAmong(DOMAIN fs.node)

\* The nodes whose size is not the length of their chain: an exfat_truncate()
\* on them failed half-way.
Halved == {n \in DOMAIN fs.node :
             \/ Len(Clus(fs, n)) # fs.node[n].size
             \/ fs.node[n].size = 0 /\ fs.node[n].start # FREE}

\* No handler gives a cluster to two nodes or frees one that a node holds,
\* linked or detached, wherever in the handler a transfer fails: in the middle
\* of a chain that is built, cut or freed, or in the roll-back.  Only a file
\* that an earlier failure left halved may come to reach for a cluster that is
\* not its own (grow_file() takes its size for the length of its chain).
StaysUnshared ==
  [][status = "mounted" /\ Unshared /\ ~Astray' =>
       \A S \in {Halved} :
         UnsharedAmong(DOMAIN fs.node \ S)']_<<fs.node, fs.used, fs.fat>>

\* The paths a handler works on: its arguments, what is below them, and the
\* directories above them.
Concerned(path) ==
  \/ res.op \in {"fsync", "destroy"}
  \/ \E x \in {res.path, res.to} :
       x # <<>> /\ (IsPrefix(x, path) \/ IsPrefix(path, x))

\* A handler that starts with memory and device in agreement leaves the
\* entries of all other files alone, wherever a transfer fails or power is
\* lost: names, sizes and clusters.
OthersKept ==
  [][status = "mounted" /\ ~Astray' =>
       \A e \in DeviceTree \ DeviceTree' :
         InAgreement /\ Unshared => Concerned(e.path)']_<<fs.slot, fs.fat>>

\* Wherever power is lost, files are safe: the bitmap on the device marks
\* their clusters, and no other file claims them.  Inside a handler this is
\* so of the files it did not work on, between handlers of all but the root
\* directory, which has no entry to be written with the bitmap.
CrashContained ==
  LET tree == DeviceTree
      safe(e) == /\ HeldBy(e) \subseteq fs.bits
                 /\ \A x \in tree \ {e} : HeldBy(x) \cap HeldBy(e) = {}
  IN \/ status = "crash" /\ ~Astray
     \/ status = "mounted" /\ Undisturbed
     => \A e \in tree : e.path # <<>> /\ (status = "mounted" \/ ~Concerned(e.path))
                        => safe(e)

=============================================================================
