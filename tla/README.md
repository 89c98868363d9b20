# TLA+ models of exfat (libexfat and its tools)

This directory holds a formal model of the repository's exFAT implementation,
the TLC configurations that check it on small volumes, and proofs that TLAPS
checks for volumes of any size.

## 1. The system

The repository is the user-space exFAT implementation by relan (version 1.3.0)
with recovery tools added to it.

| Part | Source | State it keeps | Operations |
|---|---|---|---|
| Clusters | `libexfat/cluster.c` | bitmap `ef->cmap`, FAT on the device, per node: start cluster, size, contiguous flag, cached cursor (`fptr_index`, `fptr_cluster`) | `exfat_truncate` (grow, shrink, zero), `exfat_advance_cluster`, `exfat_flush` |
| File I/O | `libexfat/io.c` | the device | `exfat_generic_pread`, `exfat_generic_pwrite`, fsync |
| Nodes, directories | `libexfat/node.c`, `lookup.c` | tree of cached nodes with reference counts and dirty flags; directory entries on the device | lookup, mknod, mkdir, unlink, rmdir, rename, flush, cleanup, label |
| Mounting | `libexfat/mount.c` | super block, mount options, volume state flag | mount (checks), unmount |
| Repair | `libexfat/repair.c`, `fsck/main.c` | counters | ask, fix; walk over all directories |
| FUSE daemon | `fuse/main.c` | open files (a reference each) | one handler per system call; started with `-s`, so handlers never overlap |
| Conversions | `utf.c`, `utils.c`, `time.c` | none | UTF-8/16, checksums, name hash, dates |
| mkexfatfs | `mkfs/` | layout of a new volume | compute sizes, erase, write structures |
| dumpexfat, exfatlabel | `dump/`, `label/` | none | print; read or set the label |
| Recovery | `bptree.c`, `recovery.c`, `nuked/`, `denukify/`, `fsrestore.cpp`, `fstree.cpp` | tree of found entries, rebuilt FAT | scan for entries, rebuild |

How they interact: a FUSE handler looks nodes up (`lookup.c`), calls the node
layer, which stores directory entries as bytes of the parent directory through
`exfat_generic_pread`/`pwrite`, which call `exfat_truncate`, which allocates and
links clusters. A node's size and start cluster reach the device only when the
node is flushed (its entry is rewritten in its parent), the bitmap when
`exfat_flush` runs. Shared state is the bitmap, the FAT and the cached nodes.

What is hard here. There is one thread, so the interleavings are those of
*calls* and of *failures*: every device access can fail, a call that fails
returns in the middle, and the next call, on this or another file, finds what
it left. The volume fills up in the middle of an operation. The cursor is a
cache that must follow every change of the chain. And what is in memory and
what is on the device differ until a flush, so a crash exposes any order of
writes the code chose. `PROJECT.json` lists these hazards at their lines.

What makes each part correct:

* clusters: a cluster has one owner and its bit is set; none is lost; a walk
  along the chain visits the file's clusters; sizes, chains and cursor agree;
  running out of space undoes the call;
* file I/O: files behave as sequences of bytes; new bytes are zero;
* nodes: reference counts are never negative and are zero when a node is
  freed; the tree and the directory entries agree; an unlinked file's clusters
  are freed once; rename keeps the file under one of its names;
* write-back: after a successful flush the device shows what memory shows;
  after a crash no two files share a cluster;
* mount, repair: only volumes within bounds are accepted; a fix leaves an
  entry that passes the checks;
* conversions, layout, recovery: agreement with reference definitions.

## 2. Plan

Done, in this order:

1. **FileClusters**, **ByteFiles**: clusters and file I/O step by step, and what
   they promise. **ClusterInvariant**, **ClusterProgress**, **ClusterContent**:
   the inductive invariant in three layers, and the mapping to ByteFiles.
   **FileClustersProofs**, **FileClustersCalls**, **FileClustersGrowth**,
   **FileClustersContent**: the proofs, one on top of the other, up to the
   refinement. **Iteration**: induction for all of them.
2. **NodeTree**, **FuseDaemon**, **NameSpace**: nodes, directories, lookup,
   write-back, failures and loss of power, the FUSE handlers, and the name space
   they implement.
3. **Volume**: mounting, checking, repairing and unmounting by several tools in
   turn, and **VolumeProofs**.
4. **Mkfs**, **Utf**, **Time**, **Walks**: layout and algorithms, each against a
   reference definition; **Algorithms**, which has them in one specification, and
   **AlgorithmsProofs**.
5. **ScanRestore**, **Reconstruct**: the recovery tools as far as they are
   written, and **ScanRestoreProofs**.

Left: theorems about the node tree, which needs an inductive invariant over the
outcomes of nested calls, and about Walks, Reconstruct and the layout of Mkfs.

## 3. The models

### FileClusters

State: `node` is the part of `struct exfat_node` that the cluster code uses;
`cmap` the set bits of the bitmap; `fat` and `data` the FAT and the cluster
heap on the device; `pc` and `op` the call being executed, with its arguments
and local variables. `chain`, `tail`, `pre`, `faults` and `sane` are history:
the clusters handed out to each file in file order, the clusters in flight
during a call, the state at the beginning of the call, and what has gone wrong
so far. No action reads history variables except to update them, to bound the
number of failures (`faults < MaxFaults`).

A call is executed in steps, one for each loop iteration that touches the
device. The labels follow the code:

| Labels | Code |
|---|---|
| `truncate` | `exfat_truncate`: nothing, grow, shrink, or zero within the last cluster |
| `growLoop`, `growFat`, `growLink` | `grow_file`, with `make_noncontiguous` entry by entry |
| `shrink`, `shrinkCrop`, `shrinkFree` | `shrink_file`, freeing cluster by cluster |
| `erase`, `eraseFirst`, `eraseLoop` | `erase_range` |
| `advance` | the loop of `exfat_advance_cluster`, for every caller |
| `pwrite`, `pwriteExtend`, `pwriteData`, `pwriteLoop` | `exfat_generic_pwrite` |
| `pread`, `preadLoop` | `exfat_generic_pread` |
| `done`, `bug` | the call has returned; `exfat_bug` has aborted the daemon |

A failing FAT read is one of the outcomes of `NextCluster` (the code returns
`EXFAT_CLUSTER_BAD`); the other failures are the action `DeviceFails`. A FAT
read at an invalid cluster number reads beyond the FAT, where the result is
whatever is there or an uninitialised variable: any cluster number
(`AnyCluster`). `AssertionFails` covers the assertions of `cluster.c`. Cluster
numbers are unsigned words up to `UMax`, subtraction wraps (`Minus`).

Data is abstract: a byte is a model value, `"zero"` or `"junk"`. Left out:
times (setting one only marks the node dirty), messages, and the assertion of
`exfat_truncate` on `references`, which belongs to the node layer.

The flag `sane` restricts properties to the histories in which they can be
claimed: it becomes false when a call is begun after a failure (the findings
below show what happens then) and when the defect of `cluster.c:283` gives a
contiguous file the cluster before its last one. Failures *during* a call and
everything that call leaves behind are within `sane`.

### ByteFiles

The promise to callers: a file is a sequence of bytes; truncate, write and read
take effect at once; added bytes are zero; ENOSPC is returned exactly when the
clusters needed exceed the free ones. The clusters in use are counted as pairs of
a file and a position (`Slots`). A write beyond the end that does not fit
may have zeroed the gap, as the code truncates twice. `ClusterContent` maps
FileClusters to it: a file in the hands of a call has the bytes it had when the
call began (`Files`), the result is that of a call that has returned (`Reply`),
and the promise is kept as long as the volume is sane and no device access has
failed (`Working`). The step that returns is the step of the promise; all others
stutter.

### ClusterInvariant

`IInv`, the inductive invariant: `OwnInv` (ownership), `ChainInv` (start
cluster and links are those of the chain), `FilesInv` (files that no call is
changing have the clusters of their size and a cursor in their chain) and
`CallInv` (what holds at each label of a call, the clusters in flight
included). Ownership alone is not inductive: that `shrink_file` frees clusters
of its own file only follows from the links, that the links are walked from the
right place follows from the cursor, and that the cursor is in the chain from
the sizes.

### ClusterProgress

`Progress`, the second layer, which holds on a sane volume and needs the first
one: where the loops of `erase_range`, pread and pwrite are in the file
(`EraseAt`, `IoAt`), how chains end (`EndsMarked`), that every used cluster has
an owner or is in flight (`NoneLost`), that no assertion has failed (`NoAbort`),
and which bytes and bits a call that extends its file has kept (`GrowthKept`).

### ClusterContent

The third layer. `Arguments`: a call has the arguments its caller gave it, and an
`exfat_truncate` inside a write those of its place there. `Contents`, while the
device works: at each stage of a call the size of its file (`SizeNow`), how much
of it is as it has to be (`ValidLength`) and what those bytes are (`Image`: the
buffer up to where the write has come, the old bytes, zeros behind the old end);
what a read has returned so far (`ReadSoFar`); and that the space is missing if
`grow_file` is giving clusters back. `Inductive` is the three layers together.

### NodeTree, FuseDaemon and NameSpace

In `NodeTree` a function of `node.c` or `lookup.c` is an operator from a state
to the set of its outcomes: state, return code and out-parameters. `Then` runs
the next call if the previous one returned zero, `Bind` in any case, and every
`DevRead` and `DevWrite` adds the outcome of a failed transfer while failures
are left, and of a loss of power if the world has it (`s.crashes`). So each error path of a function
of the library is a set of outcomes, and a handler, which libfuse calls one at a
time (`fuse/main.c` adds `-s`), is one step of `FuseDaemon`. The state has both
sides: `node`, `used` and `cdirty` are in memory, `slot`, `bits` and `fat` on
the device. Writes reach the device in the order of the code: there is no cache
below that reorders them. A behaviour runs in one of the `Worlds`: nothing
fails, a transfer fails, power may be lost before any write, or the volume is
write-protected (`s.ro`). `s.failed` records that a transfer has failed.

Data: a directory is a sequence of slots of one entry each. A name is a model
string with a number of entries (`Width`) and an upper case form (`Upcase`). A
node has a start cluster, a size in whole clusters and the contiguous flag, and
its clusters are those the walk from there finds (`Chain`). `exfat_truncate` is
modelled here a second time, without the bytes and the cursor of FileClusters
but with what is around it: allocation from a hint (`allocate_cluster`),
`make_noncontiguous` and each link of the FAT written by itself, the roll-back
of `grow_file`, `crop` and the freeing one entry after another in `shrink_file`,
and the walk of `erase_range`, each with the failure or the loss of power it
may meet. So a handler after a failed truncate finds a start cluster without a
size, or a size without the clusters, as in the code.

Three history fields record what went wrong on the way: `s.torn` (a transfer
failed inside `exfat_truncate`), `s.backward` (the defect of `cluster.c:283` has
shown) and `s.cursor` (a cursor was left at an invalid cluster, `cluster.c:107`).
Since the cursor itself is only in FileClusters, the properties claim nothing
after the last two (`Astray`).

`FuseDaemon` has one action for each handler that reads or changes state,
`Remount` and `Relabel` (exfatlabel on an unmounted volume). What is external:
the kernel calls a handler only with a parent it found to be a directory
(`Reachable`); libfuse keeps the path of each open file and, before a removal or
rename over it, renames it to a hidden name (`Hide`, `Follow`).

`NameSpace` is what the daemon promises of names. `MCFuseDaemon` maps the tree
on the *device* to it, so the refinement says that a handler has its effect
there when it returns.

### Volume

`exfat_mount`, `exfat_unmount` and the tools between them, one after another on
the same device: the daemon, exfatfsck with each repair mode, exfatlabel. Each
check and each allocation of `exfat_mount` is an action with an error return of
its own, which frees what the code frees there; `ef.held` is what is allocated
or open, `ef.chunk` the bitmap, `ef.orphans` the blocks that nothing points to
any more.

The super block is the set of its wrong fields. A directory is a sequence of
entries, the entries of one file being one: its kind, whether its checksum is
right, whether it passes the other checks, whether its clusters are marked, its
name, and the directory it leads to, which may be any, the root and itself
included. `readdir` goes entry by entry (`rd`): a transfer may fail at each, the
user answers each question as he likes, and a failure rolls the nodes of the
directory back. Names are model values; `Comps` is the path a name is to
`exfat_lookup` (none for an empty name or ".", two components for one with a
'/'), `Lone` are the names with an unpaired surrogate, at which `exfat_get_name`
aborts. exfatfsck's `dirck` is a stack of frames, one for each call; it looks its
directory up component by component, reading directories that are not cached,
checks it, and goes through its nodes, repairs included. `MaxDepth` is what the
stack has room for; one call more ends in `overflow`. The daemon opens and reads
directories (`FuseOpendir`, `FuseReaddir`) and changes the bitmap (`FuseWork`);
its other handlers are in FuseDaemon. A transfer or an allocation may fail and
the process may be killed at each step.

### Mkfs

The parameters, `setup_spc_bits`, sizes, alignments and positions of the six
objects in bytes as the code computes them; boot record, FAT entries, bitmap and
root directory as values; then `erase` and `create` object by object, with
failures. `MountAgrees` computes from the written values alone, as the mount
code does. 64-bit products are avoided by choosing volumes below 2^31 bytes;
`SmallSize`, `LargeSize` and `LastCluster`, at which the code changes the
cluster size, are scaled to fit (2^25, 2^28 and 8192).

### Utf and Time

Conversions one character at a time with buffers and sizes as in `utf.c`
(`wchar_t` values of up to 31 bits), and `time.c` with a time as days and seconds
so that it fits into 32 bits. Both are checked against the definitions of the
standards and by going through both directions.

### Walks

The loops along chains and over the bitmap that change nothing: used sectors and
fragments (dumpexfat), the size of the root directory (mount), the clusters of a
file (exfatfsck), the percentage in use (unmount). Sectors have one byte. The
FAT is arbitrary: cycles, links out of range, unreadable entries.

### ScanRestore and Reconstruct

`ScanRestore` is nukedexfat byte by byte over a device with unreadable bytes, and
the reader of its log in `fsrestore.cpp`. A byte is what the code may take it
for, together with the byte behind it (the number of entries that follow, or the
length of a label); entries have two bytes, clusters sixteen, sets at most four
entries. A checksum over bytes behind the buffer has an arbitrary result. A label
in a set that is longer than its field (`EnameMax`) is copied over the end of a
buffer on the stack, after which the program may do anything: the action
`OverrunLabel` ends in `undefined`. `Reconstruct` is
the FAT that `recovery.c` builds for a volume it knows the numbers of; the numbers
are parameters. A write outside the table ends in `undefined`, of which nothing
is claimed.

### Algorithms

Utf, Time, Walks, Mkfs and Reconstruct are programs or functions that work on
their own. Algorithms instantiates all five: a behaviour is one computation
(`part`), and the variables of the others are empty in it. Its properties are
those of the five modules under one name each. The inputs are constants;
`MCAlgorithms` gives them values for TLC.

## 4. Runs

| Run | Instance | Shows |
|---|---|---|
| `clusters` | two files, 4 clusters of one byte, sizes 0..4, unused FAT entries free or garbage, a fresh volume or one with a contiguous file; truncates, writes of two bytes and reads of three; one failing FAT read, FAT write or data write | TypeOK, Ownership, NoLeak, Linked, Settled, NoBug, EnospcRestores, FailedGrowKeepsData, Inductive, OwnWrites |
| `refinement` | two files, 3 clusters of two bytes, one reserved; truncates, writes, reads | RefinesByteFiles |
| `termination` | one file, 4 clusters, reads, writes, truncates, one failure of any kind, also calls after it | Termination |
| `tree` | paths `a`, `b`, `a/b`, a new volume and one with a fragmented file `a/b` of two clusters, files of up to 2 clusters, 5 clusters of 6 entries, one open file; four worlds: 4 calls, 3 calls and one failing transfer, 3 calls and a loss of power, 4 calls on a write-protected volume | References, NoBug, TreeOnDevice, SpaceExact, SyncedOnDevice, SpecialsKept, CrashContained, OthersKept, StaysUnshared |
| `names` | paths `a`, `A`, `a/b`, the same two volumes, 5 clusters, 5 calls | RefinesNameSpace |
| `volume` | 41 volumes with three directories: damage in each field of the super block, in the root directory, two levels below it, names that are looked up elsewhere, cycles of directories, write protection; 9 ways to start a tool, 2 tools in turn, one killed, one failing transfer or allocation | NoBug, Released, LostIsFlagged, FixedIsWritten, CleanIsSound, ReadOnlyKeeps, Ends |
| `scan` | devices of 56 bytes with up to 4 items, labels that fit their field and that do not, 7 patterns of unreadable bytes | SetsLogged, ScannedAfterErrors, Ends |
| `algorithms` | every name of three units at the borders of the encodings, strings of up to six bytes; some 2400 days and 3 zones, stamps with each field in and out of range; every bitmap of 1, 2, 3, 6, 7 clusters, every FAT of up to 3; 66 large volumes and 273 small ones to make, with failures; 35 tables to rebuild | NamesInBuffer, NamesKept, TimesKept, WalksExact, WalksEnd, VolumeMade, NoHybrid, TableRebuilt |
| `backward_run` | as `clusters`, fresh volume, no failures | violation: ContiguousHolds |
| `stale_cursor` | one file, 6 clusters, one failing FAT read | violation: WriteInFile |
| `slot_overwrite` | a name of five entries | violation: SpecialsKept |
| `used_sectors` | as `algorithms` | violation: RangesExact |

Bounds. Two files are enough for sharing a cluster, and the code never looks at
a third. Four clusters let a file of two clusters be fragmented by the other
one, be cropped to one cluster and run out of space with one or two clusters to
give back. One-byte clusters make every offset a boundary; the refinement run
has clusters of two bytes for offsets inside one. In `clusters` a write has two
bytes, so that it goes on into a second cluster, and one byte value: what is
written does not matter to where it goes. One failure is enough for a
call to stop anywhere; `termination` and `stale_cursor` explore what the calls
after it find. `UMax = 31` keeps the special values apart from the clusters. The
two files are symmetric where the run uses `SYMMETRY`. `SaneOnly` does not
explore what follows a state that is no longer sane, where the properties of
those runs say nothing. Deadlock is checked in the runs of FileClusters: an idle
daemon can always take a call and an aborted one stutters. The other models end:
a bounded number of calls, or a program that is done.

In the runs of the tree, six entries to a cluster let the three special entries
and one file fill the root directory, so that the next one makes it grow and a
removal makes it shrink; two directories are what a rename can involve. Files of
two clusters are cropped, freed in two steps, grown with and without a neighbour
in the way, and rolled back; five clusters leave the used volume one free. Four
calls reach what a sequence such as create, write, rename over, unlink reaches;
where something fails there are three, as each call has many outcomes. One
failure is enough to leave a handler anywhere, and a handler after it finds what
it left. In Volume three directories let `dirck` go two levels down and come back
to nodes that are left, and form cycles through one, two or the root; a stack of
four calls is one more than any chain of them without a cycle needs. Two tools in
turn show what one leaves to the next. In Walks a FAT of three
clusters has all shapes of chains: straight, backwards, cyclic with and without
a tail, cut, out of range; `Word` is 65536, beyond all numbers of the run.

What the properties do not claim.

* In the tree, agreement of memory and device (TreeOnDevice, SpaceExact,
  SpecialsKept) is claimed as long as no transfer has failed
  (`Undisturbed`), since the code does not undo half of a call. SyncedOnDevice
  also speaks of an fsync after a failure, if what was left is a tree and no
  truncate was torn. References, OthersKept, CrashContained and StaysUnshared are
  claimed in all worlds. Everything but References stops at `Astray`.
* StaysUnshared exempts the files that an earlier failure left with a size that
  is not the length of their chain (`Halved`): such a file does come to reach for
  a cluster of another one. The step that halves a file is not exempted.
* CrashContained speaks of the files an interrupted handler did not work on, and
  between handlers of all but the root directory itself. In `tree` no name has two spellings or more
  than three entries and volumes have a label from the start (section 6).
* In Volume, NoBug, LostIsFlagged and FixedIsWritten are claimed while no
  transfer failed. NoBug and CleanIsSound are about volumes whose names can be
  converted and looked up (`Ordinary`); Released leaves aside the bitmaps that a
  second bitmap entry replaces (`OneBitmap`); Ends lets the stack overflow where
  a directory contains itself (`Endless`).
* In ScanRestore, Ends is about devices on which labels fit (`LabelsFit`).

Fairness. `termination` assumes weak fairness of the steps of a call that has
begun (`WF_vars(Step)`): the daemon is a running process and its system calls
return, with a result or an error. Volume assumes the same of the steps of a
tool that was started (`Working`: mounting, reading a directory, `dirck`,
exfatlabel, unmounting), and nothing of the daemon between two requests, which waits for the kernel, of the user who starts tools, or of
failures. The walks and ScanRestore are sequential programs that run
(`WF_vars(Walks)`, `WF_vars(Next)`); WalksEnd and Ends say that the loops are
finite.

## 5. Proofs

Eight modules hold the theorems; each states in its comments what its lemmas are
for. Nothing is assumed beyond the named assumptions on the constants, which
TLC evaluates on every run.

### Clusters and file I/O

For any number of files, clusters and failures, from `ClusterAssumption`,
`VolumeAssumption` and `LayoutAssumption`: there is at least one cluster of at
least one byte, the special cluster numbers are above the clusters, and at mount
the files occupy disjoint runs outside the reserved clusters.

* `TypeCorrect`: `Spec => []TypeOK`. It holds also when the volume is not sane,
  so it says that whatever is read from a damaged FAT no call marks or writes a
  cluster that does not exist, `shrink_file` crops only a file that keeps a cluster,
  so that its difference does not wrap, and no write leaves its buffer. It does
  not say the same of `grow_file`: after a failed extension of an empty file `current - 1`
  wraps there (`cluster.c:252`), and the walk then goes to the end of
  the chain.
* `InvariantHolds`: `Spec => []IInv`, one lemma for each action of Next
  (`GrowAllocateInv`, `ShrinkCropInv`, `ShrinkFreeInv`, ...), each proving the
  four parts of the invariant. `CallAdvanceInv` states what every caller of
  `exfat_advance_cluster` has to ensure. `OwnershipHolds` follows.
* `LinkedHolds`: the walk from the start cluster along the FAT is the chain.
* `InductiveHolds`: `Spec => []Inductive`, the three layers. Their parts are
  proved one by one, with one step for each action (`NoneLostNext`,
  `EndsMarkedNext`, `NoAbortNext`, `EraseAtNext`, `IoAtNext`, `GrowthKeptNext`,
  `ArgumentsNext`, `ContentsNext`).
* From the second layer: `NoLeakHolds`, `NoBugHolds`, `SettledHolds`,
  `EnospcRestoresHolds`, `FailedGrowKeepsDataHolds`, and the action property
  `OwnWritesHolds`.
* From the third: `RefinesByteFilesHolds`: `Spec => RefinesByteFiles`.

Why the second layer is needed. That the rollback of `grow_file` is complete
depends on which clusters were in use when the call began, although the file has
more by then (`MapKept`); that a failed extension keeps the bytes, on
`erase_range` starting behind the old end and never going back (`EraseAt`), also
when the FAT could not be read on the way. That no assertion fails
depends on chains being terminated, which is not so in the middle of a call
(`OpenEnded`). That a write stays in its file depends on the loop being at the
cluster of the byte it has come to (`IoAt`).

Why the third layer is needed. A call returns with the right bytes because each
of its steps left the right ones so far, and between two steps the file is none
that a caller could see: it is longer than its valid bytes while it is being
zeroed or written, or has clusters behind its end. `ValidLength` says where the
line is at each label, and that no step moves it over a byte it did not write.

The refinement. `InitSimulates` maps the mounted volume; `StepSimulates` maps
every step: those before the return leave the file in the hands of the call and
the other ones alone (`FilesStill`, `OthersKept`), and every return is the step
of the promise that its result says (`ReturnSimulates`, with `TruncateSimulates`,
`WriteSimulates`, `ReadSimulates`, `RefusedSimulates`). While the device works no
call returns EIO (`NoEIO`). That ENOSPC is returned exactly when the space is
missing is counted: the slots of all files map one to one into the clusters that
are not reserved (`ClustersOfSlots`), so what a file has been given fits
(`RoomOfChain`), and when the allocator finds no free bit they fill them, as no
cluster is lost (`SlotsFull`, `NoRoom`).

### Mounting and repair

`VolumeProofs`, for any number of directories of any length, arranged in any way,
any names, and any number of tools, kills and failing transfers. The assumptions
say what the constants are: an empty name and the root directory exist and a name
is a sequence of components (`NameAssumption`), volumes and tools have the fields
of the model (`DiskAssumption`, `ToolAssumption`), bounds are numbers
(`BoundAssumption`). A tool may repair in any mode, `-o repair` of the daemon on a
read-only volume included.

`VolumeInvHolds` is the invariant, `Types /\ Phases /\ Flags /\ Tree /\ Frames /\
Claims /\ Bitmaps`: what is allocated at which step of `exfat_mount`; what is
mounted read-only was opened so, a volume in use for writing is marked, what was
lost is marked; every node is below a node that was read, at the index of its
entry; the frames of `dirck` hold nodes that no roll-back frees; an entry counted
as fixed is right on the device or in a dirty node; a bitmap is read once.

* `ReleasedHolds`. Each return frees what its place in the code frees, so this is
  about their order: `Phases` says that nothing else is allocated there, and
  that the nodes are gone when the root node is freed rests on `Tree`, and on
  `Frames` where nodes are rolled back under the calls of `dirck`. That no bitmap
  is lost needs `Bitmaps`: the root directory is read once.
* `FixedIsWrittenHolds`. `Claims` is what makes it inductive, and it relates every
  entry of a directory to the nodes read from it, through reading, roll-back and
  flushes in any order.
* `LostIsFlaggedHolds`, and the action property `ReadOnlyKeepsHolds`.

### The scan

`ScanRestoreProofs`, for devices of any size and content, every set of
unreadable bytes and every size of clusters and entries (`DeviceAssumption`,
`ScanAssumption`: a cluster is longer than two entries).

`ScanSafeHolds` is the invariant: the buffers lie one after the other, the part
of the buffer before `cluster_ptr` has been searched, and while a set is being
logged the search is `subcount` entries before its end. Nothing is claimed from
`undefined` on. SetsLogged by itself
speaks of finished buffers only and says nothing of the one being searched. From
it `SetsLoggedHolds` and, where unreadable clusters are unreadable from their
first byte on, `ScannedAfterErrorsHolds`.

### Conversions and mkexfatfs

`AlgorithmsProofs`, for every input of three of the computations. The
assumptions: a name on the device is an array of `NameMax` units and a name from
the kernel a string of bytes (`NamesAssumption`; neither has to be well-formed);
the year of a time fits the `uint16_t` that `exfat_unix2exfat` keeps it in, a
time zone is less than a day from UTC, a timestamp on the device is any value of
its bit fields (`TimesAssumption`).

* `NoHybridHolds`: the objects of a volume are replaced in order, zeroed first
  and then new (`MkfsInv`), so the boot record and the root directory are both
  whole only before the first write and after the last one.
* `NamesInBufferHolds`: while a name is converted no more than three bytes have
  been written for each unit read (`UtfInv`): four bytes are written for a pair
  of units only.
* `NamesKeptHolds`: that the second conversion undoes the first is a statement
  about two loops that run one after the other. The first one leaves a `Trail`, a
  set of pairs (units read, bytes written) from each of which one character leads
  to the next (`Encoded`); the second one walks along it, with as many bytes read
  and as many units written as some pair of it says (`Returned`). That one
  character survives is `utf8_to_wchar` after `wchar_to_utf8`, length by length.
* `TimesKeptHolds`: the entry has the timestamp of the time the file was given or
  the one it was found with, and the node has the time it names (`TimeInv`). It
  rests on the year, the month and the day that `exfat_unix2exfat` finds being
  those from which `exfat_exfat2unix` gets the same number of days, in leap years
  and others, and on the days of the Gregorian calendar up to 2100.

### Recursion

The walk `ClusterAt` is a recursive function over the naturals. The library's induction theorems take an operator,
which the provers cannot instantiate, so `Iteration` derives induction over a
set of naturals from `WFMin`, which has no operator parameter, and from it that
such a function is defined (`IterationExists`). The proofs that need induction,
these and those about loops, define the set of numbers for which the claim holds.

### Only model-checked

* Termination, Ends, WalksEnd: liveness under fairness is beyond this prover.
* RefinesNameSpace and the properties of `tree`: a handler is a set of outcomes of
  nested calls, and they have no inductive invariant yet.
* NoBug and CleanIsSound of Volume: they depend on `dirck` finding again, under the
  names it puts together, the directory it was called for, and on its having gone
  through all of them, which needs an invariant about paths and about what every
  frame has already done.
* WalksExact, VolumeMade, TableRebuilt: the loops over bitmaps and FATs, the layout
  of a new volume and the rebuilt FAT are checked against reference definitions
  at the borders of their inputs. The percentage in use is right only below
  42949673 clusters (section 6), and the sizes of a new volume are products and
  quotients of variables, which the provers do not reason about.

## 6. Findings

Four runs show the code doing something else than a comment, a manual page or an
assertion says of it; `findings` in `PROJECT.json` quotes each line.

* `backward_run`: the contiguity test of `cluster.c:283` also accepts the
  cluster before the last one.
* `stale_cursor`: after a FAT read error the cursor stays at an invalid cluster
  (`cluster.c:107`) and a later write starts from it.
* `slot_overwrite`: when `find_slot` extends the root directory it keeps the
  slots at its end that no node occupies (`node.c:873`) without looking for
  special entries there, so a long name is written over them.
* `used_sectors`: the loop of `cluster.c:454` misses the last two clusters.

Other deviations met while modelling. The models contain the behaviour; the
instances or the preconditions of the properties leave it out.

* clusters: a failed extension leaves an empty file with a start cluster
  (`cluster.c:268`); a truncate to zero that failed after the start
  cluster was cleared (`cluster.c:335`) aborts when it is repeated (`cluster.c:312`); a FAT read error while zeroing aborts (`cluster.c:397`), where
  the comment above says that the cluster cannot be invalid. NoBug of
  FuseDaemon names these cases. A file that a failed truncate left with a size that is not the
  length of its chain grows into, or frees, a cluster of another file
  (`cluster.c:320`).
* directories: an open file removed under another spelling aborts (`node.c:66`);
  `shrink_directory` cuts off a label behind the last file (`node.c:716`); the
  bitmap is not written when the root directory grows (`node.c:637`); its last
  cluster is linked to the new one before that is terminated (`cluster.c:292`,
  `298`), and after a loss of power in between `rootdir_size` refuses the volume;
  clusters are lost when a removal or mkdir fails half-way (`node.c:1001`).
* mount and repair: a repaired entry is dropped when reading its directory fails
  later (`node.c:554`); a second bitmap entry leaks the bitmap read before it
  (`node.c:484`); `dirck` recurses without end where a directory contains itself
  (`fsck/main.c:110`); the percentage in use wraps from 42949673 clusters on
  (`mount.c:375`). A tool aborts on what is on the device, although exfat_bug()
  "means an internal bug in exFAT implementation" (`log.c:35`), in these cases:
  a checksum was repaired in a root directory without bitmap or upper case table
  and the mount is given up (`mount.c:354`, `node.c:613`); one was repaired on a
  read-only volume, with `-o repair` of the daemon (`node.c:635`); a name has an
  unpaired surrogate and is shown (`utils.c:53`, from `node.c:223` for a set with a
  wrong checksum, `fsck/main.c:103` and `fuse/main.c:131`); `dirck` does not find
  its directory, or finds a file, under a name that is empty, ".", contains a '/'
  or occurs twice (`fsck/main.c:74`, `76`). NoBug states that there is no other
  while transfers succeed.
* mkexfatfs: clusters of more than 32 MB (`mkfs/main.c:105`); a FAT without an
  entry for the last cluster (`fat.c:36`).
* conversions: names with a lone surrogate (`utf.c:190`); dates from 29 February
  2100 (`time.c:48`).
* recovery: a label of up to 255 characters is copied into a buffer of 16
  (`nuked/main.c:122`); a gap in the scan after a short read (`nuked/main.c:172`), wrong
  offsets in the log (`nuked/main.c:57`), log lines the reader refuses
  (`fsrestore.cpp:106`), the size of the bitmap (`recovery.c:307`), the upper
  case table written beyond its end (`recovery.c:220`).

## 7. Not modelled

* Option and command line parsing, printing, `exfat_stat`, `statfs`, chmod and
  chown (which change nothing), and the system calls by which `exfat_open` finds
  the size of a device.
* Checksums and the name hash as arithmetic: a set or a boot record has a right
  or a wrong checksum. The data of the upper case table.
* Memory that cannot be allocated, but where the model says so.
* Reordering of writes below the program: a write that returned is on the device.
* Handlers running at the same time: the daemon is started single-threaded.
* Times and attributes of nodes in the tree (setting one marks the node dirty),
  and directory entries of unknown vendors behind a file's entries.
* `bptree.c` and `fstree.cpp`: insertion into the recovery tree has no caller and
  its cases are comments. `find_ac3.c`, `restore_fat` and `update_chksum_sector`
  are not called by anything; most functions of `fsrestore.cpp` are empty.
