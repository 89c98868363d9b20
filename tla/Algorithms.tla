----------------------------- MODULE Algorithms -----------------------------
(***************************************************************************)
(* The computations that work on their own, in one specification: a        *)
(* behaviour is one of the conversion of a name (Utf), the conversion of a *)
(* time (Time), a walk over a volume (Walks), a run of mkexfatfs (Mkfs) or *)
(* the reconstruction of a FAT (Reconstruct).  The variables of the others *)
(* are Nil in it, so variables of the same name may be shared.             *)
(***************************************************************************)
EXTENDS Integers, Sequences

CONSTANTS
  NameMax, Utf16Names, Utf8Names,                       \* Utf
  Times, Stamps, Zones,                                 \* Time
  Counts, SpcBits, HeapStart, Word, Fats,               \* Walks
  Params, SmallSize, LargeSize, LastCluster, Faults,    \* Mkfs
  Layouts                                               \* Reconstruct

VARIABLES
  part,  \* the computation
  job, pos, orig,                                       \* Utf
  exfat_timezone, mtime, stamp, zone, given, found,     \* Time
  sb, used, node, a, b, cluster, fragment_start_cluster,
  remainder, fragment_size, clusters,                   \* Walks
  param, at, dev,                                       \* Mkfs
  layout, entries, c, i, filled, upcase,                \* Reconstruct
  out, rc, pc                                           \* of several

utf == <<job, pos, orig>>
time == <<exfat_timezone, mtime, stamp, zone, given, found>>
walks == <<sb, used, node, a, b, cluster, fragment_start_cluster, remainder,
           fragment_size, clusters>>
mkfs == <<param, at, dev>>
reconstruct == <<layout, entries, c, i, filled, upcase>>
vars == <<part, utf, time, walks, mkfs, reconstruct, out, rc, pc>>

-----------------------------------------------------------------------------

U == INSTANCE Utf
T == INSTANCE Time
W == INSTANCE Walks
M == INSTANCE Mkfs
R == INSTANCE Reconstruct

\* A name on the device is an array of NameMax units, one from the kernel a
\* string of bytes.
ASSUME NamesAssumption ==
  /\ NameMax \in Nat
  /\ Utf16Names \subseteq [1 .. NameMax -> U!le16_t]
  /\ Utf8Names \subseteq Seq(U!char)

\* A time has less than a day of seconds, and its year fits the 16 bits
\* exfat_unix2exfat() keeps it in; a time zone is less than a day off UTC.
ASSUME TimesAssumption ==
  /\ Times \subseteq [d : Int, s : 0 .. T!DayLength - 1]
  /\ \A t \in Times : t.d <= 365 * U!UINT16_MAX
  /\ Stamps \subseteq T!Timestamp
  /\ Zones \subseteq {z \in Int : -T!DayLength < z /\ z < T!DayLength}

Nil(v) == v = <<>>
NilUtf == Nil(job) /\ Nil(pos) /\ Nil(orig)
NilTime == /\ Nil(exfat_timezone) /\ Nil(mtime) /\ Nil(stamp)
           /\ Nil(zone) /\ Nil(given) /\ Nil(found)
NilWalks == /\ Nil(sb) /\ Nil(used) /\ Nil(node) /\ Nil(a) /\ Nil(b)
            /\ Nil(cluster) /\ Nil(fragment_start_cluster) /\ Nil(remainder)
            /\ Nil(fragment_size) /\ Nil(clusters)
NilMkfs == Nil(param) /\ Nil(at) /\ Nil(dev)
NilReconstruct == /\ Nil(layout) /\ Nil(entries) /\ Nil(c) /\ Nil(i)
                  /\ Nil(filled) /\ Nil(upcase)

Init ==
  \/ /\ part = "utf" /\ U!Init
     /\ NilTime /\ NilWalks /\ NilMkfs /\ NilReconstruct /\ Nil(pc)
  \/ /\ part = "time" /\ T!Init
     /\ NilUtf /\ NilWalks /\ NilMkfs /\ NilReconstruct /\ Nil(out) /\ Nil(rc)
  \/ /\ part = "walks" /\ W!Init
     /\ NilUtf /\ NilTime /\ NilMkfs /\ NilReconstruct
  \/ /\ part = "mkfs" /\ M!Init
     /\ NilUtf /\ NilTime /\ NilWalks /\ NilReconstruct /\ Nil(out) /\ Nil(rc)
  \/ /\ part = "reconstruct" /\ R!Init
     /\ NilUtf /\ NilTime /\ NilWalks /\ NilMkfs /\ Nil(out) /\ Nil(rc)

Utf == /\ part = "utf" /\ U!Next
       /\ UNCHANGED <<part, time, walks, mkfs, reconstruct, pc>>
Time == /\ part = "time" /\ T!Next
        /\ UNCHANGED <<part, utf, walks, mkfs, reconstruct, out, rc>>
Walks == /\ part = "walks" /\ W!Next
         /\ UNCHANGED <<part, utf, time, mkfs, reconstruct>>
Mkfs == /\ part = "mkfs" /\ M!Next
        /\ UNCHANGED <<part, utf, time, walks, reconstruct, out, rc>>
Reconstruct == /\ part = "reconstruct" /\ R!Next
               /\ UNCHANGED <<part, utf, time, walks, mkfs, out, rc>>

Next == Utf \/ Time \/ Walks \/ Mkfs \/ Reconstruct

\* The walks are loops of a program that keeps running.
Spec == Init /\ [][Next]_vars /\ WF_vars(Walks)

-----------------------------------------------------------------------------
(* The properties of the computations, stated in their modules.            *)

\* utf.c writes inside its buffers and terminates what it writes, and the
\* buffer of exfat_get_name() is large enough for every name on the device.
NamesInBuffer == part = "utf" => U!TypeOK /\ U!InBuffer /\ U!NameFits

\* A name read from the device and passed back by the kernel is the same name,
\* and characters of every length are encoded as Unicode says.
NamesKept == part = "utf" => U!RoundTrip /\ U!Standard

\* A time that exfat_unix2exfat() stored is loaded to the second, in any time
\* zone and with the right date; a timestamp that is read and written again
\* keeps its value or, if it names no time, is repaired.
TimesKept ==
  part = "time" => /\ T!TypeOK /\ T!LocalTimeKept
                   /\ T!CalendarTo2100 /\ T!StampKept

\* The loops over a bitmap or a chain compute what a definition without a loop
\* says: the ranges of used sectors below the clusters the loop ends at, the
\* fragments of a file, the size of the root directory, the verdict of
\* exfatfsck on a file, the percentage in use.
WalksExact ==
  part = "walks" => /\ W!RangesApart /\ W!RangesExactBelow /\ W!FragmentsExact
                    /\ W!RootSizeExact /\ W!NodeckExact /\ W!PercentRight

\* Every walk ends, along a chain with a cycle too.
WalksEnd == <>(part = "walks" => W!Ended)

\* exfat_find_used_sectors() lists the used sectors of the whole volume.
RangesExact == part = "walks" => W!RangesExact

\* What mkexfatfs writes of an object stays on the device and in its place,
\* exfat_mount() finds it where the boot record, the FAT and the root directory
\* say, and there are no more clusters than can be numbered.
VolumeMade ==
  part = "mkfs" => M!TypeOK /\ M!WritesApart /\ M!MountAgrees /\ M!Numbered

\* Interrupted anywhere, mkexfatfs leaves the old volume, a new one, or none
\* that mounts.
NoHybrid == part = "mkfs" => M!NoHybrid

\* The reconstructed table has one proper chain for the bitmap, with room for
\* it and apart from all other clusters in use.
TableRebuilt == part = "reconstruct" => R!TableWellFormed /\ R!BitmapFits
=============================================================================
