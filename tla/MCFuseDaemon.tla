---------------------------- MODULE MCFuseDaemon ----------------------------
(***************************************************************************)
(* Instances of FuseDaemon for TLC.                                        *)
(***************************************************************************)
EXTENDS FuseDaemon

\* Short names take three entries, the long one five; "A" differs from "a"
\* in case only.
FewNames == {"a", "b", "h"}
CaseNames == {"a", "A", "b", "h"}
LongNames == {"a", "l", "h"}
WidthOf == [n \in {"a", "A", "b", "h", "l"} |-> IF n = "l" THEN 5 ELSE 3]
UpcaseOf == [n \in {"a", "A", "b", "h", "l"} |-> IF n = "A" THEN "a" ELSE n]

LongPaths == {<<"a">>, <<"l">>}
DeepPaths == {<<"a">>, <<"b">>, <<"a", "b">>}
CaseDeep == {<<"a">>, <<"A">>, <<"a", "b">>}
FlatHidden == {<<"h">>, <<"a", "h">>}

\* A new volume: the root directory is cluster 1 and begins with entries.
NewVolume(entries) ==
  [node |-> <<>>, used |-> {}, cdirty |-> FALSE, bits |-> {1},
   fat |-> [c \in Clusters |-> IF c = 1 THEN End ELSE FREE],
   ro |-> FALSE, faults |-> 0, failed |-> FALSE, crashes |-> FALSE,
   torn |-> FALSE, cursor |-> FALSE, backward |-> FALSE,
   slot |-> [p \in Places |-> IF p[1] = 1 /\ p[2] < Len(entries)
                              THEN Special(entries[p[2] + 1]) ELSE Deleted]]

\* A volume in use: the directory "a", cluster 2, holds the fragmented file
\* "b", clusters 3 and 5.
UsedVolume ==
  LET dir == [name |-> "a", isdir |-> TRUE, start |-> 2, size |-> 1,
              contig |-> TRUE, cont |-> 2]
      file == [dir EXCEPT !.name = "b", !.isdir = FALSE, !.start = 3, !.size = 2,
                          !.contig = FALSE]
  IN [NewVolume(<<"label", "bitmap", "upcase">>) EXCEPT
        !.bits = {1, 2, 3, 5}, !.fat[3] = 5, !.fat[5] = End,
        !.slot = [p \in Places |->
                    IF p[1] = 1 /\ p[2] \in 3 .. 5 THEN EntrySet(dir, 3)[p[2] - 2]
                    ELSE IF p[1] = 2 /\ p[2] \in 0 .. 2 THEN EntrySet(file, 3)[p[2] + 1]
                    ELSE @[p]]]

BothVolumes == {NewVolume(<<"label", "bitmap", "upcase">>), UsedVolume}
LabelVolume == {NewVolume(<<"label", "bitmap", "upcase">>)}

\* All goes well, a transfer fails, power is lost, the volume is protected.
Quiet(calls) == [ro |-> FALSE, crashes |-> FALSE, faults |-> 0, ops |-> calls]
AllWorlds ==
  {Quiet(4), [Quiet(3) EXCEPT !.faults = 1],
   [Quiet(3) EXCEPT !.crashes = TRUE], [Quiet(4) EXCEPT !.ro = TRUE]}
QuietFive == {Quiet(5)}

Fold(path) == [i \in DOMAIN path |-> UpcaseOf[path[i]]]

Promise == INSTANCE NameSpace WITH
  ns <- {[path |-> Fold(e.path), isdir |-> e.set.isdir] :
           e \in {x \in DeviceTree : x.path # <<>>}},
  call <- [res EXCEPT !.path = Fold(@), !.to = Fold(@)]

\* The handlers implement a name space on the device: one that succeeds makes
\* its change there as a whole, one that fails (no space, a name that exists)
\* makes none, and names that differ in case only are one name.
RefinesNameSpace == Promise!Spec
=============================================================================
