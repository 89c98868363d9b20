------------------------------ MODULE MCVolume ------------------------------
(***************************************************************************)
(* An instance of Volume for TLC.                                          *)
(***************************************************************************)
EXTENDS Volume

Tool(name, mode, repair) == [name |-> name, mode |-> mode, repair |-> repair]

\* The daemon falls back to read-only and repairs if the user says so.
Fuse == {Tool("fuse", "ANY", "NO"), Tool("fuse", "ANY", "YES"), Tool("fuse", "RO", "NO")}
Fsck == {Tool("fsck", "RW", r) : r \in {"NO", "ASK", "YES"}}
        \cup {Tool("fsck", "RO", "NO")}
Label == {Tool("label", "RW", "NO"), Tool("label", "RO", "NO")}
AllTools == Fuse \cup Fsck \cup Label

SomeDirs == {"root", "sub", "low"}
SomeNames == {"", "a", "b", "a/b", "lone"}
CompsOf == [n \in SomeNames |-> CASE n = "" -> <<>>
                                  [] n = "a/b" -> <<"a", "b">>
                                  [] OTHER -> <<n>>]

E(kind) == [kind |-> kind, sum |-> TRUE, fit |-> TRUE, marked |-> TRUE,
            name |-> "a", to |-> "low"]
File(name) == [E("file") EXCEPT !.name = name]
Dir(name, to) == [E("dir") EXCEPT !.name = name, !.to = to]
BadSum(e) == [e EXCEPT !.sum = FALSE]
Unfit(e) == [e EXCEPT !.fit = FALSE]
Unmarked(e) == [e EXCEPT !.marked = FALSE]

Disk(root, sub, low) ==
  [bad |-> {}, mounted |-> FALSE, wp |-> FALSE, rootmarked |-> TRUE,
   dir |-> [d \in SomeDirs |-> IF d = "root" THEN root
                               ELSE IF d = "sub" THEN sub ELSE low]]

Tables == <<E("bitmap"), E("upcase")>>
Deep == Tables \o <<Dir("a", "sub")>>
Below == <<Dir("b", "low")>>
File1(e) == Disk(Deep, Below, <<e>>)

\* What is wrong is in the super block, in the root directory, or further down.
Roots ==
  {Tables \o <<BadSum(File("b"))>>, Tables \o <<E("unknown"), E("label")>>,
   Tables \o <<E("bitmap"), E("badupcase")>>, <<E("bitmap"), E("deleted"), E("badtable")>>,
   <<E("bitmap"), BadSum(File("b"))>>, <<E("upcase"), E("broken")>>, <<E("badupcase")>>}
Lows ==
  {BadSum(File("b")), Unfit(BadSum(File("b"))), Unfit(File("b")), Unmarked(File("b")),
   E("unknown"), E("broken"), File("lone"), BadSum(File("lone")), E("bitmap"),
   Unmarked(Dir("b", "low"))}
\* directories that are looked up under another name
Astray ==
  {Disk(Tables \o <<File("a"), Dir("a", "sub")>>, <<>>, <<>>),
   Disk(Tables \o <<File("a"), Dir("a/b", "sub")>>, <<>>, <<>>),
   Disk(Tables \o <<Dir("a", "sub"), Dir("a/b", "low")>>, <<File("a")>>, <<>>),
   Disk(Tables \o <<Dir("a", "sub"), Dir("a/b", "low")>>, <<Dir("b", "low")>>, <<>>),
   Disk(Tables \o <<Dir("a/b", "low"), Dir("a", "sub")>>, <<E("broken")>>, <<>>),
   Disk(Tables \o <<Dir("a", "sub"), Dir("a", "low")>>, <<>>, <<Unmarked(File("a"))>>)}
\* directories that contain themselves
Cycles ==
  {Disk(Deep, <<Dir("b", "sub")>>, <<>>), Disk(Tables \o <<Dir("", "sub")>>, <<>>, <<>>),
   Disk(Deep, <<Dir("b", "root")>>, <<>>)}

Volumes ==
  {Disk(r, <<>>, <<>>) : r \in Roots} \cup {File1(e) : e \in Lows}
  \cup Astray \cup Cycles
  \cup {[File1(File("a")) EXCEPT !.bad = {f}] : f \in Fields}
  \cup {File1(File("a")), [File1(File("a")) EXCEPT !.rootmarked = FALSE],
        Disk(Deep \o <<BadSum(Dir("b", "low"))>>, <<E("unknown")>>, <<BadSum(File("a"))>>)}
DamagedDisks ==
  Volumes \cup {[v EXCEPT !.wp = TRUE] : v \in {File1(BadSum(File("b"))),
                   Disk(Tables \o <<BadSum(File("b"))>>, <<>>, <<>>),
                   [File1(File("a")) EXCEPT !.bad = {"vbr"}],
                   Disk(Tables \o <<E("unknown")>>, <<>>, <<>>)}}
=============================================================================
