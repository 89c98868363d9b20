---------------------------- MODULE MCAlgorithms ----------------------------
(***************************************************************************)
(* An instance of Algorithms for TLC.                                      *)
(***************************************************************************)
EXTENDS Algorithms

(* Names.  Units at every border of the encodings: of one, two and three   *)
(* bytes, of the high and of the low surrogates; a name has up to three.   *)

Tuples(S, n) == [1 .. n -> S]

NamesOnDevice ==
  Tuples({0, 65, 127, 128, 2047, 2048, 55295, 55296, 56319, 56320, 57343, 65535},
         NameMax)
Characters == {<<65>>, <<195, 169>>, <<226, 130, 172>>, <<240, 159, 152, 128>>}
NamesPassed ==
  UNION {Tuples({0, 65, 128, 160, 195, 237, 240, 251, 252, 255}, n) : n \in 0 .. 3}
  \cup {x \o y : x, y \in Characters}
  \cup {<<252>> \o t : t \in Tuples({128, 191}, 5)}

(* Times.  Every day of the years around leap years, centuries and the     *)
(* ends of the range, and the times around midnight and an odd second.     *)

Days == (3640 .. 5200) \cup (10900 .. 11400) \cup (47300 .. 47500)
        \cup (50300 .. 50420)
TimesGiven == [d : Days, s : {0, 86399}] \cup [d : {0, 4000, 20000}, s : 0 .. 130]
StampsFound ==
  [year : {0, 1, 4, 119}, month : {0, 1, 2, 3, 12, 13},
   day : {0, 1, 28, 29, 30, 31}, hour : {0, 23, 24}, min : {0, 59, 60},
   twosec : {0, 29, 30}, cs : {0, 100, 199, 200}]
SomeZones == {0, 18000, -34200}

(* Volumes to walk over: every bitmap, and every FAT of up to three        *)
(* clusters with links out of range and entries that cannot be read.       *)

SmallFats ==
  [n \in Counts |->
     IF n > 3 THEN {}
     ELSE [start_cluster : {0} \cup 2 .. n + 1, size : 0 .. 2 * n,
           is_contiguous : BOOLEAN, fat : [2 .. n + 1 -> (2 .. n + 2) \cup {-9, -1}]]]

(* Volumes to make, from the smallest that fit to 1.5 GB.  The sizes at    *)
(* which the default cluster size changes and the largest number of        *)
(* clusters are scaled to what an integer of TLC holds.                    *)

Size25 == 2^25
Size28 == 2^28
SomeParams ==
  [sector_bits : {9}, spc : {-1, 0, 1, 3, 6, 8},
   size : {2^20, 2^20 + 513, 3 * 2^20 + 1, 2^24, 2^25 - 1, 2^25, 2^28 - 1, 2^28,
           2^30, 2^30 + 2^17, 3 * 2^29}]
  \cup [sector_bits : {9}, spc : 0 .. 2, size : {k * 512 + 5 : k \in 120 .. 210}]

(* Tables to reconstruct, from the smallest on, with clusters smaller and  *)
(* larger than the bitmap.                                                 *)

SomeLayouts ==
  [count : {5, 6, 7, 9, 17, 33, 65}, cluster_size : {1, 3, 4, 8, 16}, table : {2}]
=============================================================================
