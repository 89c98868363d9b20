--------------------------- MODULE MCFileClusters ---------------------------
(***************************************************************************)
(* Instances of FileClusters for TLC.                                      *)
(***************************************************************************)
EXTENDS ClusterContent, TLC

CONSTANTS a, b, x, y  \* two files and two byte values

None == [first |-> 0, size |-> 0]
Run(first, size) == [first |-> first, size |-> size]

\* a freshly made volume
FreshLayouts == {(a :> None @@ b :> None)}

\* also one on which another implementation left a contiguous file
UsedLayouts ==
  FreshLayouts \cup {(a :> Run(2, 2 * ClusterSize) @@ b :> None),
                     (b :> Run(2, 2 * ClusterSize) @@ a :> None)}

\* a single file
LoneLayouts == {(a :> None), (a :> Run(2, 2 * ClusterSize))}

FewBuffers == {<<>>, <<x, y>>}

\* what is written does not matter to where it goes
OneBuffer == {<<x, x>>}

\* the two files are interchangeable
Symmetry == Permutations(Nodes)

\* The properties say nothing of a volume that is no longer sane.
SaneOnly == sane

=============================================================================
