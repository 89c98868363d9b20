---------------------------- MODULE MCScanRestore ----------------------------
(***************************************************************************)
(* Instances of ScanRestore for TLC.                                       *)
(***************************************************************************)
EXTENDS ScanRestore, SequencesExt

B(type) == [type |-> type, cont |-> 0, sum |-> FALSE]
F(cont, sum) == [type |-> "FILE", cont |-> cont, sum |-> sum]
O == B("OTHER")

\* What may follow one another on a device; entries of two bytes.
Set2 == <<F(2, TRUE), O, B("INFO"), O, B("NAME"), O>>
Label(length) == [type |-> "LABEL", cont |-> length, sum |-> FALSE]
Set3(length) == <<F(3, TRUE), O, B("INFO"), O, B("NAME"), O, Label(length), O>>
Set3Tail == <<F(3, TRUE), O, B("INFO"), O, B("NAME"), O, B("OTHER"), O>>
BadSum == <<F(2, FALSE), O, B("INFO"), O, B("NAME"), O>>
BadCount == <<F(1, TRUE), O, B("INFO"), O, B("NAME"), O>>
\* a set inside another one, at odd bytes
Nested == <<F(3, TRUE), F(2, TRUE), B("INFO"), B("INFO"), B("NAME"), B("NAME"), B("NAME"), O>>
Junk == <<O>>

Items == {Set2, Set3(EnameMax), Set3(EnameMax + 1), Set3Tail, BadSum, BadCount, Nested, Junk}
\* the contents, cut or filled up to n bytes
Padded(s, n) == SubSeq(s \o [i \in 1 .. n |-> O], 1, n)
\* after a cluster that is not scanned
Contents(k, n) == {Padded(Padded(<<>>, ClusterSize) \o FlattenSeq(x), n) :
                     x \in BoundedSeq(Items, k)}

SomeDevices == [bytes : Contents(4, 56), bad : {{}, {16}, {32}, {32, 33}, {21}, {40}, {48, 55}}]
=============================================================================
