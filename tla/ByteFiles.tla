------------------------------ MODULE ByteFiles ------------------------------
(***************************************************************************)
(* What the file layer promises to its callers: a file is a sequence of    *)
(* bytes, a call takes effect at once or not at all, new bytes are zero,   *)
(* and a call is refused for lack of space exactly when the clusters it    *)
(* needs are not free.                                                     *)
(***************************************************************************)
EXTENDS Integers, Sequences, FiniteSets

CONSTANTS
  Nodes,        \* files
  ClusterSize,  \* bytes in a cluster
  Capacity,     \* clusters available to files
  MaxSize,      \* bound: largest size
  Buffers,      \* what callers write
  ReadSizes,    \* how much they read at a time
  Volumes       \* the files on the volume when it is mounted

VARIABLES
  files,   \* the bytes of each file
  result,  \* of the last call, until the caller has taken it
  ok       \* the promise is kept

NoResult == [rc |-> "none", out |-> <<>>]

Init == files \in Volumes /\ result = NoResult /\ ok = TRUE

ClustersFor(bytes) == (bytes + ClusterSize - 1) \div ClusterSize

\* the clusters of the files S, by file and position
Slots(S) == UNION {{n} \X (1 .. ClustersFor(Len(files[n]))) : n \in S}

\* The other files leave the clusters that n needs for size bytes.
Fits(n, size) ==
  ClustersFor(size) + Cardinality(Slots(Nodes \ {n})) <= Capacity

\* s cut off or extended with zeros
Resized(s, size) ==
  [k \in 1 .. size |-> IF k <= Len(s) THEN s[k] ELSE "zero"]

\* s with buf at offset off
Written(s, off, buf) ==
  LET end == off + Len(buf)
  IN  [k \in 1 .. (IF end > Len(s) THEN end ELSE Len(s)) |->
         IF k \in off + 1 .. end THEN buf[k - off]
         ELSE IF k <= Len(s) THEN s[k] ELSE "zero"]

Reply(rc, out) == result = NoResult /\ result' = [rc |-> rc, out |-> out]

Truncate(n, size) ==
  \/ /\ Reply("ok", <<>>)
     /\ Fits(n, size)
     /\ files' = [files EXCEPT ![n] = Resized(@, size)]
  \/ Reply("ENOSPC", <<>>) /\ ~Fits(n, size) /\ UNCHANGED files

\* A write beyond the end that does not fit may still have zeroed the gap.
Write(n, off, buf) ==
  LET s == files[n]
      end == off + Len(buf)
      gap == IF off > Len(s) THEN Resized(s, off) ELSE s
  IN  \/ /\ Reply("ok", <<>>)
         /\ Fits(n, end)
         /\ files' = [files EXCEPT ![n] = Written(s, off, buf)]
      \/ /\ Reply("ENOSPC", <<>>)
         /\ ~Fits(n, end)
         /\ files' = [files EXCEPT ![n] = IF Fits(n, off) THEN gap ELSE s]

Read(n, off, len) ==
  LET s == files[n]
      last == IF off + len < Len(s) THEN off + len ELSE Len(s)
  IN  Reply("ok", SubSeq(s, off + 1, last)) /\ UNCHANGED files

Take == result # NoResult /\ result' = NoResult /\ UNCHANGED files

Operation ==
  \/ Take
  \/ \E n \in Nodes :
       \/ \E size \in 0 .. MaxSize : Truncate(n, size)
       \/ \E off \in 0 .. MaxSize, buf \in Buffers : Write(n, off, buf)
       \/ \E off \in 0 .. MaxSize, len \in ReadSizes : Read(n, off, len)

\* Once the promise is broken it says nothing.
Next == ok' => Operation

Spec == Init /\ [][Next]_<<files, result, ok>>

=============================================================================
