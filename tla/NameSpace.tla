----------------------------- MODULE NameSpace ------------------------------
(***************************************************************************)
(* What the daemon promises of names: a tree of files and directories in   *)
(* which each call that succeeds makes its one change and each call that   *)
(* fails makes none.  Names that differ in case only are the same name.    *)
(***************************************************************************)
EXTENDS Sequences, SequencesExt

VARIABLES
  ns,   \* the names: a set of [path, isdir]
  call  \* the last call: [op, path, to, rc]

Present == {e.path : e \in ns}
IsDir(p) == p = <<>> \/ [path |-> p, isdir |-> TRUE] \in ns
Below(p) == {e \in ns : IsStrictPrefix(p, e.path)}

\* Every name is in a directory.
Init == \A e \in ns : IsDir(Front(e.path))

Make(p, isdir) ==
  /\ p \notin Present /\ IsDir(Front(p))
  /\ ns' = ns \cup {[path |-> p, isdir |-> isdir]}

Drop(p, isdir) ==
  /\ [path |-> p, isdir |-> isdir] \in ns /\ Below(p) = {}
  /\ ns' = ns \ {[path |-> p, isdir |-> isdir]}

\* The names at and below p move to q and replace what q was.
Move(p, q) ==
  LET moving == {e \in ns : IsPrefix(p, e.path)}
      there(e) == [e EXCEPT !.path = q \o SubSeq(@, Len(p) + 1, Len(@))]
  IN /\ p \in Present /\ IsDir(Front(q)) /\ ~IsStrictPrefix(p, q)
     /\ p # q /\ q \in Present => IsDir(p) = IsDir(q) /\ Below(q) = {}
     /\ ns' = {there(e) : e \in moving}
              \cup {e \in ns \ moving : e.path # q}

Done ==
  \/ call'.op \in {"mknod", "create"} /\ Make(call'.path, FALSE)
  \/ call'.op = "mkdir" /\ Make(call'.path, TRUE)
  \/ call'.op = "unlink" /\ Drop(call'.path, FALSE)
  \/ call'.op = "rmdir" /\ Drop(call'.path, TRUE)
  \/ call'.op = "rename" /\ Move(call'.path, call'.to)
  \/ /\ call'.op \notin {"mknod", "create", "mkdir", "unlink", "rmdir", "rename"}
     /\ UNCHANGED ns

\* A call fails for the reason it gives.
Failed ==
  /\ UNCHANGED ns
  /\ call'.rc = "EEXIST" => call'.path \in Present
  /\ call'.rc = "ENOENT" => call'.path \notin Present
  /\ call'.rc = "ENOTEMPTY" => Below(call'.path) # {} \/ Below(call'.to) # {}
  /\ call'.rc = "EINVAL" => IsStrictPrefix(call'.path, call'.to)
                            \/ call'.path = call'.to
  /\ call'.rc = "EISDIR" => IsDir(call'.path)
  /\ call'.rc \notin {"EIO", "ENOMEM"}

Next == IF call'.rc = "ok" THEN Done ELSE Failed

Spec == Init /\ [][Next]_<<ns, call>>
=============================================================================
