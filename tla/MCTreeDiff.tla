----------------------------- MODULE MCTreeDiff -----------------------------
(* Small instances of TreeDiff: which entries there may be. *)
EXTENDS TreeDiff

CONSTANTS a, b

File0 == [type |-> "file", perm |-> 0, special |-> 0, size |-> 1, mtime |-> 0,
          uid |-> 0, gid |-> 0, xattr |-> {}, to |-> "none"]
Dir0 == [File0 EXCEPT !.type = "dir"]
Link0 == [File0 EXCEPT !.type = "symlink", !.to = "x"]

\* a varies in every attribute, b in kind
MCEntries ==
  [n \in Name |->
    IF n = b THEN {Dir0, File0, [File0 EXCEPT !.special = 1], Link0}
    ELSE {File0, [File0 EXCEPT !.size = 2], [File0 EXCEPT !.uid = 1], [File0 EXCEPT !.gid = 1],
          [File0 EXCEPT !.mtime = 1], [File0 EXCEPT !.perm = 1],
          [File0 EXCEPT !.xattr = {<<"k", 0>>}], [File0 EXCEPT !.xattr = {<<"k", 1>>}],
          Dir0, [Dir0 EXCEPT !.size = 2], Link0, [Link0 EXCEPT !.mtime = 1, !.to = "y"]}]
MCInfo == UNION {MCEntries[n] : n \in Name}
MCEqual == Info \X Info
=============================================================================
