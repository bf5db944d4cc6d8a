------------------------------- MODULE MCWalk -------------------------------
(* Small file systems for Walk. *)
EXTENDS Walk

\* r/ { a/ { b/ { g }, x, m/ { y } }, f, l -> a }; m is on another device and
\* x is excluded where the run excludes anything
TreeNode == {"r", "a", "b", "g", "x", "m", "y", "f", "l"}
TreeKind == [n \in TreeNode |-> IF n \in {"r", "a", "b", "m"} THEN "dir"
                                ELSE IF n = "l" THEN "link" ELSE "file"]
TreeChildren == [r |-> {"a", "f", "l"}, a |-> {"b", "x", "m"}, b |-> {"g"}, m |-> {"y"}]
TreeTarget == [l |-> "a"]
TreeInode == [n \in TreeNode |-> n]
TreeDev == [n \in TreeNode |-> IF n \in {"m", "y"} THEN 2 ELSE 1]
PassAll == [n \in Node |-> "pass"]

\* r/ { a/ { u, s -> r }, b/ { h, t -> f }, f }; h and f are hard links of one
\* file, s and t lead to a directory above and to f; u is refused by the filter
LoopNode == {"r", "a", "b", "u", "s", "h", "t", "f"}
LoopKind == [n \in LoopNode |-> IF n \in {"r", "a", "b"} THEN "dir"
                                ELSE IF n \in {"s", "t"} THEN "link" ELSE "file"]
LoopChildren == [r |-> {"a", "b", "f"}, a |-> {"u", "s"}, b |-> {"h", "t"}]
LoopTarget == [s |-> "r", t |-> "f"]
LoopInode == [n \in LoopNode |-> IF n = "h" THEN "f" ELSE n]
OneDev == [n \in Node |-> 1]
LoopFilter == [n \in Node |-> IF n = "u" THEN "err" ELSE "pass"]

RootR == <<"r">>
RootFiles == <<"f", "h", "u">>
=============================================================================
