----------------------------- MODULE MCTreeClone -----------------------------
(* Small trees for TreeClone. *)
EXTENDS TreeClone

File(i, v) == [type |-> "file", ino |-> i, ver |-> v]
Dir(i, v) == [type |-> "dir", ino |-> i, ver |-> v]
Sym == [type |-> "symlink", ino |-> "sym", ver |-> "own"]

\* src: a/ { f, k }, b/ { p, q, l -> p }; p and q are hard links
\* dst: a/ { f, k, x }, g, where f and k are hard links; or a is a file
MCParent ==
  [n \in Name |-> CASE n \in {"f", "k", "x"} -> "a" [] n \in {"p", "q", "l"} -> "b" [] OTHER -> "root"]
MCSrc ==
  [n \in Name |-> CASE n \in {"a", "b"} -> Dir(n, "new") [] n = "f" -> File("f", "new")
                    [] n = "k" -> File("k", "old") [] n \in {"p", "q"} -> File("p", "new")
                    [] n = "l" -> Sym [] OTHER -> Absent]
MCTarget == [n \in {"l"} \cap Name |-> "p"]

MCBefore ==
  [n \in Name |-> CASE n = "a" -> Dir("dir", "old") [] n \in {"f", "k"} -> File("old", "old")
                    [] n \in {"g", "x"} -> File("other", "old") [] OTHER -> Absent]
MCFunny == [n \in Name |-> IF n = "a" THEN File("old", "old") ELSE Absent]

\* dst has nearly all: p is the same on both sides, and a hard link of f there;
\* l, which refers to it, is new, and q has changed
MCSame ==
  [n \in Name |-> CASE n = "a" -> Dir("one", "new")
                    [] n = "b" -> Dir("zero", "new") [] n \in {"f", "p"} -> File("two", "new")
                    [] n = "k" -> File("three", "old") [] n = "q" -> File("four", "old") [] OTHER -> Absent]
\* the same, but p has changed and q is new: two goroutines track one file
MCMixed == [MCSame EXCEPT !["f"] = File("five", "new"), !["p"] = File("two", "old"), !["q"] = Absent]

MCTrees == {MCBefore, MCFunny, MCSame, MCMixed}
MCFew == {MCBefore}
MCLinks == {MCSame}
=============================================================================
