---------------------------- MODULE MCCloneFile ----------------------------
EXTENDS CloneFile

\* two regular files, one shorter, one on another device; a directory, a link
\* to each kind of file, a device, a socket, and a name that is gone
File(kind, data) ==
  [Fresh(kind, data, "all") EXCEPT !.owner = "she", !.times = "then", !.xattr = {"user", "cap"}]

MCInode == 1..8
MCInitially ==
  << [File("reg", <<11, 12, 13>>) EXCEPT !.suid = TRUE], File("reg", <<21>>),
     [File("reg", <<31, 32>>) EXCEPT !.dev = 1, !.xattr = {}],
     File("dir", <<>>), [File("link", <<91, 92>>) EXCEPT !.to = 1],
     [File("block", <<>>) EXCEPT !.dev = 2], File("other", <<>>), NoFile >>
MCSources == MCInode
MCContents == {<<41, 42, 43>>, <<>>}

Old == [Fresh("reg", <<81>>, "old") EXCEPT !.xattr = {"stale"}, !.suid = TRUE]
MCDests == {NoFile, Old, Fresh("dir", <<>>, "old"), Fresh("link", <<93>>, "all")}
MCAims == {NoFile, Fresh("reg", <<82>>, "aimed"), Fresh("dir", <<>>, "aimed")}

MCValues == {"me", "she", "private", "given", "old", "all", "aimed", "now", "then",
             "user", "cap", "stale"}

TwoBlocks == << File("reg", <<1, 2>>) >>
=============================================================================
