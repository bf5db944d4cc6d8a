# Verification of go-fio

go-fio is a Go library for file operations: it walks file trees concurrently,
compares two trees, makes one tree like another, copies files and their
metadata, and writes files atomically. This directory holds TLA+ modules that
model its concurrent and stateful parts, TLC configurations that check them on
small instances, and proofs, checked by TLAPS, that hold for every instance.

Each section names source files relative to `src/`. Line numbers are those of
the commit this project was written for; `PROJECT.json` maps every definition
to its lines.

## 1. Inventory

| Component | Source | State | Operations |
|---|---|---|---|
| WorkPool | `workpool.go` | channels `ch` and `ech`, WaitGroups `wg` and `ewg`, the flag `stopped`, `errs` | `NewWorkPool`, `Submit`, `Close`, `Wait`, `Err`; worker goroutines, a harvester |
| walk | `walk/walk.go` | channel `ch` of directories, `dirWg`, maps `ino` and `fs`, channels of entries and errors | `Walk`, `WalkFunc`; workers, `enq` goroutines |
| SafeFile | `safefile.go` | the temporary file, `err`, the atomic `closed` | `NewSafeFile`, `Write`, `WriteAt`, `Close`, `Abort` |
| cmp | `cmp/cmp.go`, `cmp/engine.go` | maps `lhs`, `rhs`, `done`, eight result tables | `FsTree`, `Diff`; two walks, then two pools |
| clone.Tree | `clone/tree.go`, `clone/hardlink.go` | the Difference, `cc.dirs`, the hardlinker's `m` and `links` | `Tree`; three pools, four submitting goroutines, `fixup` |
| clone.File, metadata | `clone/file.go`, `clone/meta_unix.go`, `utimes`, `mknod` | the Info of the source, taken once | `File`, `Metadata`, `UpdateMetadata` |
| Copy | `copyfile.go`, `copy_*.go` | offsets of a copy loop | `CopyFile`, `CopyFd` |
| Marshaling | `encdec.go`, `info_marshal.go`, `xattr_marshal.go` | a buffer, positions in it, the Info that is read into | `MarshalTo`, `Unmarshal`, `MarshalSize` |
| Info, Xattr | `info*.go`, `xattr.go` | attributes of one file | `Lstat`, `CopyTo`, getters, setters |
| Maps, errors | `fiomap.go`, `errors.go` | wrappers of `xsync.MapOf` | `Load`, `Store`, `Range` |

How they interact:

```
clone.Tree --> cmp.FsTree --> walk.WalkFunc (two at once, one per tree)
     |              |
     |              +--> WorkPool (left names), then WorkPool (right names)
     +--> WorkPool (new directories), WorkPool (copy, delete), WorkPool (hard links)
              |
              +--> clone.File --> SafeFile --> copy loop;  metadata
```

Calls go down; what comes up is a channel of entries (`Walk`), a callback run by
several walkers at once (`WalkFunc`), a set of joined errors (`Wait`). Shared
state is in concurrent maps and in the file system.

What is hard, and what makes each component correct:

* **WorkPool.** Workers block on `ech`, submitters on `ch`, `Wait` on two
  WaitGroups and on the harvester. Correct: an accepted unit is run once; `Wait`
  is a barrier, comes back, and returns every error; nothing is sent on or closed
  after a close.
* **walk.** Workers are the producers and the consumers of one bounded channel,
  and a WaitGroup tells when it may be closed; symlinks make cycles. Correct:
  it ends; the count never reaches zero too early; parents come before their
  entries; each entry, or each inode, comes once; nothing is missing but what was
  reported.
* **SafeFile.** Every system call can fail, `Abort` may come from another code
  path at any moment, and the machine may go down. Correct: the real name never
  refers to a part of a file; `Close` says what happened; no temporary file stays.
* **cmp.** Two pools, the second of which reads what the first has written.
  Correct: each name ends in the one table its two entries call for.
* **clone.Tree.** Three pools in a row; in the second, copies and deletions in
  one directory in any order; hard links remembered by two goroutines; metadata
  of directories that must come last. Correct: after a nil result `dst` mirrors
  `src`; what was the same stays what it was; hard links are kept.
* **clone.File and copying.** A dozen system calls in a row, each of which may
  fail, three ways to copy data, and a source that others change; the source is
  looked up by name where its descriptor is meant. Correct: nil means all data
  and all metadata; after an error the destination is what it was, or whole; a new
  file gives nobody more rights than it will have.
* **Marshaling.** Sizes are computed apart from the bytes, and one Info is used
  for many reads. Correct: a stream is read back in order, and a stream that is
  cut off loses only what did not arrive.

`PROJECT.json` lists the hazards with their lines and the properties that
watch them.

## 2. Modules

| Module | Models | Uses |
|---|---|---|
| `Pool` | what a WorkPool promises (abstract) | |
| `WorkPool` | the pool, one action per channel, atomic or WaitGroup operation | refines `Pool` |
| `Walk` | `Walk` and `WalkFunc` | |
| `AtomicFile` | what a SafeFile promises (abstract) | |
| `SafeFile` | several SafeFiles for one name, their users, the file system, crashes | refines `AtomicFile` |
| `TreeDiff` | `cmp.FsTree` and `cmp.Diff` | `Pool` for its two pools |
| `CloneFile` | one call of `fio.CopyFile`, `clone.File` or `clone.Metadata`, and somebody who changes the source | commits as `AtomicFile` says |
| `Marshal` | a stream of Infos, marshaled and read back | |
| `TreeClone` | `clone.Tree`, the hardlinker, `clone.File` as an entry and its metadata | `Pool` for its three pools; the tables of `TreeDiff`; files appear at once, as `AtomicFile` says |
| `MC...` | the constants of the checked instances | the module it names |
| `...Proofs`, `TreeCloneMirror` | theorems and proofs | the module they name; the last continues `TreeCloneProofs` |

The composition is by promise: `TreeDiff` and `TreeClone` step the abstract
`Pool` (`WP == INSTANCE Pool`), and `WorkPool_protocol` checks that the real pool
implements it when it is used as these two use it (`Disciplined`: submitters are
joined before `Close`, and `Wait` follows `Close`). `TreeClone` takes a comparison
as one step whose result is what `TreeDiff!Sorted` says, and a file copy as one
step, as `SafeFile!AtomicSpec` and `CloneFile!OldOrNew` say, and the update of its
metadata as another, as `CloneFile!MetaCloned` says. `CloneFile`, in turn, takes the
`Close` of its SafeFile as one step.

### WorkPool

The state is the fields of the struct and a program counter per goroutine.
`Recv`, `RangeEnd`, `RunItem`, `ReportItem`, `SendErr` are the worker's loop;
`Harvest`, `HarvestEnd` the harvester's; `SubmitCheck` and `SubmitSend` are the
load of `stopped` and the send in `Submit`; `CloseSwap`, `CloseChan`, `WaitWorkers`,
`WaitClose`, `WaitHarvest`, `ErrCheck`, `ErrSend` are the methods of those names.
A channel is a sequence and a flag. A panic that nobody recovers ends the
process; `fatal` holds its name. A work function ends in one of five ways
(`Outcomes`): well, with an error, with an error it gave to `Err`, with a panic
of an error value (which the deferred `recover` sends on `ech`, after which the
worker's `wg.Done` is never reached), with a panic of another value (whose type
assertion panics again). `errs` is read when `Wait` returns; `Err` may only race
it in `WorkPool_any`, which does not read it.

### Walk

Agent 0 is the goroutine that calls `Walk` or `WalkFunc`, the others are workers;
both process a name by the same actions (`Name`, `Look`, `Resolve`, `LookTarget`,
`OutputEntry`, `SendErr`, `Enq`), which are `walkPath` and `doWalk`. `StatDir`,
`OutputDir`, `ReadDir`, `Done` are the worker around them. The names the `enq`
goroutines hold are one bag, `enqd`: each goroutine sends its names in the order
the directory listed them, which is any order, so together they may send any
name next. The file system is constants (a tree of nodes with kinds, inodes,
devices, targets of symlinks); it does not change. `FileSystem` states what every
file system guarantees of path names: one directory lists a name, the chain of
directories above it ends, and the names of an inode have one kind. The Info that `doSymlink`
overwrites while the inode map still refers to it is the value "changed".

### SafeFile and AtomicFile

Data is counted in chunks: `n` accepted by the file system, `torn` if a part of
one follows, `synced` on disk. `Stat`, `Open` are `NewSafeFile`; `WriteCheck`,
`WriteData` are `Write`, and `WriteCheck`, `WriteOver` are `WriteAt` at an offset where
data is already (which, unlike `Write`, leaves `sf.err` alone when it succeeds);
`CloseCheck`, `CloseSwap`, `Sync`, `FClose`, `Rename` are
`Close`; `AbortSwap`, `CleanupClose`, `CleanupRemove` are `Abort` and the deferred
cleanup. An owner calls its methods in program order and always defers `Abort`;
a goroutine that is not an owner calls once, at any time. `Crash` loses any
suffix of a file that was not synced, and may bring back any earlier target of
the name, since the directory is never synced.

### TreeDiff

`tree[s]` is the file system under each root, `map[s]` the names stored by the
walks (`Store`, `WalkEnds`), `table` the eight maps of the Difference. `LhsLoad`
and `LhsCompare` are `lhsDiff` before and after the store in `done`; `RhsLoad` is
`rhsDiff`. The comparison functions are translated one to one: `SameMode`,
`FileEq`, `XattrEqual` (whose second loop ranges over the first map again), and
`Deep`, the caller's function, is a constant relation.

### TreeClone

`dst` is the tree being changed, `before` what it was, `table` the Difference. `pc`
is the phase of `Tree`; `SubmitDir`, `SubmitDel`, `Track`, `Remember`, `SubmitLink`
are the submitting goroutines (`Track` and `Remember` are the `Load` and the `Store`
of `hardlinker.track`); `Make` and `Update` are `File` up to and from the metadata;
`Delete`, `Unlink`, `Link` are the other units; `Fixup` is one directory of the
final loop, an error of which is kept to the end. `Vanish` is somebody else who deletes from the source. A change of a
directory's entries sets its `ver` to "now"; `Meta` sets it to that of the source.
`modified` is `cc.dirs`, all shards together; a worker whose index has no shard
panics in `PastShards` and its unit is lost. The trees are assumed to be trees, and
the names of one file in the source to have the content of one file.

`linkMode` is the set of files in `dst` that have got the mode of a symbolic link:
`clonemode` follows the link that `File` has just made (`Chmoded`). Of modes nothing
else is modelled, since cmp does not compare them. `Target` gives each symbolic
link the name it refers to, in the tree and itself no link.

### CloneFile

`pc` is the next system call. `Lstat` and `WayOf` are the switch of `File`; `Mkdir`,
`Symlink`, `Mknod` make what is not a regular file; `Open`, `StatSrc`, `Create` are the
beginning of `sysCopyFile` and of `copyRegular`; `CloneRange`, `Size`, `Range`, `RangeEnd`
are `sysCopyFd`; `Map`, `Block`, `BlocksEnd` are `copyViaMmap`; `Clear`, `SetXattr`,
`Lchown`, `Chmod`, `Chtimes` are `updateMeta`. Data is a sequence of blocks; a file is
a record of what the calls change. The kernel is modelled where the code depends
on it: `copy_file_range` transfers any number of blocks and advances the offsets it
is given; chown clears the setuid bit and drops capabilities; a page that is no
longer in a mapped file makes write(2) fail, which is the only reader of the
mapping; `mknod` without type bits makes a regular file. `dst` may be a symbolic link
at first, and `aim` is what it refers to, if that exists: `MkdirAll`, the `Stat` of
`NewSafeFile`, `Chmod` and `Chtimes` follow it (`Reached`, `Reach`), while the rename,
the owner and the attributes are those of the link itself. `src` is the inode the name refers to and `s` the inode
that is open: `Fstat` in this code is an `Lstat` of the name, so the two may differ.
`Change` is somebody who writes to a source file or renames another one over it.
`Values` are what owners, modes, times and attributes may be, a constant that the
code never looks into.

### Marshal

A byte is a digit to `Base`; a uint32 has `W32` of them and a uint64 `W64`. Encoders
are functions from a value to a sequence of bytes, decoders return what they
read and how many bytes. `MarshalTo` puts Infos one after the other into a buffer
that is not empty at first; `Arrive` is the loss of what comes after some byte;
`Unmarshal` is called again and again with the same Info, whose attributes are `di`.

`Infos` is any set of Infos that have an encoding (`Marshalable`): numbers of the
width their Go type has, times that `enctime` can express (from 1970 on, for 584
years, as its comment says), and lengths that a uint32 holds, which the code cuts
off unchecked. The loop of `Xattr.Unmarshal` is a function of the number of its
iterations, one of which is `NextPair`.

## 3. What is checked

Bounds are constants of the configurations; nothing else is bounded but
`MaxWrites` in `SafeFile` (calls of `Write` per owner), `MaxChanges` in `CloneFile`
(what somebody else does to the source) and the counter `emitted` in `Walk`, where 2
stands for "more than once".

| Run | Question | Instance |
|---|---|---|
| `WorkPool_protocol` | Used as cmp and clone use it: does it implement `Pool`, without a panic, with every error, and does `Wait` return? | 2 workers, 3 units from 2 submitters |
| `WorkPool_any` | Whatever is called when: is work lost or run twice, does a worker meet a closed `ech`? | 2 workers (`nworkers` 0 on 2 cpus), 2 units, 2 `Close`, 2 `Wait`, 1 `Err`, every outcome |
| `Walk_tree` | Is the output of `Walk` complete, exact, parents first, and does it end? | 9 names, 2 workers, an exclusion, a mount point, a directory that may fail |
| `Walk_loop` | Does `WalkFunc` end on a cycle, with each inode once? | 8 names, 2 workers, a cycle, hard links, a link that may fail, failing callbacks, a bad pattern |
| `SafeFile_atomic` | Is the name ever a part of a file, does `Close` tell the truth? | 2 SafeFiles, 2 owners, 1 aborter, every call may fail, crash, 2 writes |
| `TreeDiff_trees` | Is every name in the right table in every order? | all pairs of trees of 2 names: one with 12 entries (each attribute), one with 4 (each kind) |
| `TreeClone_tree` | Does `dst` become `src`, in every order of the workers? | 8 names, 4 trees `dst` may be at first: new, changed, same and extra files, hard links on both sides, one file with a new and a changed name, a symlink that is new, also to a file that is the same, a name that vanishes, failures; 2 cpus and 1 shard |
| `CloneFile_calls` | Does nil mean a whole copy with its metadata, and an error a destination that is whole? | 8 sources (each kind, 1 to 3 blocks, another device), 4 destinations, one of them a link to nothing, to a file or to a directory, chunks of 2 blocks, every call may fail, 2 changes of the source |
| `Marshal_stream` | Is a stream read back as it was written, wherever it is cut? | 3 Infos (numbers at both ends of their range, 0 to 2 attributes, paths of each shape), with and without directories, room for two at a time |
| `CloneFile_large` | *fails*: is a file of more than one chunk copied? | 2 blocks, chunks of 1, no reflinks |
| `TreeDiff_common` | *fails*: are the entries of `CommonFiles` identical? | 1 name |
| `TreeClone_delete` | *fails*: is there no difference after `Tree`? | 3 names |

Why the bounds are enough to be of use. Every channel has capacity two or one
and more goroutines or items than that, so that each blocks; two workers are
needed for every race in this code and each race named in the hazards is between
two goroutines; the counter `wg` passes through every value from 2 to 0. Units,
names and chunks are treated alike by the code, so that a third one only repeats
what two do, except for `ch` being full (three units, two slots). The trees have
a node for each branch of the code that handles them. `SafeFile` needs two
writes: one that is good before or after one that is torn. `CloneFile` needs three
blocks and chunks of two: the loop runs up to three times, after transfers that
are short and whole; two changes suffice for a file to be replaced and then
written to. `Marshal` needs two Infos in the buffer, so that an end of one is a
start of another, and a used Info. The proofs below
remove the bounds for the safety properties they cover.

The three runs that fail, on purpose, show where the code does not do what its
documentation or tests say. They are described under "findings" in
`PROJECT.json`.

### Properties worth a word

* `WorkPool!PoolSpec` needs `ewg`: without the wait for the harvester the last error
  is missing from `errs` (`NoLostErrors`, which it implies; a panic, `NoCrash`, would
  keep `Wait` from returning, so that `WaitReturns` excludes it). `PoolSpec` includes
  liveness: when the abstract pool may return, the real one does.
* `Walk!Complete` compares the output with the least set that contains the names
  given and is closed under the listing of directories that did not fail. With
  `IgnoreDuplicateInode` one name per inode is enough. With `OneFS` the file systems
  meant are those of the names given that could be looked at.
* `TreeClone!Mirror` and `HardLinks` leave `Aside` names that were deleted from the
  source meanwhile, and with them a hard link of such a name (`Stale`, section 6).
* `Walk!ParentFirst` and that `OnlyExpected` excludes doubles are claimed for trees (no symlinks followed,
  no name given that is under another).
* `SafeFile!CloseTruth` speaks of both directions: nil only if the rename
  happened, an error only if it did not.
* `TreeClone!DirsFixed` leaves out two kinds of directories, those something was
  deleted from and those that had the right mtime and lacked a directory: these
  the code does not fix, which `TreeClone_delete` shows for the first.
* `TreeClone!Untouched` says of a file that is the same on both sides that it stays
  the same inode with the same content, size and mtime, whatever names `dst` and
  `src` have for it, and of its mode only that nothing but a symbolic link changes
  it: one that is new in `dst` and refers to the file or to another name `dst` has
  for it. That the mode should stay, too, is `Skipped`, which is false (section 6).
* `TreeClone!HardLinks` claims that names are linked if all names of the file
  are new, or all have changed. For a mixture the code copies: the names in
  `CommonFiles` are not asked. Nor does it say anything of a file with a new and a
  changed name, whose two goroutines race in `hardlinker.track`; one of the trees of
  `TreeClone_tree` has one, so that `Mirror` covers every outcome of the race.
* `TreeClone!Returns` makes an exception of a worker lost for want of a shard, and
  the run has one: that it hangs then is what the code does.
* `CloneFile!Faithful` holds although the copying loop skips blocks: after a first
  transfer that is not the whole, some later one starts past the end, transfers
  nothing and ends in an error. The check of `m == 0` is all that keeps a file with
  a hole from being committed; the mutant drops it. If the source is a directory
  and `dst` a link to one, the link stays, with nil.
* `CloneFile!MetaCloned` has two exceptions, both faults of the code: an error of
  clearing attributes is dropped with the attributes, and the owner is set after
  the attributes, which loses capabilities. If `dst` is a link, as it may be for
  `Metadata` and for `File` of a directory, owner and attributes are set on the
  link, mode and times on its target: the property says so.
* `CloneFile!NeverExposed` is about the order of the updates: the temporary file is
  private, and the mode, with its setuid bit, comes after the owner. It is about
  `dst` itself, not about what a link refers to (section 6).
* `Marshal!NothingLost` relates three computations of one length: the one that is
  written, the one `MarshalTo` returns and the one `Unmarshal` returns.

### Fairness

Each goroutine of `WorkPool` and `Walk` is weakly fair: the Go scheduler runs every
goroutine that can run, and a receive or send on a channel that stays possible
is made. No strong fairness is needed: a worker that waits for the channel
competes with others, and any of them makes progress. The receivers of `Walk` are
fair because its comment obliges the caller to service the channels. `TreeDiff`
and `TreeClone` have one weak fairness condition on all steps of the program
together, since none of them can be taken for ever; `Vanish`, which the program
does not do, has none. `SafeFile` has no liveness property: its calls are
straight-line code. Nor have `CloneFile`, whose loops end because what is left to
copy shrinks (a deadlock is checked for), and `Marshal`. Every run of which the
system is a complete program checks for deadlock; `WorkPool_any` does not, nor
`TreeClone_tree`, in which a lost worker stops it for good (there `Returns` says that
nothing else does).

## 4. What is proved

All theorems are for every value of the constants that satisfies the module's
`Assumptions`.

* **`WorkPoolProofs`** - `TypeCorrect` (`wg` never negative), `BarrierHolds`,
  `EchOpenForWorkers`, `ConservationHolds`, `ErrorsGenuineHolds`. They hold for any calls,
  disciplined or not, any number of workers, and any outcome. `Barrier` alone is
  not inductive: the invariant (`CountInv`, `Ledger`) adds that `wg` is the number of
  workers that have not left the loop, that a worker leaves only when the channel
  is closed and empty, and, for each unit, the single place where it is. The last
  gives `Conservation`. `ErrInv` is a ledger of errors: each is in `errs`, in `ech`, or
  owed by the one goroutine that is about to send it; `Seen` joins the two
  sequences, so that the harvester changes nothing.
  Under `Protocol` (`Disciplined`, at most one goroutine that calls `Close` and one that
  calls `Wait`, no calls of `Err`, outcomes without a panic: what cmp and clone do)
  also `NoCrashHolds`, `NoLostErrorsHolds` and `ImplementsPool`: every step of WorkPool is a step of `Pool` or leaves it alone. The
  additional invariant `ProtoInv` says who may still be at a channel when it is
  closed, and that every error raised is seen or about to be. Without `Protocol` the
  first two are false (section 6).
* **`WalkProofs`** - for every file system, all options, any number of workers:
  * `TypeCorrect` (only directories are queued), `Balanced`, `ChannelsOpen`. The
    invariant adds what a program counter says about `cur` and `at`, and that a
    channel is closed only in the last phase, in which `dirWg` is zero. `Balanced`
    then says that nobody is left who could send. The proof is about
    cardinalities: `Busy` gains and loses one worker at a time.
  * `ParentFirstHolds` and `OnlyAsked`, from `FoundInv`: what a goroutine or a queue
    holds is among the names given or in a directory that was output, and passes
    the options (`Listed`, `Admitted`, `Found`).
  * `OncePerInodeHolds`, from `InodesInv`: for each inode there is one ticket, held by
    the goroutine that stored it, then by a queue, then by the output; whoever
    finds the inode stored gets none. The inode of a symlink that is followed is
    "changed" and gives out tickets freely, which is harmless because only
    what it resolves to is output.
  * `OnlyExpectedHolds`, under `Separate` (no symlinks followed, the names given are
    not below one another and given once), from `NodesInv`: again one ticket, now
    for everything at, above or below a name (`Above`, `Below`), which goes down the
    tree as directories are read. No record of what was output is used; that path names form a
    forest is (`FileSystem`).
  * `CompleteHolds`, under `Regular`, from `CoverageInv`, which is the converse of
    `FoundInv`: there is a set `R` of directories that were read such that each name
    given, and each name in a directory of `R`, is still to be looked at, being
    resolved, queued, in the output, reported, or need not be (`NameOK`). With
    `IgnoreDuplicateInode` a name that is skipped is covered by the name that was
    stored (`StoredOK`), and with `OneFS` a directory that a worker does not enter is on
    none of the file systems that Main tracks (`TrackInv`): workers start only when
    Main has tracked them all, since until then nothing is queued. At the end nobody
    holds anything, so that `R` and the output contain `Expected`. `Regular` excludes
    the options under which `Complete` is false (section 6): with `OneFS`,
    a symlink given that leads to a directory; with `IgnoreDuplicateInode`, a file of
    which one name is refused by the filter and another is not, and directories or
    followed symlinks with two names. Both instances that are checked satisfy it.
* **`SafeFileProofs`** (with `WriteAt`) - `TypeCorrect`, `AtomicHolds`, `SealedHolds`, `CloseTruthHolds`
  and `Implements`: SafeFile implements AtomicFile, step by step. They assume
  `OnlyAborts` (`OtherOps \subseteq {"abort"}`): goroutines other than the owner
  may abort at any moment and not close. Without it `CloseTruth` is false: with
  `OtherOps = {"close"}` TLC shows a second `Close` that returns nil while the
  first one still syncs. The invariant says what an owner knows at each program
  counter (`Stages`: past the swap no one else cleans up, `err` is nil up to the
  rename) and how `n`, `acked`, `synced` and `torn` hang together (`Whole`).
  `TmpGoneHolds` needs no such assumption: a temporary file that exists is
  somebody's to remove, the owner's as long as `closed` is 0, then that of whoever
  won the compare-and-swap (`Cleaner`).
* **`TreeDiffProofs`** - `TypeCorrect`, `SeenWholeHolds`, `PartitionHolds`,
  `SortedHolds`, `ReflexiveHolds`, for any trees, names and attributes. The
  invariant says for each phase which names are in a table (those the pool has
  finished, after the first phase also all on the left) and that `done` holds
  exactly the marked and finished names with one mode on both sides: this is
  what makes the second pool right in not looking at the left map.
* **`TreeCloneProofs`** - `Inductive`, the invariant the next module builds on. Its heart is `Kept`: an
  entry that is the same on both sides stays what it is. The assumption used of the trees is
  `TreeOK`, that what exists is in a directory that exists: this is why nothing
  below a deleted name is in the source, and why what a worker tracks is never a
  file. The invariant says from which tables the units of each pool come
  (`Units`), that a submitting goroutine which is about to store a name in `m` holds
  the pool open (`Held`, `Joined`), and that `cc.dirs` has directories only
  (`Modified`). Linking needs the first: the names put aside are never those of
  `CommonFiles`.
* **`TreeCloneMirror`** - `TypeCorrect`, `UntouchedHolds`, `MirrorHolds`: after nil, `dst` has the entries of
  `src` and no others. `Mirror` speaks of the end only; `MirrorInv` says of each name,
  at each step, of which kind it is (`KindOf`), why `dst` does not have it yet
  (`LackOf`), and what is already as in the source (`StateOf`). It needs that the pools
  come one after the other: when `Wait` has returned, every unit is finished or in
  `failed`, and then `Tree` returns its error (`Waited`). `Stored` says what the
  hardlinker holds: a link is made to a file that has been copied by then.
  `UntouchedHolds` adds `ModeInv`: an inode in `linkMode` is one this program made or
  one that a new symbolic link refers to (`Referred`), and until links are made a name in
  `dst` has the inode it had before or one this program made (`Origins`). The chmod comes after the link was
  made, when its target may have been replaced: what it finds there is either the
  file from before or one that no name in `CommonFiles` has.
  `HardLinksHolds` and `DirsFixedHolds` are in its second half. The first rests on `Sole`:
  the names of a file that are in one table pass one goroutine, which stores the
  first before it looks up the second. The second rests on `Stamped`: a directory
  that has not its mtime is in `modified`, or a unit is unfinished that will put it
  there, or it is itself a unit. Doing this proof showed that an error of `fixup` must
  be remembered by the model as it is by the code.
* **`CloneFileProofs`** - `TypeCorrect`, `FaithfulHolds`, `OldOrNewHolds`,
  `MetaClonedHolds`, `NeverExposedHolds`, for any files, contents, chunk sizes,
  failures and changes of the source. `Ways` says which call can be where, `Staged`
  that `dst` is untouched until the commit, `InTmp` how `off`, `sz` and the data in the
  temporary file hang together while the source is `Steady`: the offset is twice
  what has been copied, since the code adds it once more to the one the kernel has
  advanced, so that after a short transfer the end is passed before the data is
  complete, and only `m == 0` can follow. `Updated` and `Guarded` say which updates of the
  metadata are done at each place. `dst` and what it refers to are any files: that a
  link stays in place only for a directory, and that nothing is written through
  it, is part of what is proved.

* **`MarshalProofs`** - `RoundTrip`, `InOrderHolds`, `NothingLostHolds`, for any base, widths,
  room, contents of the buffer and Infos of which `AllMarshalable` holds. The
  invariant `Inv` says that the k-th Info that was marshaled stands in the buffer
  from the end of the one before it (`Stands`: some `Encoded` of it is `Placed` there,
  the attributes in some order), that later ones do not touch it, and that the
  reader is always at the end of an Info. The properties alone are not inductive:
  they do not look into the buffer. `EncodedLayout` says where each field stands,
  `NumberOfDigits`, `TimeRoundTrip`, `XattrRoundTrip` and `FieldsRoundTrip` that it is
  read back from there, and `XattrLayout` that the sizes of the attributes add up to
  `XattrSize` whichever is written first, so that what `MarshalSize` promises is what
  is written, but for the last byte. `CutOff` says that an Info of which a byte is
  missing is refused for its length, before the version is looked at.
  What the recursive definitions compute needs induction over data, for which the
  library's theorems take an operator and cannot be used. `Induction` and `Recursion`
  state it of sets and functions instead; they follow from `Least`, and that from
  the well-foundedness of the strict subsets of a finite set, which the library
  states without an operator.

Only model-checked: every liveness property (`WaitReturns`, `Termination`, `Returns`, and
the fairness that is part of `PoolSpec`), outside the prover's reach.

`Sealed`, `Reflexive` and `OnlyAsked` are proved and not in a run. The proved modules
have no recursive operators.

## 5. What is not modelled

* The methods of `*os.File` that SafeFile inherits by embedding and that bypass
  `sf.err` (`Seek`, `Truncate`, `ReadFrom`): `CloneFile` writes by them, and models what
  they do, not their race with `Abort`.
* Owners, permissions and attributes in `TreeClone` (they are in `CloneFile`), except
  what a chmod through a symbolic link changes; symbolic links that lead out of the
  tree or to other links. The Observer of cmp and clone.
* The getters and setters of single attributes, and `Info`'s accessors: wrappers of
  one system call or field. `fiomap.go`, the error types and `Error` strings.
* Data races as such: where two goroutines touch memory without synchronisation
  (`walk.go:511` against `:552`; `sf.err` under two `Close`) the outcomes are modelled,
  not torn values.
* Other platforms: the code for Linux is modelled. On darwin `sysCopyFd` is one system
  call; elsewhere `copyViaMmap` alone, which is modelled.

## 6. Other disagreements seen

Met while reading and not made into runs. With a constant to see them:

* `WorkPool_any` reaches, under `fatal`, "send_on_closed_ch" (`Submit` races `Close`,
  `workpool.go:141-144`), "send_on_closed_ech" (`Err` after `Wait`, `:150`),
  "close_of_closed_ech" (two `Wait`, `:119`; the comment calls it an error, but
  `ErrCompleted` is never used), "panic_in_recover" (`:86`).
* `WorkPool` with one unit, `Outcome = {"ok", "panic"}`, `Disciplined = TRUE` and
  `CHECK_DEADLOCK FALSE` violates `WaitReturns`: a panic that is recovered (`:84-90`)
  skips `wp.wg.Done()` (`:98`), and `Wait` hangs, though it "waits for all workers to
  end" (`:114`).
* `Walk` with `ViaChan = TRUE`, `Names <- RootFiles` and `Concurrency = 2` violates
  `Termination`: `Walk` runs `doWalk` over its names before it returns the channel
  (`walk.go:171`, `:182`), and blocks if there are more files than the channel holds;
  the caller who "must service the channel" (`:155-157`) has none yet.
* `SafeFile` with `Overwrite = {f2}`, `Before = {"none"}` violates `NoOverwrite`: without
  `OPT_OVERWRITE` the name is looked up once, in `NewSafeFile` (`safefile.go:69`), and a
  file made since then is lost by the rename (`:226`).
* `TreeClone_tree` without the exception in `Returns`: with `Concurrency` 1 there is one
  shard of `cc.dirs` but as many workers as cpus (`tree.go:190`, `:240`, `:314`), and
  `Tree` hangs. With `Concurrency = 0`, which `WithWalkOptions(walk.Options{})` gives,
  it panics at `:220`: cmp replaces the 0 by the number of cpus in its own copy only.
* `SafeFile` with `OtherOps = {"close"}`: see section 4.
* `Walk` with a symlink to a directory as the only name, `FollowSymlinks` and `OneFS`
  violates `Complete`: `doWalk` tracks the file systems of directories it is given
  and not of what symlinks lead to (`walk.go:310-316`), so that nothing is output.
  The comment of `trackFS` has it called "once for each entry passed to Walk()".
* `Walk_loop` with a `Filter` that refuses `f` violates `Complete`: the first-seen name of
  an inode suppresses the others even if the filter then refuses it (`walk.go:299-308`).
* `TreeClone` without `Stale` in `Mirror`: two names of one file in the source,
  both different in `dst`, `IgnoreMissing`, and the first vanishes before it is copied. The second is
  then linked to the old file of the first in `dst`, and `Tree` returns nil
  (`tree.go:276`, `:418-421`).
* `CloneFile` without the premise `Steady` in `Faithful`: `CopyFile` of a symbolic link
  opens what it points to and asks for the size of the link
  (`copy_linux.go:39`, `:92`; `info.go:123`), so that the copy is cut off with a nil
  result; the same if the source is replaced or grows meanwhile.
* `CloneFile` without the exception `unlisted` in `MetaCloned`: `xattr.go:181-183`
  returns nil when attributes cannot be cleared. Without `Caps`: chown comes after
  the attributes (`clone/file.go:126-131`).
* `TreeClone_tree` with `Before <- MCLinks` violates `Skipped`: `os.Chmod` follows the symbolic
  link that was just made (`clone/file.go:148`), so that a file that is the same on
  both sides gets the mode of the link, though `clone` is "skipping over identical
  files" (`README.md:18-19`), and `Tree` returns nil.
* `TreeClone`, `outside`: a deletion at the top level tracks the directory above
  `dst`, and `fixup` gives it the metadata of the directory above `src`
  (`tree.go:359-375`).

By reading only:

* `walk.go`: Filter and Excludes are not asked about what a symlink resolves to
  (`:517-528`, against `:82-86`); without `IgnoreDuplicateInode` a symlink cycle is
  followed for ever.
* `safefile.go`: the check for `O_RDONLY` (`:83`) can never be true; the directory is
  not synced.
* `clone/tree.go`: "delete first" and "delete last" (`:249-250`) run concurrently; the
  parent of a new directory is not tracked. With `IgnoreMissing` a hard link whose
  original vanished removes the old file and then fails (`:417-419`, against
  `:84-86`).
* `clone/file.go:148`: with `dst` a symbolic link, `Metadata` gives its target the mode,
  with a setuid bit, and not the owner. `mknod_unixish.go:25`: Go's mode bits are not the kernel's, so
  that a regular file is made, with nil; the device given is that of the file, not
  of the node; character devices are refused (`file.go:79`).
* `copy_linux.go:30` promises a "safe fallback to mmap" and `:98` falls back to
  copy_file_range only; an error of it is final.
* `cmp/cmp.go:281`: `Concurrency/2` is 0 for 1, which means every cpu.
* `info_marshal.go:45` counts the version twice: the last byte is never written.
  Times before 1970 are not restored, as `encdec.go:91` says. `info.go:128-142`:
  `CopyTo` keeps stale attributes.

## 7. Plan

Done, in this order: Pool and WorkPool, Walk, AtomicFile and SafeFile, TreeDiff,
TreeClone, CloneFile, Marshal, and the proofs of section 4: every safety
property of a run, and the steps of the refinements. Next:

1. `WorkPool`: which calls beyond `Protocol` keep `NoCrash` (several `Wait` do not, `Err`
   before `Close` does).
2. That `CloneFile` and `TreeClone` together implement what each takes from the other
   (section 2) is a matter of reading the two; a refinement mapping would state it.
