# libxfs: a verification project

TLA+ models of [libxfs](../src), a read-only Go library that opens XFS images,
damaged ones included, for inspection and recovery of data. The models are
translated from the Go source. TLC checks them on small instances; TLAPS proves
all of their safety properties for every value of the constants. `PROJECT.json` lists the runs,
the mutants that show that each property can fail, the source lines behind each
definition, the hazards and the theorems.

    tlc -workers 2 -config MCReport.cfg MCReport      # a run
    tlapm ReportProofs.tla                            # a module of proofs

## 1. The system

Two things make this library hard. A `Volume` is shared by goroutines that read
it while another closes it, and by the workers of a report. And nothing that is
read can be trusted: trees with cycles, lists that overlap, records whose length
lies. A walk has to end, to lose nothing that could be kept, and to say what it
lost.

| Component | Source | State it keeps | Operations | Hard behaviour |
|---|---|---|---|---|
| Volume lifetime, locks, cache | `volume_access.go`, `volume.go` | `closed`, `reader`, `sourceCloser` under `stateMu`; `inodeCache` under `inodeCacheMu` | `readAt`, `lookupCachedInode`, `cacheInode`, `clearInodeCache`, `IsClosed`, `Close` | Close against reads, cache stores, other Closes |
| Worker pool | `concurrency.go` | an unbuffered channel, a wait group, the first error, a derived context | `runBounded`, `workerCount` | failures and cancellation at any moment, blocked sends |
| Report | `report.go` | the stack and visited set of the walk, one slot per task, the report | `ReportWithContext`, `discoverReportInodes` | cycles, hard links, damage, cancellation and Close half way |
| Directory scan | `directory_scan.go` | the listing, its counters, the first error | `scanDirectory` | caps, one bad block among many |
| Block framing, carving | `directory_forensics.go`, `directory_format.go` | offset, records, anomalies and their budget | `parseDirectoryBlockRecords`, `carveDeletedDirectoryEntries` | resynchronisation in damaged bytes |
| Hash index | `directory_leaf.go`, `directory.go` | the tree walk's queue and visited set, the entries | lookup by name, `VerifyDirectoryIndex` | an index that disagrees with its directory |
| Inode lookup | `volume.go`, `directory_scan.go` | position and depth of the descent | `OpenInode`, `inodeAllocationState` | trees that are no trees |
| Extents and reads | `extent.go`, `volume.go` | the list being built; what a read has filled | `normalizeExtents`, `fillSparseExtents`, `readFromExtents` | overlaps, holes, ends of files |
| Extent b+tree | `volume.go` | the recursion | `parseExtentsFromBtreeRoot` | depth, cycles, half-decoded forks |
| Path resolution | `directory.go` | the visited inodes of a path | `ResolveInodeByPath` | loops, `..` |
| Opening, geometry | `xfs.go`, `volume.go` | the parsed superblock, the roots of the groups, the file | `Open`, `OpenVolumeFromPath`, `fileSystemBlockOffset` | failures after the file was opened; groups whose size is no power of two |
| Inode parsing | `volume.go` | none | `parseInode` | forks at an offset that the image gives |
| Fragmentation | `fragmentation.go` | none | `AnalyzeInodeFragmentation` | holes and runs of a clipped and filled list |
| Extended attributes | `xattr.go` | the recursion, a remote value | `ListExtendedAttributes` | fan-out, value assembly |
| Timestamps, decoding | `binary.go` | none | `readInodeTimestamp` | signs and clamps |

How they meet: every operation reaches the source through `readAt`, under
`stateMu`. `OpenInode` descends the inode tree, parses the inode, decodes its
extent list or tree, normalises it and caches the inode. A listing opens the
inode and scans its blocks, each of which is framed by itself. A lookup goes to
the hash index and then to the listing. A report lists directories to discover
the inodes and analyses them on the pool, whose workers make the same calls
concurrently.

What makes each correct is the list of properties in section 3, and what could go
wrong, line by line, is under `hazards` in `PROJECT.json`.

## 2. The modules

| Module | Models | Uses |
|---|---|---|
| `GoRWMutex` | `sync.RWMutex`: readers, one writer, and a waiting writer that holds new readers back | |
| `VolumeAccess` | a Volume and the goroutines that call it; one action per step between two lock operations | `GoRWMutex` |
| `VolumeLifetime` | the abstract volume: open, then closed once; early and late calls | |
| `RunBounded` | `runBounded`: feeder, workers, first error, cancellation | |
| `ParallelFor` | what the pool promises: tasks run at most once, and what the outcome may be | |
| `Report` | `ReportWithContext`, over the promises of `ParallelFor` and `VolumeLifetime` | |
| `DirectoryScan` | `scanDirectory` block by block | |
| `DirectoryBlock` | one block: framing, resynchronisation, carving | |
| `DirectoryIndex` | the hash index: collection, lookup, verification | |
| `PathResolve` | the calls that take a path, over what index and listing promise, with a Close at any step | |
| `Geometry` | block and inode numbers to offsets (operators) | |
| `VolumeOpen` | opening: superblock, groups, and what becomes of the file | |
| `InodeFormat` | the bounds of an inode's forks and its timestamps (operators) | |
| `InodeLookup` | from an image to an inode: opening, the descent of the inode tree and its two callers, parsing | `VolumeOpen`, `InodeFormat`, `Geometry` |
| `ExtentBtree` | one step of the extent tree's depth-first walk, and what a sound tree is (operators) | |
| `Extents` | from a fork on disk, a list or a tree, to the bytes of a read | `ExtentBtree`, `Geometry` |
| `Fragmentation` | the report on the list that `Extents` leaves | `Extents` |
| `Xattr` | attributes: short form, the tree of blocks, values in blocks of their own | |
| `MC...` | the instances TLC checks; `MCExtents` is that of `Fragmentation` | the module after `MC` |
| `VolumeAccessProofs`, `RunBoundedProofs` | the proofs about these modules, the refinements too | the module in front |
| `ReportProofs` | the proofs about this module | `Report` |
| `ExtentsProofs` | from a tree to the list of a fork, its bytes and the report on it | `Fragmentation`, `Extents`, `ExtentBtree` |
| `DirectoryDataProofs` | what is read of the data blocks of a directory | `DirectoryScan`, `DirectoryBlock` |
| `DirectoryLookupProofs` | how a name and a path are looked up | `DirectoryIndex`, `PathResolve` |
| `InodeLookupProofs` | what is found of an inode, and its attributes | `InodeLookup`, `Xattr` |
| `SequenceLemmas` | what the proofs need of sequences, concatenations and least counterexamples | |

State and actions carry the names of the code where TLA+ allows it: `pc` is the
place in the function, `discovered`, `visited`, `firstError`, `zeroTailStart` are
the variables of that name. An action is a stretch of code in which nobody else
can interfere, that is, in `VolumeAccess` and `RunBounded`, from one lock,
channel or context operation to the next. The other modules are of one goroutine,
and an action is a turn of a loop. In `Report` the other goroutines are those
that close the volume and cancel the context, and the pool's tasks interleave.

A module of proofs that extends two components has both in one name space: hence
`BlockInit`, `PathNext`, `XattrSpec` for what is `Init`, `Next`, `Spec` elsewhere.

Data is abstracted to what the properties tell apart. An inode is a number; a
damaged block is what each reading of it may find; a hash is a function with a
collision; the bytes of a read are the places they come from. What a disk may
hold is chosen in `Init`, or when it is first read, and is never what only an
intact disk would hold, except where a property says so ("in a search tree...").

A comment in front of an operator that no action uses (`ReadAtEarlyUnlock`,
`ClippedInPlace`, ...) describes a mistake: these are the mutants by which each
property is shown to be able to fail.

## 3. The runs

| Run | Instance | Properties |
|---|---|---|
| `volume_safety` | 3 goroutines, symmetric; 1 inode; all operations; parsing takes 1 or 2 reads, a call 0 or 1 more; a source that the volume owns or not, and that may fail to close | `NoReadAfterRelease`, `CacheRaceFree`, `CacheStaysDead`, refinement of `VolumeLifetime` |
| `volume_live` | 3 goroutines that open and close, again and again | `CallsReturn` |
| `pool` | 0-3 tasks; `Workers` of -1, 0, 2, 3; at most 3 automatic workers | `NoneOutlives`, refinement of `ParallelFor`, `Terminates` |
| `report` | six volumes of at most 4 inodes: a cycle through a hard link, a deeper tree, damage of each kind; both modes; caps 0 and 2; the whole volume or a subtree | `EachInodeOnce`, `WalkComplete`, `EveryFindingKept`, `ReportReturns` |
| `scan` | directories of up to 3 blocks of 2 units, in a data region of 6 and a volume of 5 units, with sizes up to 15, the largest word, where an int ends at 7; at most 2 records a block; caps below, at and above what there is, none and negative; defaults 2 and 2 | `DamageCostsItselfOnly`, `EveryLossNoted`, `TruncatedMeansCut`, `NilIsWhole` |
| `block` | four layouts of up to 32 units of 2 bytes, every subset of the records damaged, four ends of the block; phantom entries of 8 and 16 units and free runs of 0, 3 and 8; at most 2 anomalies | `GapsAreNoted`, `DetectedDamageIsLocal`, `EntriesApart`, `RemnantsAreCarved`, `ParseReturns` |
| `index` | 2 addresses in any state, 3 names, 2 of which collide, with every leaf of at most 3 entries (stale and dangling ones too); every graph of 4 index blocks under a budget of 3 | `IndexHidesNothing`, `ConsistentMeansAgree`, `EveryLeafOnce`, `ReadableUnlessDamaged` |
| `path` | a tree of 3 directories and 2 files of which any entry, block or inode may be lost, the first block of a directory passed over and any name indexed; images that are no tree, with a stale index; paths of up to 3 names, with `.`, `..` and empty ones; a depth limit of 3 | `DamageNeverMisleads`, `ReadableNamesResolve`, `ParentUndoesPath` |
| `inode_lookup` | 2 groups of 3 blocks at a stride of 4; any of 15 superblocks in either group or both; graphs of 4 blocks that both groups share; 2 inodes a chunk; numbers 0-17; inodes of 4 or 8 bytes with every fork offset; words of 16 values for times | `FoundIsRecorded`, `NoneIsMissed`, `FileFollowsVolume`, `InodeInItsPlace`, `ForksApart`, `TimesMeant` |
| `fork` | every list of 2 records of up to 3 blocks in the first 6, written or not; lists of 3; truncated lists; records at the borders of groups and of the volume; every tree of 4 blocks under a depth limit of 3; blocks of 2 bytes in 3 groups of 6 at a stride of 8; an unreadable block; records 128 bytes and more from the start, where a word ends at 127; sizes 0, 9, 46 and, more than an int, 70; reads before, across and beyond the end | `WellFormed`, `DecodedIffSound`, `LayoutDescribed`, `ReadsWhatIsMapped`, `ReadReturns` |
| `xattr` | every tree of up to 3 attribute blocks, cyclic ones too, a depth limit of 2; values of up to 7 bytes in blocks of 3, whose numbers end at 4, with headers that lie and without; maps with a hole, an unwritten part, an unmapped start, or none | `WholeOrError` |
| `report_subtree` | as `report` | violates `RecoveredEntriesWalked` |

What they show, by component:

- **Volume.** No read reaches a handle whose closer has run, because `readAt`
  keeps `stateMu` read-locked for the length of the read. A parse that was in
  flight when `Close` ran neither panics on the nil cache nor brings it back. To
  its callers a Volume is one atomic open/closed flag: `VolumeLifetime`. Only the
  calls that are answered by the superblock alone (the path `/`) are exempt from
  failing after Close. No mix of calls deadlocks, and readers that overlap for
  ever do not hold Close back.
- **Pool.** A nil error means that every task ran and succeeded; the error is a
  failure that happened rather than the cancellation it caused, or the caller's
  own cancellation (`ParallelFor` says so); when the call returns, no goroutine is
  left; the feeder is never stuck at a send.
- **Report.** The walk counts hard-linked and cyclic inodes once, ends, keeps the
  findings of every task in the order of discovery, and accounts for every entry
  of a directory that it could list.
- **Scan and block.** Damage costs the block it is in, and within a block in
  best-effort mode only what it touches, *provided that no damaged length is
  believed*; every loss is noted, or the budget of notes is announced to be used
  up; a listing without an error to a caller without options is whole. Except for a
  size of 2^63 bytes and more: the blocks that far from its end (`Far`) are
  skipped, and only a size cut down to data region and volume says so (section 5).
- **Index and paths.** No state of the index makes a name disappear that the data
  blocks show, and an index that passes its verification answers as the data does.
  Above it, a path over a tree of which parts are lost leads to its inode or to an
  error and never to another inode, and one unreadable block strands no name that
  another block holds. "Not found" is said of a name that no directory holds, or only
  one in a block that its listing passes over.
- **Opening and inodes.** A file that was opened for a volume lives as long as the
  volume. On any graph of blocks the descent ends; an inode is found only if a
  record says so, and in a search tree is never missed; it is read from the block
  its number names. Forks do not overlap, and times are what their bytes mean.
- **Forks and reads.** A fork is decoded whole or not at all. The normalised list
  is sorted and free of overlaps, which the binary search relies on, and a read
  returns the bytes that the records map, across the borders of groups, with zeros in
  the holes. It returns, if no record starts out of a word's reach, and is short only at
  the end of the file, at a block that cannot be read, or when more than an int is left
  of the file. The report on fragmentation counts the runs and finds the holes that the
  records make, whatever clipping and filling did to the list.
- **Attributes.** The listing is every attribute of every block in the order of
  the tree, each with its whole value, or it is an error. (A value has the blocks that
  numbers of 32 bits name, see `NoValueWraps`.)

Most modules also state properties that their run does not list. `LateCallsFail`,
`NoNilMapWrite`, `OwnSlot`, `NilMeansAllDone`, `FailureReported`, `OriginalError`,
`StrictIsVerified`, `IntactIsConsistent`, `IntactIsWhole`, `StrictTiles`, and `TypeOK` of
the volume and the pool are theorems (section 4). `HealthyNeedsNoWalk`, `CallReturns`
(under `FairSpec`), `BudgetAnnouncedOnce`, `SameMapping`
and the other `TypeOK`s hold under the configurations of their modules, put in
place of the INVARIANTS there.

### Bounds

Three goroutines are the fewest with two overlapping readers and a writer, and
with two Closes and a read; one inode number is enough for a cache race, and more
would not meet. Three tasks and three workers let one task fail, one be cut off
by that failure, and one never start. The volumes of `report` have a directory
that is reached by two paths, is its own child, and names its parent. The scan
has one block more than each default cap. Two extents overlap in every way two
intervals can; three are needed for a record that is clipped by one that was
clipped itself. Four blocks hold a root, a branch below it, a shared child and a
cycle, and one block more than the budget or the depth allows. Groups of 6 blocks
at a stride of 8, and a last group that is shorter, have numbers in each group
that name no block of it. A word of 16 values for times, with seconds of 10, has both
signs, the clamp at the end of the range and the wrap just before it. The paths have
one name more than the tree is deep, and the depth limit cuts some of them. The
values of `xattr` end at, before and after the end of a block. The phantom
lengths of `block` reach into the next record, past it, and to no aligned
offset. In every module the length of a loop is bounded by these instances;
`MaxDepth`, `MaxLeafBlocks`, `AnomalyBudget`, `Default...`, `CountModulus`,
`BlockModulus`, `Limits`, `Word` and `MaxInt` are limits of the code itself, scaled
down. The instances reach all of them, those of the machine's numbers too: a `di_size`
that is no int in `scan` (7) and `fork` (63), a gap of more blocks than a run can count
(`CountModulus`, 32) and of more bytes than a word can (`WordModulus`, 128) in `fork`, a
value behind the last block number (`BlockModulus`, 5) in `xattr`. Section 5 says what the
code does there.

### Fairness

`VolumeAccess`: a goroutine inside a call is scheduled, and reads of the source
return (weak fairness of `Working`); a writer's turn at a lock comes (strong
fairness of `Announcing`): Go's mutex hands itself to a waiter that has starved
for a millisecond. Nobody has to begin a call. `RunBounded`: the calling
goroutine and each worker are scheduled, and tasks end, which is what the pool
expects of its `work`; the caller need not cancel. `Report`: the goroutine that
makes the report runs, under the pool's promise to end. `DirectoryBlock`,
`DirectoryIndex` and `Extents` are one goroutine's code, and `WF_vars(Step)` says
that it is not stopped for ever. `ReadReturns` says nothing of forks with a record out of a
word's reach (`InReach`), for in front of one a read may really not return (`EveryReadReturns`
in section 5). Where one model stands on another, it takes for granted that its calls
return: `CallsReturn` that a parse ends, `ReportReturns` that the listings and stages
of a report do. The other modules state no liveness: the loop of
`DirectoryScan` counts blocks, those of `VolumeOpen` and `PathResolve` count groups
and names, and the walks of `InodeLookup` and `Xattr` stop at a depth.

## 4. The proofs

Of the 33 invariants and 7 temporal properties of the passing runs, 35 are theorems
as well, for every value of the constants; `theorems` in `PROJECT.json` lists them.
Each module below proves that `Spec` implies that an inductive invariant always
holds, by its initial states and one case per action, and then what follows from it.

**`VolumeAccessProofs`**, for any set of goroutines and inodes:

    IInv == TypeOK /\ LockInv /\ SourceInv /\ CacheInv /\ LateInv

`LockInv` says at which places in the code a goroutine owns or shares which lock;
without it no step of one goroutine could be shown to leave the others alone.
`SourceInv`: once the volume is closed nobody is inside the source, and the source
is released only then. `CacheInv`: a goroutine about to store has found the map not
nil, and holds the lock since; past the clearing step of Close the map is nil.
`LateInv`: a call that began on a closed volume is still ahead of its first look at
the flag, or has ended with ErrVolumeClosed. None of them but `LateInv` is inductive
without the others (the cache keeps its type only as nobody stores into the nil map).
The last part proves that `VolumeAccess` implements `VolumeLifetime` under the mapping
`ImplementsLifetime`: the initial states map to initial states and each step to a
step or a stutter (`Simulation`, with `HiddenStep`, `ReturnStep` and `OpenedStep` for
the three shapes of step).

**`RunBoundedProofs`**, for any number of tasks, any setting and any number of
processors: which tasks have been handed out and to whom (`FeedInv`), which stages of
caller and workers coexist (`StageInv`), what the recorded error and the cancelled
context say of the tasks (`ErrorInv`), and what each result means (`ResultInv`); and
that `RunBounded` implements `ParallelFor`.

**`ReportProofs`**, for volumes of any size and shape with finitely many entries a
directory: `WalkInv` (what is discovered is visited, and once), `PathInv` (an entry of a
listed directory is visited or on the stack, so that at an empty stack the visited set
is closed; `WalkComplete` then follows as the inodes that can be reached are those of
the least closed set), `TaskInv` (each task's slot holds what its stages have found so
far, whoever else runs, and the aggregated part of the report all that the slots before
it held).

**`DirectoryDataProofs`**. Of a scan, for directories of any number of blocks and any caps:
the listing is the records of the blocks that are not lost, less what a cap cut off
(`CollectInv`, by the places that the loop has passed; a block is lost, too, when the end of
the directory is more than an int away, `Far`); the first failure stays, each lost block has
its anomaly, and `truncated` says whether a cap was met (`ErrorInv`, `NoteInv`, `CapInv`).
Of one block, for any layout, any damage and any noise: one predicate for each property,
which says of the part that is behind the offset what the property says of a parsed block.
`InOrder`: what was reported is apart and ends before the offset; what was carved lies in a
free run that was reported, behind its header and before the cursor. `Gapless`: as long as
nothing was noted, each byte behind is reported. `AllSoFar`, while nothing but what was
written has been reported: the offset is aligned, and each undamaged record behind is
reported; alignment is what the other half needs, as a resynchronisation goes from one
aligned offset to the next and cannot jump over an aligned record. `CarvedSoFar` says the
same of the deleted entries behind the cursor, `WholeSoFar` of a block without damage. What
is assumed of a layout (`LayoutAssumption`) is how records are written: aligned, end to end,
and no shorter than their headers.

**`DirectoryLookupProofs`**. Of the index, for any graph of index blocks: an answer is the walk's or
that of a hit (`IInv`); what is pointed at from a visited block is visited or to come,
so that a collection that ends has visited all that the root reaches (`WalkInv`, `CollectInv`),
and the entries are those of the visited leaves one after the other (`GatherInv`).
Of a path, for any tree, any losses and a Close at any step:

    PathInv == PathShape /\ Walking /\ Answered

`Walking`: the names behind lead, one inode after the other, to the current one (`OnTrail`),
and each visited inode has its entry in a directory that was visited and is not the current
one (`FromDirectories`). The second is why "loop" is never said of a sound tree: an inode
that is named again would be named by a second directory. `Answered`: what a call returned
is right of where the names lead: by all entries, by those in blocks that listings do not
pass over, and by those that can be read. Where names lead is a recursive function of the
place in the path; a trail is any function that obeys its equation.

**`InodeLookupProofs`**, for any superblocks, trees and inodes: the geometry is that of an
accepted superblock, the file is closed with the failure and not before, an inode was
accepted where its number says (`GeometryInv`, `FileInv`, `InodeInv`); the arithmetic of
places, forks and times is in lemmas of its own. The descent stays in its group's tree, and
in a search tree above every record that it could be looking for (`DescentInv`). Of the
attributes, for any graph of blocks and any map of them: what has been given, with the
entries to come of the leaf being read and those under the stack, is the listing that the
fork has (`Progress` in `XattrInv`), and the bytes of a value are those of the blocks behind
(`ValueSoFar`). The n-th block of a value is the one that the code's 32 bits name
(`BlockAt`, which counts on from where it was, `NextAt`), so that no condition on forks is
needed; what is wrong with a value that goes on at block 0 is in section 5.

**`ExtentsProofs`**, for any fork: the list that is being built is in order and without
overlap at every turn of both loops (`ListInv`), which `WellFormed` says. From there to the
bytes: the records that normalizeExtents has still to come to are records of the fork in
their order, and every block of the others is in the list already (`Pending`); so the record
that is kept next is the first of those that have its blocks, and the list puts each block
it has where the records put it (`MapInv`). The binary search then finds the one extent that
has a block or, when it finds none, there is none up to the next (`Search`, `NothingFound`);
inside a group the offset of a chunk's first byte gives that of all of them (`ChunkByte`).
Block and byte numbers of a read are words and what it asks for is an int, as in the code:
what a word drops of a gap only makes a chunk of a hole shorter (`NoMore`), and inside an
extent that lies in one group it drops nothing (`NoWrap`). So `ReadsWhatIsMapped` has two
conditions on the records and none on their distances or the size: none at block 0 of the
disk (`NoneAtZero`) and none across groups (`InOneGroup`). Each turn of readFromExtents adds
bytes that are right (`ReadInv`, `MoreBytes`), and `ReadsWhatIsMapped` follows. It speaks of
the records as decoded; `DecodedIffSound` ties those to the disk. For it, `TreeInv`: during
the walk the records of the leaves are those collected with those under the stack, and the
tree is sound if and only if all that is under the stack is, within the levels that are left
at its depth. The two meet in `TreeDecodedIffSound` when the stack is empty or a block is
refused. Last, the report on fragmentation. `CoverInv`: the list has no block that is not of
the file, and once it is filled it has them all, for each gap was short enough for its
length (`GapIsShort`). So a block that reads as zeros is one of a sparse run (`HolesFound`),
and the extents that begin a run are as many as the blocks that do, by the bijection that
takes an extent to its first block (`StartsBegin`, `BeginsStart`, `RunsCounted`). Two
conditions of `LayoutDescribed` are what the code needs: no record lies at block 0 of the
disk (`NoneAtZero`), and no gap has `CountModulus` blocks (`NarrowGaps`; section 5 says of
`GapsFilled` what happens to the others). Without the second, TLC finds it false under
CountModulus = 4.

**`SequenceLemmas`** stands in for induction, which the prover cannot apply to an operator:
a set of naturals with a member has a least one (`Least`), and a claim about all prefixes of
a sequence is proved from its least counterexample. A recursive function is known by its
equation at one argument, which the same argument gives, and the recursive definitions of
`Xattr`, `ExtentBtree` and `PathResolve` are unfolded so, level by level. `FlattenSeq` is
known by what it does to the empty sequence and to one element more, at either end. Sets of
reachable things are defined as least closed sets, and not by recursion. An equation between
long concatenations is kept inside a predicate (`Associated`, `Regrouped`, `Shifted`): the
prover then cites it without trying to rewrite with it.

The assumptions are those that the modules name. Of the constants that stand for code
they say no more than that sizes are positive and limits natural numbers, and what a word
can hold (`PoolAssumption`, `SizeAssumption`, `LimitAssumption`, `BlockAssumption`,
`DepthAssumption`, `LimitsAssumption`, `WordAssumption`, `SizesAssumption`,
`TimeAssumption`, `InodeAssumption`, `GeometryAssumption`, `OptionAssumption`, `ReadsAssumption`,
`UnitAssumption`, `XattrAssumption`, `PathAssumption`); of
those that stand for the disk, that it is made of the records that the module describes,
not that they fit together (`SuperblockAssumption`, `RawAssumption`, `TreeAssumption`,
`RecordAssumption`, `RootAssumption`, `VolumeAssumption`, `LayoutAssumption`, `EntryAssumption`,
`ForkAssumption`, ...). TLC evaluates them in
the runs.

Only model-checked: the five properties of liveness under fairness, and anything about
ENABLED, which the prover does not treat. Each invariant and each action property
that a run checks is a theorem.

## 5. Where code and documentation disagree

One disagreement is a run of its own:

- `report_subtree`: a directory that is partly damaged returns the entries it
  recovered with its error. `README.md:206` and `directory.go:24` say that to drop
  them is how a walk loses subtrees; `discoverReportInodes` (`report.go:625`)
  drops them.

Others met while modelling are stated as properties too. To see one fail, put it in place of
the INVARIANTS of the configuration (`StrictAborts` and `EveryReadReturns`: as a PROPERTY).

| Property, configuration | What is said | What the code does |
|---|---|---|
| `SubsequentCallsFail`, `MCVolumeAccess` | `volume.go:54`: after Close, "Subsequent operations return ErrVolumeClosed" | `ResolveInodeByPath("/")` returns the root inode (`directory.go:201`) |
| `NoNestedLocks`, `MCVolumeAccess` | `volume_access.go:24`: "no lock ordering to observe" | Close takes the cache lock inside the state lock (`volume.go:65`) |
| `CancellationHonoured`, `MCReport` | `report.go:437`: "honouring context cancellation" | cancelled before the first item, the report is empty and its error nil (`report.go:591`, `concurrency.go:82`) |
| `DefaultCapReported`, `MCDirectoryScan` | `README.md:227`: when the default caps stopped the scan the error is ErrDirectoryTruncated | not if the caller set the other of the two caps (`directory_scan.go:528`) |
| `BestEffortDoesNotFail`, `MCDirectoryScan` | `directory_scan.go:28`: best effort resynchronises "instead of failing" | a malformed block tail fails in every mode (`directory_scan.go:476`) |
| `StrictAborts`, `MCDirectoryScan` | `directory_scan.go:22`: "any framing error aborts the scan" | the scan goes on with the next block (`directory_scan.go:479`) |
| `PlainHasNoRecords`, `MCDirectoryScan` | `directory_scan.go:68`: "A plain listing leaves it empty" | inline directories fill `Records` always (`directory_scan.go:305`) |
| `EntriesCapped`, `MCDirectoryScan` | `directory_scan.go:35`: MaxEntries "caps the number of records collected" | not those of an inline directory (`directory_scan.go:304`) |
| `FirstMatchKept`, `MCExtents` | `extent.go:106`: the earlier of two overlapping records wins, as in a linear scan | the one with the smaller logical block wins, the list being sorted first (`extent.go:113`) |
| `FallsBackWhenInconsistent`, `MCDirectoryIndex` | `README.md:197`: the lookup falls back when the index is inconsistent | only when it decodes no match; it may answer with a deleted entry (`directory_leaf.go:418`) |
| `ConsistentMeansEqual`, `MCDirectoryIndex` | `directory_leaf.go:456`: Consistent "reports whether the index and the data blocks agree" | extra index entries for an active address are not counted (`directory_leaf.go:544`) |
| `MismatchMeansWrongHash`, `MCDirectoryIndex` | `directory_leaf.go:450`: names that do not hash to the recorded value | also names missing from the index whose hash another name has (`directory_leaf.go:533`) |
| `NoIndexMeansNone`, `MCDirectoryIndex` | `directory_leaf.go:437`: HasIndex is false for directories without an index | also when the index cannot be read (`directory_leaf.go:494`) |
| `PaddingIsNormal`, `MCDirectoryBlock` | `directory_forensics.go:104`: zero padding "is the normal tail" | strict mode takes it for damage (`directory_forensics.go:196`) |
| `BothSidesRecovered`, `MCDirectoryBlock` | `README.md:211`: best effort recovers "entries either side of the damage" | a length read inside a damaged record is believed and may swallow the entries behind it (`directory_forensics.go:203`) |
| `GapsFilled`, `MCExtents` | `extent.go:147`: `fillSparseExtents` "inserts explicit sparse runs for the gaps in a fork" | the length of a gap is converted to 32 bits (`extent.go:159,170`): a gap of 2^32 blocks is covered in part or by an empty run; reads return zeros there, but for the next row |
| `EveryReadReturns`, `MCExtents` | nothing: no sentence promises it | the bytes up to the next extent are counted in 64 bits (`volume.go:298`): in front of a gap of 2^64 bytes (an extent at logical block 2^52 of 4 KiB blocks) a chunk has 0 bytes and `readFromExtents` never ends |
| `EOFIsTheEnd`, `MCExtents` | `io.EOF` means that the file ends | with 2^63 bytes or more to go the int is negative (`volume.go:247,280`): 0 bytes and `io.EOF`, although data is mapped |
| `NilIsAll`, `MCDirectoryScan` | `directory_scan.go:405`: "every block is attempted, and the original error is returned at the end" | a block 2^63 bytes or more from the end reads as 0 bytes and is passed over (`directory_scan.go:435`): a directory of such a size is listed as empty, without an error |
| `NoneLostInSilence`, `MCDirectoryScan` | `README.md:204`: "the scan records an anomaly" for each block that costs itself | not for those; only the size that was cut down has one |
| `AbsentIsAbsent`, `MCPathResolve` | what is not found is not there | a name in a block that was passed over is not found (`directory.go:255`) |
| `WholeFilesAreRead`, `MCExtents` | `directory.go:166`: "No object can be larger than the filesystem that holds it" | a sparse file can, and `ReadFileData` refuses it (`directory.go:139`) |
| `EmptyForkIsAHole`, `MCExtents` | a hole is reported as `HasLogicalHoles` | not in a file with a size and no record at all |
| `OneRunIsWhole`, `MCExtents` | a file in one run is not fragmented | two records that continue each other make one run and `HasPhysicalFragmentation` (`fragmentation.go:52`) |
| `LoopsAreLoops`, `MCPathResolve` | "loop" is said of paths that loop | also of `a/..` when the index resolves `..` (`directory.go:227`) |
| `BlocksAreRead`, `MCXattr` | the attributes of a fork in blocks are those of its blocks | when the first bytes of the fork parse as a short-form list, that list is returned (`xattr.go`) |
| `NoValueWraps`, `MCXattr` | a value is the bytes of its blocks | a value that runs past logical block 2^32 - 1 goes on at block 0 (`xattr.go:342`) |
| `NoTimeWraps`, `MCInodeLookup` | `binary.go:79`: results are clamped rather than wrapped | the part of a second at the end of the range of an int64 wraps |

Some behaviour has no sentence to disagree with, and is worth knowing. One
unreadable block among those that the first bytes of an attribute fork lie in
fails the whole listing. Attributes that carry the Incomplete flag are listed like others.
Legacy timestamps in or before the first second of 1970 have their nanoseconds
subtracted, where the format adds them (`binary.go:41`; `Exact` leaves them out of
`TimesMeant`). A superblock with 0 inodes per block is accepted when its logarithm is 16,
as the comparison is of 16 bits. When the source's closer fails, the volume is closed
already, and no later Close reaches the handle (`volume.go:68`). A block that is the
child of many is read once per path, so a damaged tree costs a power of its depth
(`volume.go:583`). After a Close between reading and aggregation a report's
provenance says that checksums were not checked when they were (`report.go:544`): the
one hazard without a property, as no later step reads that label.

## 6. Not modelled, and the plan

Not modelled: the bytes of names and values, the bits of an extent record, the
entries of an inline directory (`directory.go:266-391`, a parse that succeeds or
fails), checksums (a report's CRC check is an outcome chosen per inode), fields that are
copied and never looked at, error wording, provenance details and the sort of the
report's files by path, the tables of the format, the examples, the corpus and the
oracle tests. A record whose physical block is 0 is clipped without being moved
(`extent.go:139`); the instances have none, as block 0 of a group is its superblock.
The memory model is sequentially consistent: `CacheRaceFree` and `NoneOutlives` are the
race freedom that makes it so. Nothing is written or retried anywhere, so there is
no crash or recovery to model.

The order of work was by consequence: the shared Volume and the pool first, with
their proofs, then the report above them, then the walks over damaged structures,
then what joins them: from opening to an inode, from a fork to the bytes, from a
path to a directory; then the proofs of the sequential modules. Next, in this order:

1. The inline directory's entries as a module next to `DirectoryBlock`.
2. A composition of `DirectoryScan` and `DirectoryBlock`, in place of the records
   that `DirectoryScan` is given.
