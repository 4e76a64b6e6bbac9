---------------------------- MODULE DirectoryScan ----------------------------
(***************************************************************************)
(* scanDirectory of directory_scan.go, the one walk behind every listing   *)
(* and record scan of a directory: block after block of the data region,   *)
(* each framed by itself, under the caps and the error policy of           *)
(* DirectoryScanOptions.  What a block of the disk holds is chosen when it *)
(* is read, and kept in disk for the properties to speak of.               *)
(***************************************************************************)
EXTENDS Integers, SequencesExt

CONSTANTS
  Sizes,               \* values of di_size, in units
  DirectoryBlockSize,  \* all sizes are in the same unit
  DataSpace,           \* dirLeafSpaceOffset, where the data region ends
  Capacity,            \* volumeCapacityBytes(); 0 when the geometry is unknown
  BlockLimits,         \* values of MaxBlocks; 0 is the default
  EntryLimits,         \* values of MaxEntries; 0 is the default
  DefaultMaxBlocks, DefaultMaxEntries,
  MaxRecords,          \* the most records a block of the model holds
  MaxInt               \* the largest int; di_size is a word of up to twice as much

ASSUME SizeAssumption ==
  /\ MaxInt \in Nat /\ Sizes \subseteq 0 .. 2 * MaxInt + 1
  /\ DirectoryBlockSize \in Nat \ {0} /\ DataSpace \in 1 .. MaxInt /\ Capacity \in Nat /\ MaxRecords \in Nat
ASSUME LimitAssumption ==
  /\ BlockLimits \subseteq Nat /\ EntryLimits \subseteq Int
  /\ DefaultMaxBlocks \in Nat \ {0} /\ DefaultMaxEntries \in Nat \ {0}

VARIABLES
  form,        \* what the inode is: see Forms
  size,        \* its di_size
  options,     \* DirectoryScanOptions
  disk,        \* the blocks read, blockIndex being Len(disk)
  pc,
  total, blockCount,
  pending,     \* the records of this block still to be collected
  collected,
  listing,     \* DirectoryListing
  firstError,  \* the index of the first block that failed, or NoError
  result       \* the error returned, or "running"

args == <<form, size, options>>
vars == <<args, disk, pc, total, blockCount, pending, collected, listing, firstError, result>>

(***************************************************************************)
(* unopened: OpenInode fails; file: not a directory; brokenShort: inline,  *)
(* and does not parse; short: inline; blocks: mapped by extents.           *)
(***************************************************************************)
Forms == {"unopened", "file", "brokenShort", "short", "blocks"}

(***************************************************************************)
(* unreadable: the read fails; passed: it gives no byte; zero: a hole;     *)
(* foreign: not a data block;                                              *)
(* brokenTail: one that parseDirectoryBlockRecords refuses in every mode;  *)
(* brokenFraming: one it refuses unless it may resynchronise.              *)
(***************************************************************************)
States == {"unreadable", "passed", "zero", "foreign", "brokenTail", "brokenFraming", "intact"}
Kinds == {"active", "free", "carved"}

\* A plain listing is given active records only.
Blocks ==
  LET kinds == IF options.includeDeleted THEN Kinds ELSE {"active"}
  IN  [state : States \ {"intact", "brokenFraming"}, records : {<<>>}]
      \cup [state : {"intact", "brokenFraming"},
            records : UNION {[1 .. n -> kinds] : n \in 0 .. MaxRecords}]

NoError == -1
EmptyListing == [entries |-> <<>>, records |-> <<>>, anomalies |-> {}, truncated |-> FALSE,
                 blocksScanned |-> 0, format |-> ""]

maxBlocks == IF options.maxBlocks = 0 THEN DefaultMaxBlocks ELSE options.maxBlocks
maxEntries == IF options.maxEntries = 0 THEN DefaultMaxEntries ELSE options.maxEntries

Init ==
  /\ form \in Forms /\ size \in Sizes
  /\ options \in [includeDeleted : BOOLEAN, bestEffort : BOOLEAN,
                  maxBlocks : BlockLimits, maxEntries : EntryLimits]
  /\ disk = <<>> /\ pc = "open" /\ total = 0 /\ blockCount = 0
  /\ pending = <<>> /\ collected = 0
  /\ listing = EmptyListing /\ firstError = NoError /\ result = "running"

Return(error) == pc' = "returned" /\ result' = error

Note(l, code, at) == [l EXCEPT !.anomalies = @ \cup {[code |-> code, block |-> at]}]

-------------------------------------------------------------------------------
(* scanDirectory *)
OpenFails ==
  /\ pc = "open" /\ form \in {"unopened", "file", "brokenShort"}
  /\ Return("invalid")
  /\ UNCHANGED <<args, disk, total, blockCount, pending, collected, listing, firstError>>

\* The names of an inline directory are numbers here; none of the caps is
\* looked at, and Records is filled whatever the options.
ShortForm ==
  /\ pc = "open" /\ form = "short"
  /\ \E n \in 0 .. MaxRecords :
       LET names == [i \in 1 .. n |-> <<0, i>>]
       IN  listing' = [listing EXCEPT !.format = "short_form",
                                      !.entries = names, !.records = names]
  /\ Return("nil")
  /\ UNCHANGED <<args, disk, total, blockCount, pending, collected, firstError>>

-------------------------------------------------------------------------------
(* scanBlockDirectory *)
Ceiling(n, d) == (n + d - 1) \div d

\* A cap that calls a directory that just fits it truncated.
TooManyEarly(count) == count >= maxBlocks

TooMany(count) == count > maxBlocks

\* The limits of the data region and of the volume, in that order.
Plan ==
  LET inSpace == IF size > DataSpace THEN DataSpace ELSE size
      inVolume == IF Capacity # 0 /\ inSpace > Capacity THEN Capacity ELSE inSpace
      l1 == IF size > DataSpace
            THEN Note(listing, "directory_size_exceeds_data_space", -1) ELSE listing
      l2 == IF inVolume < inSpace THEN Note(l1, "directory_size_exceeds_volume", -1) ELSE l1
      count == Ceiling(inVolume, DirectoryBlockSize)
      l3 == IF inVolume % DirectoryBlockSize # 0
            THEN Note(l2, "directory_size_unaligned", -1) ELSE l2
  IN
  /\ pc = "open" /\ form = "blocks"
  /\ total' = inVolume
  /\ IF inVolume = 0
     THEN /\ IF options.bestEffort
             THEN listing' = Note(l2, "directory_empty", -1) /\ Return("nil")
             ELSE listing' = l2 /\ Return("invalid")
          /\ UNCHANGED blockCount
     ELSE /\ blockCount' = IF TooMany(count) THEN maxBlocks ELSE count
          /\ listing' = [l3 EXCEPT !.format = IF count = 1 THEN "block" ELSE "multi_block",
                                   !.truncated = TooMany(count)]
          /\ pc' = "walk" /\ UNCHANGED result
  /\ UNCHANGED <<args, disk, pending, collected, firstError>>

\* recordError
RecordError(at) == firstError' = IF firstError = NoError THEN at ELSE firstError

\* A scan that stops at the first block it cannot read.
ReadFailedStop(b) ==
  /\ b.state = "unreadable"
  /\ RecordError(Len(disk))
  /\ listing' = Note(listing, "directory_block_read_failed", Len(disk))
  /\ blockCount' = Len(disk) + 1 /\ UNCHANGED pending

ReadFailed(b) ==
  /\ b.state = "unreadable"
  /\ RecordError(Len(disk))
  /\ listing' = Note(listing, "directory_block_read_failed", Len(disk))
  /\ UNCHANGED <<blockCount, pending>>

\* readInodeData gives (0, EOF), whatever is mapped, where int(inode.Size - uint64(off)) is
\* negative.
Far(at) == size - at * DirectoryBlockSize > MaxInt

\* if n == 0 { continue }
PassedOver(b) ==
  /\ b.state = "passed"
  /\ UNCHANGED <<listing, blockCount, firstError, pending>>

Scanned(l) == [l EXCEPT !.blocksScanned = @ + 1]

Hole(b) ==
  /\ b.state = "zero"
  /\ listing' = Scanned(listing)
  /\ UNCHANGED <<blockCount, firstError, pending>>

\* Blocks of another kind passed over in silence.
UnexpectedQuiet(b) ==
  /\ b.state = "foreign"
  /\ listing' = Scanned(listing)
  /\ IF options.bestEffort THEN UNCHANGED firstError ELSE RecordError(Len(disk))
  /\ UNCHANGED <<blockCount, pending>>

Unexpected(b) ==
  /\ b.state = "foreign"
  /\ listing' = Note(Scanned(listing), "directory_unexpected_block", Len(disk))
  /\ IF options.bestEffort THEN UNCHANGED firstError ELSE RecordError(Len(disk))
  /\ UNCHANGED <<blockCount, pending>>

\* parseDirectoryBlockRecords returns an error, and no records.
ParseFails(b) == b.state = "brokenTail" \/ (b.state = "brokenFraming" /\ ~options.bestEffort)

ParseFailed(b) ==
  /\ ParseFails(b)
  /\ RecordError(Len(disk))
  /\ listing' = Note(Scanned(listing), "directory_block_parse_failed", Len(disk))
  /\ UNCHANGED <<blockCount, pending>>

Parsed(b) ==
  /\ b.state \in {"intact", "brokenFraming"} /\ ~ParseFails(b)
  /\ pending' = b.records
  /\ listing' = IF b.state = "brokenFraming"
                THEN Note(Scanned(listing), "framing", Len(disk)) ELSE Scanned(listing)
  /\ UNCHANGED <<blockCount, firstError>>

ScanBlock ==
  /\ pc = "walk" /\ pending = <<>> /\ Len(disk) < blockCount
  /\ \E b \in Blocks :
       /\ b.state = "passed" <=> Far(Len(disk))
       /\ disk' = Append(disk, b)
       /\ \/ ReadFailed(b) \/ PassedOver(b) \/ Hole(b)
          \/ Unexpected(b) \/ ParseFailed(b) \/ Parsed(b)
  /\ UNCHANGED <<args, pc, total, collected, result>>

\* scanError that does not look at Truncated.
ScanErrorTrusting(l) == IF firstError # NoError THEN "block" ELSE "nil"

\* "block" is firstError.
ScanError(l) ==
  IF firstError # NoError THEN "block"
  ELSE IF l.truncated /\ options.maxBlocks = 0 /\ options.maxEntries = 0 THEN "truncated"
  ELSE "nil"

\* A cap that fires when the limit is reached, whether or not more is to come.
AtLimit == collected >= maxEntries

EntryCap ==
  /\ pc = "walk" /\ pending # <<>> /\ AtLimit
  /\ LET l == [listing EXCEPT !.truncated = TRUE]
     IN  listing' = l /\ Return(ScanError(l))
  /\ UNCHANGED <<args, disk, total, blockCount, pending, collected, firstError>>

\* The place of the next record: its block, and its position in the block.
Here == <<Len(disk) - 1, Len(Last(disk).records) - Len(pending) + 1>>

Collect ==
  /\ pc = "walk" /\ pending # <<>> /\ ~AtLimit
  /\ collected' = collected + 1
  /\ pending' = Tail(pending)
  /\ listing' = [listing EXCEPT
       !.records = IF options.includeDeleted THEN Append(@, Here) ELSE @,
       !.entries = IF Head(pending) = "active" THEN Append(@, Here) ELSE @]
  /\ UNCHANGED <<args, disk, pc, total, blockCount, firstError, result>>

WalkEnds ==
  /\ pc = "walk" /\ pending = <<>> /\ Len(disk) = blockCount
  /\ Return(ScanError(listing))
  /\ UNCHANGED <<args, disk, total, blockCount, pending, collected, listing, firstError>>

Returned == pc = "returned" /\ UNCHANGED vars

Next == OpenFails \/ ShortForm \/ Plan \/ ScanBlock \/ EntryCap \/ Collect \/ WalkEnds \/ Returned

Spec == Init /\ [][Next]_vars

-------------------------------------------------------------------------------
TypeOK ==
  /\ form \in Forms /\ size \in Sizes
  /\ disk \in Seq(Blocks)
  /\ pc \in {"open", "walk", "returned"}
  /\ total \in 0 .. size /\ blockCount \in Nat /\ Len(disk) <= blockCount
  /\ pending \in Seq(Kinds) /\ collected \in Nat
  /\ listing.entries \in Seq(Nat \X Nat) /\ listing.records \in Seq(Nat \X Nat)
  /\ listing.truncated \in BOOLEAN
  /\ listing.blocksScanned \in 0 .. Len(disk)
  /\ firstError \in {NoError} \cup (0 .. Len(disk) - 1)
  /\ result \in {"running", "nil", "invalid", "block", "truncated"}

Lesser(a, b) == IF a < b THEN a ELSE b
Walked == pc = "returned" /\ form = "blocks" /\ total > 0
Lost(b) == b.state \in {"unreadable", "passed", "foreign"} \/ ParseFails(b)

\* A block that makes the scan return an error.
Failed(b) == Lost(b) /\ b.state # "passed" /\ (b.state = "foreign" => ~options.bestEffort)

\* What the walk has to offer: the places of the records of every block that is
\* not lost.
Offered ==
  UNION {{<<i - 1, r>> : r \in DOMAIN disk[i].records} : i \in {j \in DOMAIN disk : ~Lost(disk[j])}}
KindAt(place) == disk[place[1] + 1].records[place[2]]
Active(places) == {place \in places : KindAt(place) = "active"}

\* The order of the disk.
Before(p, q) == p[1] < q[1] \/ (p[1] = q[1] /\ p[2] < q[2])
Lists(s, places) ==
  ToSet(s) = places /\ \A i, j \in DOMAIN s : i < j => Before(s[i], s[j])

limit == IF maxEntries < 0 THEN 0 ELSE maxEntries

\* Damage to a block costs only the block itself: what is returned, with an
\* error or without, is everything the other blocks hold, in the order of the
\* disk, up to the cap on entries; and every block is tried unless that cap ended
\* the walk. Damage to the size costs the blocks that it puts out of reach (Far), and
\* no more.
DamageCostsItselfOnly ==
  Walked =>
    LET taken == {p \in Offered : Cardinality({q \in Offered : Before(q, p)}) < limit}
    IN  /\ Lists(listing.entries, Active(taken))
        /\ options.includeDeleted => Lists(listing.records, taken)
        /\ Cardinality(Offered) <= limit =>
             Len(disk) = Lesser(maxBlocks, Ceiling(total, DirectoryBlockSize))

\* The error is that of the first block that failed, whatever happened later and
\* whether or not a cap cut the walk short.
OriginalError ==
  Walked =>
    LET failed == {i \in DOMAIN disk : Failed(disk[i])}
    IN  IF failed = {} THEN result # "block"
        ELSE /\ result = "block"
             /\ \A i \in failed : firstError <= i - 1
             /\ firstError + 1 \in failed

\* Every block that was lost has an anomaly that names it, and so has a size that the
\* walk did not believe. But a block too far from the end, by a size that is no int,
\* has only the latter (NoneLostInSilence).
EveryLossNoted ==
  Walked =>
    /\ \A i \in DOMAIN disk :
         Lost(disk[i]) => \/ \E a \in listing.anomalies : a.block = i - 1
                          \/ disk[i].state = "passed" /\ Far(i - 1) /\ total < size
    /\ total < size => \E a \in listing.anomalies :
         a.code \in {"directory_size_exceeds_data_space", "directory_size_exceeds_volume"}

\* Truncated is set exactly when a cap left something out: a block of the
\* directory that was not tried, or a record of the last block that was. A
\* directory that just fits its caps is not called truncated.
TruncatedMeansCut ==
  Walked =>
    (listing.truncated <=> \/ Len(disk) * DirectoryBlockSize < total
                           \/ pending # <<>>)

\* A listing without an error is, for a caller that has set no options, the whole
\* of what the data region holds within the volume, but for the blocks that a size that
\* is no int puts out of reach: no error is returned for those (NilIsAll).
NilIsWhole ==
  Walked /\ result = "nil" /\ ~options.bestEffort /\ options.maxBlocks = 0
         /\ options.maxEntries = 0 =>
    /\ Len(disk) * DirectoryBlockSize >= total
    /\ \A i \in DOMAIN disk : disk[i].state \in {"zero", "intact"} \/ Far(i - 1)
    /\ Lists(listing.entries, Active(Offered))

-------------------------------------------------------------------------------
(* What comments and the README say, and the code does not do *)

\* "every block is attempted, and the original error is returned at the end alongside
\* everything recovered": a directory whose size is more than an int is listed as empty,
\* without an error.
NilIsAll ==
  Walked /\ result = "nil" /\ ~options.bestEffort => \A i \in DOMAIN disk : ~Lost(disk[i])

\* "the scan records an anomaly and continues with the next block"
NoneLostInSilence ==
  Walked => \A i \in DOMAIN disk :
    Lost(disk[i]) => \E a \in listing.anomalies : a.block = i - 1

\* "when the default caps are what stopped the scan the error is
\* ErrDirectoryTruncated": with one limit set and the other left at its default.
DefaultCapReported ==
  Walked /\ firstError = NoError /\ options.maxEntries = 0 /\ pending # <<>> =>
    result = "truncated"

\* BestEffort keeps "whatever was recovered when a block is malformed, recording
\* a ReportAnomaly and resynchronising instead of failing".
BestEffortDoesNotFail ==
  Walked /\ options.bestEffort /\ (\A i \in DOMAIN disk : disk[i].state # "unreadable") =>
    result # "block"

\* "The zero value is strict: any framing error aborts the scan".
StrictAborts ==
  [][firstError # NoError /\ ~options.bestEffort => disk' = disk]_vars

\* "A plain listing leaves it [Records] empty".
PlainHasNoRecords == ~options.includeDeleted => listing.records = <<>>

\* "MaxEntries caps the number of records collected".
EntriesCapped ==
  pc = "returned" /\ maxEntries >= 0 => Len(listing.entries) <= maxEntries
===============================================================================
