-------------------------- MODULE DirectoryDataProofs -------------------------
(***************************************************************************)
(* What is read of the data blocks of a directory.                         *)
(*                                                                         *)
(* A scan (DirectoryScan), whatever the blocks hold and whatever the caps: *)
(* it returns the records of all the blocks that are not lost, in their    *)
(* order; and it may not pass over in silence a block that is lost, the    *)
(* first error, or a limit that left something out.                        *)
(*                                                                         *)
(* The parse of one block (DirectoryBlock), whatever of it is damaged and  *)
(* whatever noise looks like: no bytes are reported twice, none are passed *)
(* over in silence, and undamaged records and deleted entries are lost     *)
(* only where noise was taken for one.                                     *)
(***************************************************************************)
EXTENDS DirectoryScan, DirectoryBlock, SequenceLemmas, SequenceTheorems, FiniteSetTheorems, TLAPS

(* DirectoryScan *)

Fields == {"entries", "records", "anomalies", "truncated", "blocksScanned", "format"}

ShapeInv ==
  /\ size \in Nat /\ total \in Nat /\ blockCount \in Nat /\ options.maxBlocks \in Nat
  /\ disk \in Seq(Blocks) /\ DOMAIN listing = Fields
  /\ pc \in {"open", "walk", "returned"}
  /\ pc = "open" => disk = <<>> /\ firstError = NoError /\ listing = EmptyListing
  /\ pc # "returned" => result = "running"
  /\ pc = "walk" => form = "blocks" /\ total > 0

IsFirstFailure(d, e) ==
  IF e = NoError THEN \A i \in DOMAIN d : ~Failed(d[i])
  ELSE /\ e \in Nat /\ e + 1 \in DOMAIN d /\ Failed(d[e + 1])
       /\ \A i \in DOMAIN d : Failed(d[i]) => e <= i - 1

ErrorInv ==
  /\ IsFirstFailure(disk, firstError)
  /\ Walked => (result = "block" <=> firstError # NoError)

LossesNoted(d, l) ==
  \A i \in DOMAIN d :
    Lost(d[i]) => IF d[i].state = "passed" THEN Far(i - 1)
                  ELSE \E a \in l.anomalies : a.block = i - 1

LimitNoted(l) ==
  \E a \in l.anomalies :
    a.code \in {"directory_size_exceeds_data_space", "directory_size_exceeds_volume"}

NoteInv ==
  /\ LossesNoted(disk, listing)
  /\ pc = "walk" \/ Walked => total <= DataSpace /\ (total < size => LimitNoted(listing))

BlocksOf(n) == Ceiling(n, DirectoryBlockSize)

\* The walk stops at the end of the directory or at the cap, and Truncated says which.
CapInv ==
  /\ pc = "walk" \/ Walked =>
       /\ blockCount = Lesser(maxBlocks, BlocksOf(total)) /\ Len(disk) <= blockCount
  /\ pc = "walk" => (listing.truncated <=> TooMany(BlocksOf(total)))
  /\ Walked =>
       \/ pending # <<>> /\ listing.truncated
       \/ /\ pending = <<>> /\ Len(disk) = blockCount
          /\ listing.truncated <=> TooMany(BlocksOf(total))

IInv == ShapeInv /\ ErrorInv /\ NoteInv /\ CapInv

-------------------------------------------------------------------------------
LEMMA DivBounds ==
  ASSUME NEW n \in Nat, NEW d \in Nat \ {0}
  PROVE  n \div d \in Nat /\ d * (n \div d) <= n /\ n < d * (n \div d) + d
  BY Z3

\* A count of blocks is short of the directory exactly when it is less than its number of
\* blocks.
LEMMA CeilingMeant ==
  ASSUME NEW n \in Nat, n > 0, NEW m \in Nat
  PROVE  BlocksOf(n) \in Nat \ {0} /\ (m * DirectoryBlockSize < n <=> m < BlocksOf(n))
<1> DEFINE d == DirectoryBlockSize
           c == (n + d - 1) \div d
<1>1. d \in Nat \ {0}
  BY SizeAssumption
<1> HIDE DEF d
<1>2. n + d - 1 \in Nat
  BY <1>1
<1>3. c \in Nat /\ d * c <= n + d - 1 /\ n + d - 1 < d * c + d
  BY <1>1, <1>2, DivBounds
<1> HIDE DEF c
<1>4. d * c < n + d /\ n <= d * c
  BY <1>1, <1>3
<1>5. c # 0
  BY <1>4, <1>1
<1>6. ASSUME m < c PROVE m * d < n
  <2>1. m + 1 <= c /\ d * (m + 1) <= d * c
    BY <1>6, <1>3, <1>1
  <2>2. d * (m + 1) = m * d + d
    BY <1>1
  <2>3. QED
    BY <2>1, <2>2, <1>4, <1>3, <1>1
<1>7. ASSUME ~(m < c) PROVE ~(m * d < n)
  <2>1. c <= m /\ d * c <= d * m /\ d * m = m * d
    BY <1>7, <1>3, <1>1
  <2>2. QED
    BY <2>1, <1>4, <1>3, <1>1
<1>8. BlocksOf(n) = c
  BY DEF BlocksOf, Ceiling, c, d
<1>9. QED
  BY <1>3, <1>5, <1>6, <1>7, <1>8 DEF d

LEMMA MaxBlocksIsPositive == ASSUME options.maxBlocks \in Nat PROVE maxBlocks \in Nat \ {0}
  BY LimitAssumption DEF maxBlocks

LEMMA Appended ==
  ASSUME NEW S, NEW s \in Seq(S), NEW b \in S
  PROVE  /\ Append(s, b) \in Seq(S) /\ Len(Append(s, b)) = Len(s) + 1
         /\ DOMAIN Append(s, b) = 1 .. Len(s) + 1 /\ DOMAIN s = 1 .. Len(s) /\ Len(s) \in Nat
         /\ Append(s, b)[Len(s) + 1] = b /\ \A i \in DOMAIN s : Append(s, b)[i] = s[i]
  BY AppendProperties, LenProperties

LEMMA NoteAdds ==
  ASSUME NEW l, DOMAIN l = Fields, NEW code, NEW at
  PROVE  /\ DOMAIN Note(l, code, at) = Fields /\ Note(l, code, at).truncated = l.truncated
         /\ l.anomalies \subseteq Note(l, code, at).anomalies
         /\ \E a \in Note(l, code, at).anomalies : a.code = code /\ a.block = at
<1>1. Note(l, code, at).anomalies = l.anomalies \cup {[code |-> code, block |-> at]}
  BY DEF Note, Fields
<1>2. DOMAIN Note(l, code, at) = Fields /\ Note(l, code, at).truncated = l.truncated
  BY DEF Note, Fields
<1>3. [code |-> code, block |-> at].code = code /\ [code |-> code, block |-> at].block = at
  OBVIOUS
<1>4. QED
  BY <1>1, <1>2, <1>3

LEMMA ScannedKeeps ==
  ASSUME NEW l, DOMAIN l = Fields
  PROVE  /\ DOMAIN Scanned(l) = Fields /\ Scanned(l).truncated = l.truncated
         /\ Scanned(l).anomalies = l.anomalies
  BY DEF Scanned, Fields

LEMMA InitInv == Init => IInv
<1> SUFFICES ASSUME Init PROVE IInv
  OBVIOUS
<1>1. disk \in Seq(Blocks) /\ DOMAIN disk = {} /\ Len(disk) = 0
  BY EmptySeq, LenProperties DEF Init
<1>2. ShapeInv
  <2>1. size \in Nat
    <3>1. size \in 0 .. 2 * MaxInt + 1 /\ MaxInt \in Nat
      BY SizeAssumption DEF Init
    <3>2. QED
      BY <3>1
  <2>2. QED
    BY <1>1, <2>1, LimitAssumption DEF Init, ShapeInv, EmptyListing, Fields
<1>3. ErrorInv /\ NoteInv /\ CapInv
  BY <1>1 DEF Init, ErrorInv, IsFirstFailure, NoteInv, LossesNoted, CapInv, Walked
<1>4. QED
  BY <1>2, <1>3 DEF IInv

\* The limits that Plan believes before the size, and the anomalies that say so.
LEMMA PlanStep == ASSUME IInv, Plan PROVE IInv'
<1> DEFINE inSpace == IF size > DataSpace THEN DataSpace ELSE size
           inVolume == IF Capacity # 0 /\ inSpace > Capacity THEN Capacity ELSE inSpace
           count == Ceiling(inVolume, DirectoryBlockSize)
<1>1. /\ pc = "open" /\ form = "blocks" /\ total' = inVolume
      /\ UNCHANGED <<args, disk, pending, collected, firstError>>
      /\ disk = <<>> /\ firstError = NoError /\ listing = EmptyListing
      /\ size \in Nat /\ inVolume \in Nat /\ inVolume <= DataSpace
  BY SizeAssumption DEF Plan, IInv, ShapeInv
<1>2. DOMAIN listing' = Fields /\ (inVolume < size => LimitNoted(listing'))
  <2> DEFINE l1 == IF size > DataSpace
                   THEN Note(listing, "directory_size_exceeds_data_space", -1) ELSE listing
             l2 == IF inVolume < inSpace
                   THEN Note(l1, "directory_size_exceeds_volume", -1) ELSE l1
             l3 == IF inVolume % DirectoryBlockSize # 0
                   THEN Note(l2, "directory_size_unaligned", -1) ELSE l2
             l4 == [l3 EXCEPT !.format = IF count = 1 THEN "block" ELSE "multi_block",
                              !.truncated = TooMany(count)]
  <2>1. listing' \in {l2, Note(l2, "directory_empty", -1), l4}
    BY <1>1 DEF Plan
  <2>2. DOMAIN listing = Fields
    BY <1>1 DEF EmptyListing, Fields
  <2>3. DOMAIN l1 = Fields /\ (size > DataSpace => LimitNoted(l1))
    BY <2>2, NoteAdds DEF LimitNoted
  <2>4. inVolume < size => size > DataSpace \/ inVolume < inSpace
    BY <1>1
  <2> HIDE DEF l1, inVolume, inSpace, count
  <2>5. DOMAIN l2 = Fields /\ (inVolume < size => LimitNoted(l2))
    BY <2>3, <2>4, NoteAdds DEF LimitNoted
  <2> HIDE DEF l2
  <2>6. DOMAIN l3 = Fields /\ (inVolume < size => LimitNoted(l3))
    BY <2>5, NoteAdds DEF LimitNoted
  <2>7. /\ DOMAIN Note(l2, "directory_empty", -1) = Fields
        /\ inVolume < size => LimitNoted(Note(l2, "directory_empty", -1))
    BY <2>5, NoteAdds DEF LimitNoted
  <2> HIDE DEF l3
  <2>8. DOMAIN l4 = Fields /\ l4.anomalies = l3.anomalies
    BY <2>6 DEF Fields
  <2> HIDE DEF l4
  <2>9. QED
    BY <2>1, <2>5, <2>6, <2>7, <2>8 DEF LimitNoted
<1>3. IF inVolume = 0 THEN pc' = "returned" /\ UNCHANGED blockCount
      ELSE /\ pc' = "walk" /\ UNCHANGED result
           /\ blockCount' = IF TooMany(count) THEN maxBlocks ELSE count
           /\ listing'.truncated = TooMany(count)
  BY <1>1 DEF Plan, Return, Note, EmptyListing
<1>4. disk' \in Seq(Blocks') /\ DOMAIN disk = {} /\ Len(disk) = 0
  BY <1>1, EmptySeq, LenProperties
<1>5. options.maxBlocks \in Nat /\ maxBlocks \in Nat \ {0} /\ maxBlocks' = maxBlocks /\ blockCount \in Nat
  BY <1>1, MaxBlocksIsPositive DEF args, maxBlocks, IInv, ShapeInv
<1>6. inVolume > 0 => count \in Nat \ {0} /\ count = BlocksOf(inVolume)
  BY <1>1, CeilingMeant DEF BlocksOf
<1> HIDE DEF inSpace, inVolume, count
<1>7. inVolume # 0 => /\ blockCount' = Lesser(maxBlocks, BlocksOf(inVolume)) /\ blockCount' \in Nat
                      /\ listing'.truncated = (BlocksOf(inVolume) > maxBlocks)
  BY <1>1, <1>3, <1>5, <1>6 DEF TooMany, Lesser
<1>8. result = "running" /\ ~(pc = "returned")
  BY <1>1 DEF IInv, ShapeInv
<1>9. ShapeInv'
  BY <1>1, <1>2, <1>3, <1>4, <1>5, <1>7, <1>8 DEF ShapeInv, args
<1>10. ErrorInv' /\ NoteInv'
  BY <1>1, <1>2, <1>3, <1>4 DEF ErrorInv, IsFirstFailure, NoteInv, LossesNoted, Walked,
     LimitNoted, args
<1>11. CapInv'
  <2>1. CASE inVolume = 0
    BY <1>1, <1>3, <2>1 DEF CapInv, Walked
  <2>2. CASE inVolume # 0
    <3>1. BlocksOf(total)' = BlocksOf(inVolume)
      BY <1>1 DEF BlocksOf, Ceiling
    <3>2. 0 <= Lesser(maxBlocks, BlocksOf(inVolume))
      BY <1>1, <1>5, <1>6, <2>2 DEF Lesser
    <3>3. QED
      BY <1>1, <1>3, <1>4, <1>5, <1>7, <2>2, <3>1, <3>2 DEF CapInv, Walked, TooMany
  <2>3. QED
    BY <2>1, <2>2
<1>12. QED
  BY <1>9, <1>10, <1>11 DEF IInv

\* A block is lost with its anomaly, and the first error stays.
LEMMA ScanBlockStep == ASSUME IInv, ScanBlock PROVE IInv'
<1>1. PICK b \in Blocks :
        /\ b.state = "passed" <=> Far(Len(disk))
        /\ disk' = Append(disk, b)
        /\ \/ ReadFailed(b) \/ PassedOver(b) \/ Hole(b)
           \/ Unexpected(b) \/ ParseFailed(b) \/ Parsed(b)
  BY DEF ScanBlock
<1>2. /\ pc = "walk" /\ pending = <<>> /\ Len(disk) < blockCount
      /\ UNCHANGED <<args, pc, total, collected, result>>
  BY DEF ScanBlock
<1>3. /\ DOMAIN listing' = Fields /\ listing'.truncated = listing.truncated
      /\ listing.anomalies \subseteq listing'.anomalies /\ UNCHANGED blockCount
      /\ Lost(b) => IF b.state = "passed" THEN Far(Len(disk))
                    ELSE \E a \in listing'.anomalies : a.block = Len(disk)
      /\ firstError' = IF Failed(b) /\ firstError = NoError THEN Len(disk) ELSE firstError
  <2>1. DOMAIN listing = Fields
    BY DEF IInv, ShapeInv
  <2>2. CASE ReadFailed(b)
    BY <2>1, <2>2, NoteAdds DEF ReadFailed, RecordError, Lost, Failed
  <2>3. CASE Hole(b)
    BY <2>1, <2>3 DEF Hole, Scanned, Lost, ParseFails, Failed, Fields
  <2>4. CASE Unexpected(b)
    BY <2>1, <2>4, NoteAdds, ScannedKeeps DEF Unexpected, RecordError, Lost, ParseFails, Failed
  <2>5. CASE ParseFailed(b)
    BY <2>1, <2>5, NoteAdds, ScannedKeeps DEF ParseFailed, RecordError, Lost, ParseFails, Failed
  <2>6. CASE Parsed(b)
    BY <2>1, <2>6 DEF Parsed, Scanned, Note, Lost, Failed, Fields
  <2>7. CASE PassedOver(b)
    BY <1>1, <2>1, <2>7 DEF PassedOver, Failed
  <2>8. QED
    BY <1>1, <2>2, <2>3, <2>4, <2>5, <2>6, <2>7
<1>4. /\ disk' \in Seq(Blocks) /\ Len(disk') = Len(disk) + 1
      /\ DOMAIN disk' = 1 .. Len(disk) + 1 /\ DOMAIN disk = 1 .. Len(disk) /\ Len(disk) \in Nat
      /\ disk'[Len(disk) + 1] = b /\ \A i \in DOMAIN disk : disk'[i] = disk[i]
  <2>1. disk \in Seq(Blocks)
    BY DEF IInv, ShapeInv
  <2>2. QED
    BY <1>1, <2>1, Appended
<1>5. Blocks' = Blocks /\ maxBlocks' = maxBlocks
  BY <1>2 DEF args, Blocks, maxBlocks
<1>6. ShapeInv'
  BY <1>2, <1>3, <1>4, <1>5 DEF IInv, ShapeInv, args
<1>7. /\ \A d : Failed(d)' = Failed(d) /\ Lost(d)' = Lost(d)
      /\ \A at : Far(at)' = Far(at)
  BY <1>2 DEF Failed, Lost, ParseFails, Far, args
<1>8. ErrorInv'
  <2>1. IsFirstFailure(disk, firstError) /\ ~Walked'
    BY <1>2 DEF IInv, ErrorInv, Walked
  <2>2. CASE firstError = NoError
    <3>1. \A i \in DOMAIN disk : ~Failed(disk[i])
      BY <2>1, <2>2 DEF IsFirstFailure
    <3>2. CASE Failed(b)
      BY <1>3, <1>4, <1>7, <2>1, <2>2, <3>1, <3>2 DEF IsFirstFailure, ErrorInv, NoError
    <3>3. CASE ~Failed(b)
      BY <1>3, <1>4, <1>7, <2>1, <2>2, <3>1, <3>3 DEF IsFirstFailure, ErrorInv
    <3>4. QED
      BY <3>2, <3>3
  <2>3. CASE firstError # NoError
    BY <1>3, <1>4, <1>7, <2>1, <2>3 DEF IsFirstFailure, ErrorInv
  <2>4. QED
    BY <2>2, <2>3
<1>9. NoteInv'
  <2>1. LossesNoted(disk, listing)'
    <3>1. ASSUME NEW i \in DOMAIN disk', Lost(disk'[i])
          PROVE  IF disk'[i].state = "passed" THEN Far(i - 1)
                 ELSE \E a \in listing'.anomalies : a.block = i - 1
      <4>1. CASE i \in DOMAIN disk
        BY <1>3, <1>4, <3>1, <4>1 DEF IInv, NoteInv, LossesNoted
      <4>2. CASE i = Len(disk) + 1
        BY <1>3, <1>4, <3>1, <4>2
      <4>3. QED
        BY <1>4, <3>1, <4>1, <4>2
    <3>2. QED
      BY <3>1, <1>7 DEF LossesNoted
  <2>2. LimitNoted(listing) => LimitNoted(listing)'
    BY <1>3 DEF LimitNoted
  <2>3. QED
    BY <1>2, <2>1, <2>2 DEF IInv, NoteInv, Walked, args
<1>10. CapInv'
  <2>1. Len(disk') <= blockCount'
    BY <1>2, <1>3, <1>4 DEF IInv, ShapeInv
  <2>2. BlocksOf(total)' = BlocksOf(total) /\ TooMany(BlocksOf(total))' = TooMany(BlocksOf(total))
    BY <1>2, <1>5 DEF BlocksOf, TooMany
  <2>3. QED
    BY <1>2, <1>3, <1>5, <2>1, <2>2 DEF IInv, CapInv, Walked
<1>11. QED
  BY <1>6, <1>8, <1>9, <1>10 DEF IInv

\* The cap on entries fires only where there is another record.
LEMMA EntryCapStep == ASSUME IInv, EntryCap PROVE IInv'
<1> DEFINE l == [listing EXCEPT !.truncated = TRUE]
<1>1. /\ pc = "walk" /\ pending # <<>> /\ pc' = "returned" /\ listing' = l /\ result' = ScanError(l)
      /\ UNCHANGED <<args, disk, total, blockCount, pending, firstError>>
  BY DEF EntryCap, Return
<1>2. DOMAIN l = Fields /\ l.truncated = TRUE /\ l.anomalies = listing.anomalies
  BY DEF IInv, ShapeInv, Fields
<1> HIDE DEF l
<1>3. result' = "block" <=> firstError # NoError
  BY <1>1 DEF ScanError
<1>4. /\ Blocks' = Blocks /\ maxBlocks' = maxBlocks
      /\ (\A d : Failed(d)' = Failed(d) /\ Lost(d)' = Lost(d))
      /\ \A at : Far(at)' = Far(at)
  BY <1>1 DEF args, Blocks, maxBlocks, Failed, Lost, ParseFails, Far
<1>5. ShapeInv'
  BY <1>1, <1>2, <1>4 DEF IInv, ShapeInv, args
<1>6. ErrorInv'
  BY <1>1, <1>3, <1>4 DEF IInv, ErrorInv, IsFirstFailure
<1>7. NoteInv'
  BY <1>1, <1>2, <1>4 DEF IInv, NoteInv, LossesNoted, LimitNoted, args
<1>8. CapInv'
  BY <1>1, <1>2, <1>4 DEF IInv, CapInv, Walked, BlocksOf, Lesser
<1>9. QED
  BY <1>5, <1>6, <1>7, <1>8 DEF IInv

LEMMA WalkEndsStep == ASSUME IInv, WalkEnds PROVE IInv'
<1>1. /\ pc = "walk" /\ pending = <<>> /\ Len(disk) = blockCount /\ pc' = "returned"
      /\ result' = ScanError(listing)
      /\ UNCHANGED <<args, disk, total, blockCount, pending, listing, firstError>>
  BY DEF WalkEnds, Return
<1>2. result' = "block" <=> firstError # NoError
  BY <1>1 DEF ScanError
<1>3. /\ Blocks' = Blocks /\ maxBlocks' = maxBlocks
      /\ (\A d : Failed(d)' = Failed(d) /\ Lost(d)' = Lost(d))
      /\ \A at : Far(at)' = Far(at)
  BY <1>1 DEF args, Blocks, maxBlocks, Failed, Lost, ParseFails, Far
<1>4. ShapeInv' /\ NoteInv'
  BY <1>1, <1>3 DEF IInv, ShapeInv, NoteInv, LossesNoted, LimitNoted, args
<1>5. ErrorInv'
  BY <1>1, <1>2, <1>3 DEF IInv, ErrorInv, IsFirstFailure
<1>6. CapInv'
  BY <1>1, <1>3 DEF IInv, CapInv, Walked, BlocksOf, Lesser, TooMany
<1>7. QED
  BY <1>4, <1>5, <1>6 DEF IInv

LEMMA CollectStep == ASSUME IInv, Collect PROVE IInv'
<1>1. /\ pc = "walk" /\ UNCHANGED <<args, disk, pc, total, blockCount, firstError, result>>
  BY DEF Collect
<1>2. /\ DOMAIN listing' = Fields /\ listing'.truncated = listing.truncated
      /\ listing'.anomalies = listing.anomalies
  BY DEF Collect, IInv, ShapeInv, Fields
<1>3. /\ Blocks' = Blocks /\ maxBlocks' = maxBlocks
      /\ (\A d : Failed(d)' = Failed(d) /\ Lost(d)' = Lost(d))
      /\ \A at : Far(at)' = Far(at)
  BY <1>1 DEF args, Blocks, maxBlocks, Failed, Lost, ParseFails, Far
<1>4. ShapeInv'
  BY <1>1, <1>2, <1>3 DEF IInv, ShapeInv, args
<1>5. ErrorInv'
  BY <1>1, <1>3 DEF IInv, ErrorInv, IsFirstFailure, Walked
<1>6. NoteInv'
  BY <1>1, <1>2, <1>3 DEF IInv, NoteInv, LossesNoted, LimitNoted, Walked, args
<1>7. CapInv'
  BY <1>1, <1>2, <1>3 DEF IInv, CapInv, Walked, BlocksOf, Lesser, TooMany
<1>8. QED
  BY <1>4, <1>5, <1>6, <1>7 DEF IInv

\* Calls that end before there is a walk.
LEMMA EarlyReturn == ASSUME IInv, OpenFails \/ ShortForm PROVE IInv'
<1>1. /\ pc = "open" /\ pc' = "returned" /\ form # "blocks" /\ DOMAIN listing' = Fields
      /\ UNCHANGED <<args, disk, total, blockCount, firstError>>
  BY DEF OpenFails, ShortForm, Return, IInv, ShapeInv, Fields
<1>2. disk = <<>> /\ DOMAIN disk = {} /\ firstError = NoError /\ ~Walked'
  BY <1>1, EmptySeq, LenProperties DEF IInv, ShapeInv, Walked, args
<1>3. ShapeInv'
  BY <1>1 DEF IInv, ShapeInv, Blocks, args
<1>4. ErrorInv' /\ NoteInv' /\ CapInv'
  BY <1>1, <1>2 DEF ErrorInv, IsFirstFailure, NoteInv, LossesNoted, CapInv
<1>5. QED
  BY <1>3, <1>4 DEF IInv

LEMMA StepInv == IInv /\ [Next]_vars => IInv'
<1> SUFFICES ASSUME IInv, [Next]_vars PROVE IInv'
  OBVIOUS
<1>1. CASE UNCHANGED vars
  BY <1>1 DEF vars, args, IInv, ShapeInv, Blocks, ErrorInv, IsFirstFailure, Failed, Lost,
     ParseFails, Far,
              NoteInv, LossesNoted, LimitNoted, CapInv, Walked, TooMany, maxBlocks
<1>2. CASE OpenFails \/ ShortForm
  BY <1>2, EarlyReturn
<1>3. QED
  BY <1>1, <1>2, PlanStep, ScanBlockStep, EntryCapStep, CollectStep, WalkEndsStep
     DEF Next, Returned

LEMMA Invariance == Spec => []IInv
<1>1. QED
  BY InitInv, StepInv, PTL DEF Spec

\* The error of a scan is that of the first block that failed: scanDirectory goes on after
\* it, and neither a later failure nor a cap takes its place.
THEOREM FirstErrorStays == Spec => []OriginalError
<1>1. ASSUME IInv PROVE OriginalError
  <2> SUFFICES ASSUME Walked PROVE OriginalError
    BY DEF OriginalError
  <2> DEFINE failed == {i \in DOMAIN disk : Failed(disk[i])}
  <2>1. IsFirstFailure(disk, firstError) /\ (result = "block" <=> firstError # NoError)
    BY <1>1 DEF IInv, ErrorInv
  <2>2. failed = {i \in DOMAIN disk : Failed(disk[i])}
    OBVIOUS
  <2>3. CASE firstError = NoError
    <3>1. failed = {}
      BY <2>1, <2>2, <2>3 DEF IsFirstFailure
    <3>2. QED
      BY <2>1, <2>3, <3>1 DEF OriginalError
  <2>4. CASE firstError # NoError
    <3>1. firstError + 1 \in failed /\ \A i \in failed : firstError <= i - 1
      BY <2>1, <2>2, <2>4 DEF IsFirstFailure
    <3>2. QED
      BY <2>1, <2>4, <3>1 DEF OriginalError
  <2>5. QED
    BY <2>3, <2>4
<1>2. QED
  BY <1>1, Invariance, PTL

\* Whatever the blocks of a directory hold and whatever the mode, a block whose entries the
\* listing lacks has its anomaly, and so has a size cut down to the data region or the
\* volume.  A block that such a size, when it is no int, puts out of reach has the latter
\* only (directory_scan.go:435).
THEOREM NothingLostInSilence == Spec => []EveryLossNoted
<1>1. ASSUME IInv PROVE EveryLossNoted
  <2> SUFFICES ASSUME Walked PROVE EveryLossNoted
    BY DEF EveryLossNoted
  <2>1. total <= DataSpace /\ (total < size => LimitNoted(listing)) /\ LossesNoted(disk, listing)
    BY <1>1 DEF IInv, NoteInv
  <2>2. ASSUME NEW i \in DOMAIN disk, Far(i - 1) PROVE total < size
    <3>1. i - 1 \in Nat /\ size \in Nat /\ total \in Nat
      BY <1>1, LenProperties DEF IInv, ShapeInv
    <3>2. (i - 1) * DirectoryBlockSize \in Nat
      BY <3>1, SizeAssumption
    <3>3. size > MaxInt
      BY <2>2, <3>1, <3>2, SizeAssumption DEF Far
    <3>4. QED
      BY <2>1, <3>1, <3>3, SizeAssumption
  <2>3. QED
    BY <2>1, <2>2 DEF LossesNoted, LimitNoted, EveryLossNoted
<1>2. QED
  BY <1>1, Invariance, PTL

LEMMA TruncatedExactly == ASSUME IInv PROVE TruncatedMeansCut
<1> SUFFICES ASSUME Walked
             PROVE  listing.truncated <=> \/ Len(disk) * DirectoryBlockSize < total
                                          \/ pending # <<>>
  BY DEF TruncatedMeansCut
<1>1. total \in Nat /\ total > 0 /\ Len(disk) \in Nat /\ maxBlocks \in Nat \ {0}
  BY LenProperties, MaxBlocksIsPositive DEF IInv, ShapeInv, Walked
<1>2. Len(disk) * DirectoryBlockSize < total <=> Len(disk) < BlocksOf(total)
  BY <1>1, CeilingMeant
<1>3. BlocksOf(total) \in Nat
  BY <1>1, CeilingMeant
<1>4. CASE pending # <<>>
  BY <1>4 DEF IInv, CapInv
<1>5. CASE pending = <<>>
  <2>1. /\ Len(disk) = Lesser(maxBlocks, BlocksOf(total))
        /\ listing.truncated <=> BlocksOf(total) > maxBlocks
    BY <1>5 DEF IInv, CapInv, TooMany
  <2>2. Len(disk) < BlocksOf(total) <=> BlocksOf(total) > maxBlocks
    BY <1>1, <1>3, <2>1 DEF Lesser
  <2>3. QED
    BY <1>2, <1>5, <2>1, <2>2
<1>6. QED
  BY <1>4, <1>5

\* Truncated is set exactly when one of the caps, whatever their values, left a block
\* untried or a record uncollected.
THEOREM TruncationIsExact == Spec => []TruncatedMeansCut
<1>1. QED
  BY TruncatedExactly, Invariance, PTL

-------------------------------------------------------------------------------
(* What is collected *)

\* The places that the walk has passed: all of those offered when nothing of the last
\* block is pending, otherwise those before the record whose turn it is.
Passed == {p \in Offered : pending # <<>> => Before(p, Here)}

PendingIsRest ==
  pending # <<>> =>
    /\ disk # <<>> /\ ~Lost(Last(disk)) /\ Len(pending) <= Len(Last(disk).records)
    /\ \A i \in DOMAIN pending :
         pending[i] = Last(disk).records[Len(Last(disk).records) - Len(pending) + i]

Listed ==
  /\ listing.entries \in Seq(Nat \X Nat) /\ Lists(listing.entries, Active(Passed))
  /\ options.includeDeleted =>
       listing.records \in Seq(Nat \X Nat) /\ Lists(listing.records, Passed)

CollectInv ==
  /\ options.maxEntries \in Int
  /\ pc = "open" => collected = 0 /\ pending = <<>>
  /\ pc = "walk" \/ Walked =>
       /\ pending \in Seq(Kinds) /\ PendingIsRest
       /\ collected = Cardinality(Passed) /\ collected <= limit
       /\ Listed
  /\ Walked /\ pending # <<>> => collected >= maxEntries
  /\ Walked => result = ScanError(listing)

PlacesInv == IInv /\ CollectInv

LEMMA BlockRecords ==
  ASSUME NEW b \in Blocks
  PROVE  /\ b.records \in Seq(Kinds) /\ Len(b.records) <= MaxRecords
         /\ b.state \notin {"intact", "brokenFraming"} => b.records = <<>>
<1> DEFINE kinds == IF options.includeDeleted THEN Kinds ELSE {"active"}
<1>1. \/ b.state \in States \ {"intact", "brokenFraming"} /\ b.records = <<>>
      \/ b.state \in {"intact", "brokenFraming"} /\ \E n \in 0 .. MaxRecords : b.records \in [1 .. n -> kinds]
  BY DEF Blocks
<1>2. kinds \subseteq Kinds
  BY DEF Kinds
<1>3. CASE b.state \in States \ {"intact", "brokenFraming"} /\ b.records = <<>>
  BY <1>3, SizeAssumption
<1>4. CASE b.state \in {"intact", "brokenFraming"} /\ \E n \in 0 .. MaxRecords : b.records \in [1 .. n -> kinds]
  <2>1. PICK n \in 0 .. MaxRecords : b.records \in [1 .. n -> Kinds]
    BY <1>2, <1>4
  <2>2. b.records \in Seq(Kinds) /\ Len(b.records) = n
    BY <2>1, SizeAssumption, SeqDef, LenProperties
  <2>3. QED
    BY <1>4, <2>1, <2>2, SizeAssumption
<1>5. QED
  BY <1>1, <1>3, <1>4

\* Places are finitely many, and each is in the disk.
LEMMA OfferedIsFinite ==
  ASSUME disk \in Seq(Blocks)
  PROVE  /\ IsFiniteSet(Offered) /\ Offered \subseteq Nat \X Nat
         /\ \A p \in Offered : /\ p[1] + 1 \in DOMAIN disk /\ ~Lost(disk[p[1] + 1])
                               /\ p[2] \in 1 .. Len(disk[p[1] + 1].records)
<1> DEFINE Grid == (0 .. Len(disk)) \X (1 .. MaxRecords)
<1>1. Len(disk) \in Nat /\ DOMAIN disk = 1 .. Len(disk) /\ MaxRecords \in Nat
  BY LenProperties, SizeAssumption
<1>2. ASSUME NEW p \in Offered
      PROVE  /\ p \in Grid /\ p[1] + 1 \in DOMAIN disk /\ ~Lost(disk[p[1] + 1])
             /\ p[2] \in 1 .. Len(disk[p[1] + 1].records)
  <2>1. PICK i \in DOMAIN disk : ~Lost(disk[i]) /\ \E r \in DOMAIN disk[i].records : p = <<i - 1, r>>
    BY DEF Offered
  <2>2. PICK r \in DOMAIN disk[i].records : p = <<i - 1, r>>
    BY <2>1
  <2>3. disk[i] \in Blocks
    BY <1>1
  <2>4. disk[i].records \in Seq(Kinds) /\ Len(disk[i].records) <= MaxRecords
    BY <2>3, BlockRecords
  <2>5. r \in 1 .. Len(disk[i].records) /\ Len(disk[i].records) \in Nat
    BY <2>2, <2>4, LenProperties
  <2>6. i - 1 \in 0 .. Len(disk) /\ r \in 1 .. MaxRecords /\ (i - 1) + 1 = i
    BY <1>1, <2>4, <2>5
  <2>7. QED
    BY <2>1, <2>2, <2>5, <2>6
<1>3. IsFiniteSet(Grid)
  <2>1. IsFiniteSet(0 .. Len(disk)) /\ IsFiniteSet(1 .. MaxRecords)
    BY <1>1, FS_Interval
  <2>2. QED
    BY <2>1, FS_Product
<1>4. IsFiniteSet(Offered)
  BY <1>2, <1>3, FS_Subset
<1>5. Grid \subseteq Nat \X Nat
  BY <1>1
<1>6. QED
  BY <1>2, <1>4, <1>5

LEMMA ListsMore ==
  ASSUME NEW s \in Seq(Nat \X Nat), NEW P, Lists(s, P), NEW e \in Nat \X Nat, \A p \in P : Before(p, e)
  PROVE  Append(s, e) \in Seq(Nat \X Nat) /\ Lists(Append(s, e), P \cup {e})
<1> DEFINE u == Append(s, e)
<1>1. /\ u \in Seq(Nat \X Nat) /\ DOMAIN u = 1 .. Len(s) + 1 /\ DOMAIN s = 1 .. Len(s) /\ Len(s) \in Nat
      /\ u[Len(s) + 1] = e /\ \A i \in DOMAIN s : u[i] = s[i]
  BY Appended
<1> HIDE DEF u
<1>2. \A i \in DOMAIN s : s[i] \in P
  BY DEF Lists, ToSet
<1>3. ToSet(u) = P \cup {e}
  <2>1. ASSUME NEW i \in DOMAIN u PROVE u[i] \in P \cup {e}
    <3>1. i \in DOMAIN s \/ i = Len(s) + 1
      BY <1>1
    <3>2. QED
      BY <1>1, <1>2, <3>1
  <2>2. ASSUME NEW q \in P PROVE q \in ToSet(u)
    <3>1. PICK i \in DOMAIN s : s[i] = q
      BY DEF Lists, ToSet
    <3>2. i \in DOMAIN u /\ u[i] = q
      BY <1>1, <3>1
    <3>3. QED
      BY <3>2 DEF ToSet
  <2>3. e \in ToSet(u)
    <3>1. Len(s) + 1 \in DOMAIN u
      BY <1>1
    <3>2. QED
      BY <1>1, <3>1 DEF ToSet
  <2>4. QED
    BY <2>1, <2>2, <2>3 DEF ToSet
<1>4. ASSUME NEW i \in DOMAIN u, NEW j \in DOMAIN u, i < j PROVE Before(u[i], u[j])
  <2>1. i \in 1 .. Len(s) + 1 /\ j \in 1 .. Len(s) + 1 /\ Len(s) \in Nat
    BY <1>1
  <2>2. i \in 1 .. Len(s) /\ (j = Len(s) + 1 \/ j \in 1 .. Len(s))
    BY <1>4, <2>1
  <2>3. i \in DOMAIN s /\ (j = Len(s) + 1 \/ j \in DOMAIN s)
    BY <1>1, <2>2
  <2>4. u[i] = s[i] /\ s[i] \in P
    BY <1>1, <1>2, <2>3
  <2>5. CASE j = Len(s) + 1
    BY <1>1, <2>4, <2>5
  <2>6. CASE j \in DOMAIN s
    BY <1>1, <1>4, <2>3, <2>4, <2>6 DEF Lists
  <2>7. QED
    BY <2>3, <2>5, <2>6
<1>5. QED
  BY <1>1, <1>3, <1>4 DEF Lists, u

LEMMA LimitIsNatural == ASSUME options.maxEntries \in Int PROVE maxEntries \in Int /\ limit \in Nat
  BY LimitAssumption DEF maxEntries, limit

LEMMA NoteKeeps ==
  ASSUME NEW l, DOMAIN l = Fields, NEW code, NEW at
  PROVE  /\ DOMAIN Note(l, code, at) = Fields
         /\ Note(l, code, at).entries = l.entries /\ Note(l, code, at).records = l.records
  BY DEF Note, Fields

LEMMA InitPlaces == Init => PlacesInv
<1> SUFFICES ASSUME Init PROVE PlacesInv
  OBVIOUS
<1>1. options.maxEntries \in Int
  BY LimitAssumption DEF Init
<1>2. QED
  BY <1>1, InitInv DEF Init, PlacesInv, CollectInv, Walked

LEMMA PlanPlaces == ASSUME PlacesInv, Plan PROVE CollectInv'
<1>1. /\ pc = "open" /\ disk = <<>> /\ collected = 0 /\ pending = <<>> /\ listing = EmptyListing
      /\ UNCHANGED <<args, disk, pending, collected>>
  BY DEF PlacesInv, IInv, ShapeInv, CollectInv, Plan
<1>2. listing'.entries = <<>> /\ listing'.records = <<>>
  <2> DEFINE l0 == listing
             l1 == IF size > DataSpace THEN Note(l0, "directory_size_exceeds_data_space", -1) ELSE l0
             l2 == IF total' < (IF size > DataSpace THEN DataSpace ELSE size)
                   THEN Note(l1, "directory_size_exceeds_volume", -1) ELSE l1
             l3 == IF total' % DirectoryBlockSize # 0 THEN Note(l2, "directory_size_unaligned", -1) ELSE l2
             count == Ceiling(total', DirectoryBlockSize)
             l4 == [l3 EXCEPT !.format = IF count = 1 THEN "block" ELSE "multi_block",
                              !.truncated = TooMany(count)]
  <2>1. listing' \in {l2, Note(l2, "directory_empty", -1), l4}
    BY <1>1 DEF Plan
  <2>2. DOMAIN l0 = Fields /\ l0.entries = <<>> /\ l0.records = <<>>
    BY <1>1 DEF EmptyListing, Fields
  <2> HIDE DEF l0
  <2>3. DOMAIN l1 = Fields /\ l1.entries = <<>> /\ l1.records = <<>>
    BY <2>2, NoteKeeps
  <2> HIDE DEF l1
  <2>4. DOMAIN l2 = Fields /\ l2.entries = <<>> /\ l2.records = <<>>
    BY <2>3, NoteKeeps
  <2> HIDE DEF l2
  <2>5. DOMAIN l3 = Fields /\ l3.entries = <<>> /\ l3.records = <<>>
    BY <2>4, NoteKeeps
  <2>6. Note(l2, "directory_empty", -1).entries = <<>> /\ Note(l2, "directory_empty", -1).records = <<>>
    BY <2>4, NoteKeeps
  <2> HIDE DEF l3
  <2>7. l4.entries = <<>> /\ l4.records = <<>>
    BY <2>5 DEF Fields
  <2> HIDE DEF l4
  <2>8. QED
    BY <2>1, <2>4, <2>6, <2>7
<1>3. Offered' = {} /\ Passed' = {} /\ Active(Passed)' = {}
  BY <1>1 DEF Offered, Passed, Active
<1>4. Cardinality({}) = 0
  BY FS_EmptySet
<1>5. options' = options /\ limit' \in Nat
  <2>1. options' = options
    BY <1>1 DEF args
  <2>2. maxEntries' = maxEntries /\ limit' = limit
    BY <2>1 DEF maxEntries, limit
  <2>3. QED
    BY <2>1, <2>2, LimitIsNatural DEF PlacesInv, CollectInv
<1>6. Listed'
  BY <1>2, <1>3 DEF Listed, Lists, ToSet
<1>7. pc' # "open" /\ pending' = <<>> /\ <<>> \in Seq(Kinds)
  BY <1>1 DEF Plan, Return
<1>8. ~Walked'
  BY DEF Plan, Return, Walked, PlacesInv, IInv, ShapeInv
<1>9. QED
  BY <1>1, <1>3, <1>4, <1>5, <1>6, <1>7, <1>8 DEF CollectInv, PendingIsRest, PlacesInv

\* A block that is read adds its places after all the others.
LEMMA ScanBlockPlaces == ASSUME PlacesInv, ScanBlock PROVE CollectInv'
<1>1. PICK b \in Blocks :
        /\ b.state = "passed" <=> Far(Len(disk))
        /\ disk' = Append(disk, b)
        /\ \/ ReadFailed(b) \/ PassedOver(b) \/ Hole(b)
           \/ Unexpected(b) \/ ParseFailed(b) \/ Parsed(b)
  BY DEF ScanBlock
<1>2. /\ pc = "walk" /\ pending = <<>> /\ UNCHANGED <<args, pc, total, collected, result>>
      /\ disk \in Seq(Blocks) /\ DOMAIN listing = Fields
  BY DEF ScanBlock, PlacesInv, IInv, ShapeInv
<1>3. /\ disk' \in Seq(Blocks) /\ Len(disk') = Len(disk) + 1
      /\ DOMAIN disk' = 1 .. Len(disk) + 1 /\ DOMAIN disk = 1 .. Len(disk) /\ Len(disk) \in Nat
      /\ disk'[Len(disk) + 1] = b /\ \A i \in DOMAIN disk : disk'[i] = disk[i]
  BY <1>1, <1>2, Appended
<1>4. \A d : Lost(d)' = Lost(d)
  BY <1>2 DEF Lost, ParseFails, args
<1>5. b.records \in Seq(Kinds) /\ (b.state \notin {"intact", "brokenFraming"} => b.records = <<>>)
  BY BlockRecords
<1>6. /\ listing'.entries = listing.entries /\ listing'.records = listing.records
      /\ \/ pending' = b.records /\ ~Lost(b)
         \/ pending' = <<>> /\ (Lost(b) \/ b.records = <<>>)
  <2>1. CASE ReadFailed(b)
    BY <1>2, <2>1 DEF ReadFailed, Note, Lost, Fields
  <2>2. CASE Hole(b)
    BY <1>2, <1>5, <2>2 DEF Hole, Scanned, Fields
  <2>3. CASE Unexpected(b)
    BY <1>2, <2>3 DEF Unexpected, Note, Scanned, Lost, Fields
  <2>4. CASE ParseFailed(b)
    BY <1>2, <2>4 DEF ParseFailed, Note, Scanned, Lost, Fields
  <2>5. CASE Parsed(b)
    BY <1>2, <2>5 DEF Parsed, Note, Scanned, Lost, Fields
  <2>6. CASE PassedOver(b)
    BY <1>2, <2>6 DEF PassedOver, Lost
  <2>7. QED
    BY <1>1, <2>1, <2>2, <2>3, <2>4, <2>5, <2>6
<1>7. Passed = Offered
  BY <1>2 DEF Passed
<1>8. \A p : p \in Offered' <=> p \in Offered \/ (~Lost(b) /\ \E r \in DOMAIN b.records : p = <<Len(disk), r>>)
  <2>1. ASSUME NEW p, p \in Offered' PROVE p \in Offered \/ (~Lost(b) /\ \E r \in DOMAIN b.records : p = <<Len(disk), r>>)
    <3>1. PICK i \in DOMAIN disk' : ~Lost(disk'[i]) /\ \E r \in DOMAIN disk'[i].records : p = <<i - 1, r>>
      BY <1>4, <2>1 DEF Offered
    <3>2. CASE i \in DOMAIN disk
      BY <1>3, <3>1, <3>2 DEF Offered
    <3>3. CASE i = Len(disk) + 1
      <4>1. i - 1 = Len(disk)
        BY <1>3, <3>3
      <4>2. QED
        BY <1>3, <3>1, <3>3, <4>1
    <3>4. QED
      BY <1>3, <3>1, <3>2, <3>3
  <2>2. ASSUME NEW p \in Offered PROVE p \in Offered'
    <3>1. PICK i \in DOMAIN disk : ~Lost(disk[i]) /\ \E r \in DOMAIN disk[i].records : p = <<i - 1, r>>
      BY DEF Offered
    <3>2. i \in DOMAIN disk' /\ disk'[i] = disk[i]
      BY <1>3, <3>1
    <3>3. QED
      BY <1>4, <3>1, <3>2 DEF Offered
  <2>3. ASSUME ~Lost(b), NEW r \in DOMAIN b.records PROVE <<Len(disk), r>> \in Offered'
    <3>1. Len(disk) + 1 \in DOMAIN disk' /\ (Len(disk) + 1) - 1 = Len(disk)
      BY <1>3
    <3>2. QED
      BY <1>3, <1>4, <2>3, <3>1 DEF Offered
  <2>4. QED
    BY <2>1, <2>2, <2>3
<1>9. \A p \in Offered : p \in Nat \X Nat /\ p[1] < Len(disk) /\ (KindAt(p))' = KindAt(p)
  <2>1. ASSUME NEW p \in Offered PROVE p \in Nat \X Nat /\ p[1] < Len(disk) /\ (KindAt(p))' = KindAt(p)
    <3>1. p \in Nat \X Nat /\ p[1] + 1 \in DOMAIN disk
      BY <1>2, OfferedIsFinite
    <3>2. p[1] \in Nat /\ p[1] < Len(disk) /\ disk'[p[1] + 1] = disk[p[1] + 1]
      BY <1>3, <3>1
    <3>3. QED
      BY <3>1, <3>2 DEF KindAt
  <2>2. QED
    BY <2>1
<1>10. Passed' = Offered
  <2>1. CASE pending' = b.records /\ ~Lost(b) /\ b.records # <<>>
    <3>1. Last(disk') = b /\ Len(disk') - 1 = Len(disk) /\ Len(b.records) \in Nat /\ DOMAIN b.records = 1 .. Len(b.records)
      BY <1>3, <1>5, LenProperties DEF Last
    <3>2. Here' = <<Len(disk), 1>>
      BY <2>1, <3>1 DEF Here
    <3>3. \A p \in Offered : Before(p, <<Len(disk), 1>>)
      BY <1>9 DEF Before
    <3>4. \A r \in DOMAIN b.records : ~Before(<<Len(disk), r>>, <<Len(disk), 1>>)
      BY <1>3, <3>1 DEF Before
    <3>5. \A p : p \in Passed' <=> p \in Offered' /\ (Before(p, Here))'
      BY <2>1 DEF Passed
    <3>6. \A p : (Before(p, Here))' <=> Before(p, <<Len(disk), 1>>)
      BY <3>2 DEF Before
    <3>7. QED
      BY <1>8, <3>3, <3>4, <3>5, <3>6
  <2>2. CASE pending' = <<>> /\ (Lost(b) \/ b.records = <<>>)
    <3>1. Passed' = Offered'
      BY <2>2 DEF Passed
    <3>2. b.records = <<>> => DOMAIN b.records = {}
      OBVIOUS
    <3>3. QED
      BY <1>8, <2>2, <3>1, <3>2
  <2>3. QED
    BY <1>6, <2>1, <2>2
<1>11. Active(Passed)' = Active(Passed)
  BY <1>7, <1>9, <1>10 DEF Active
<1>12. PendingIsRest' /\ pending' \in Seq(Kinds)
  <2>1. CASE pending' = <<>>
    BY <2>1 DEF PendingIsRest
  <2>2. CASE pending' = b.records /\ ~Lost(b)
    <3>1. Last(disk') = b /\ disk' # <<>> /\ Len(b.records) \in Nat /\ DOMAIN b.records = 1 .. Len(b.records)
      BY <1>3, <1>5, LenProperties, EmptySeq DEF Last
    <3>2. \A i \in DOMAIN b.records : Len(b.records) - Len(b.records) + i = i
      BY <3>1
    <3>3. ~Lost(Last(disk))'
      BY <1>4, <2>2, <3>1
    <3>4. QED
      BY <1>5, <2>2, <3>1, <3>2, <3>3 DEF PendingIsRest
  <2>3. QED
    BY <1>6, <2>1, <2>2
<1>13. Listed'
  <2>1. Listed
    BY <1>2 DEF PlacesInv, CollectInv
  <2>2. QED
    BY <1>2, <1>6, <1>7, <1>10, <1>11, <2>1 DEF Listed, args
<1>14. options' = options /\ limit' = limit /\ ~Walked' /\ pc' = "walk"
  BY <1>2 DEF args, limit, maxEntries, Walked
<1>15. QED
  BY <1>2, <1>7, <1>10, <1>12, <1>13, <1>14 DEF PlacesInv, CollectInv

\* Where the walk is, when something is pending.
LEMMA HereMeant ==
  ASSUME PlacesInv, pc = "walk" \/ Walked, pending # <<>>
  PROVE  /\ disk \in Seq(Blocks) /\ Len(disk) \in Nat \ {0} /\ DOMAIN disk = 1 .. Len(disk)
         /\ Last(disk) = disk[Len(disk)] /\ ~Lost(disk[Len(disk)])
         /\ Len(pending) \in 1 .. Len(disk[Len(disk)].records)
         /\ Len(disk[Len(disk)].records) \in Nat /\ pending \in Seq(Kinds)
         /\ Here = <<Len(disk) - 1, Len(disk[Len(disk)].records) - Len(pending) + 1>>
         /\ Here \in Offered /\ Here \in Nat \X Nat /\ KindAt(Here) = Head(pending)
<1> DEFINE n == Len(disk)
           L == Len(disk[n].records)
           m == Len(pending)
<1>1. /\ disk \in Seq(Blocks) /\ pending \in Seq(Kinds) /\ disk # <<>> /\ ~Lost(Last(disk))
      /\ Last(disk) = disk[n]
      /\ m <= Len(Last(disk).records)
      /\ \A i \in DOMAIN pending : pending[i] = Last(disk).records[Len(Last(disk).records) - m + i]
  BY DEF PlacesInv, IInv, ShapeInv, CollectInv, PendingIsRest, Last
<1>2. /\ n \in Nat \ {0} /\ DOMAIN disk = 1 .. n /\ m \in Nat \ {0} /\ DOMAIN pending = 1 .. m
      /\ n \in DOMAIN disk
  BY <1>1, LenProperties, EmptySeq
<1>3. disk[n] \in Blocks
  BY <1>1, <1>2, LenProperties
<1>4. disk[n].records \in Seq(Kinds) /\ L \in Nat /\ DOMAIN disk[n].records = 1 .. L
  BY <1>3, BlockRecords, LenProperties
<1>5. Here = <<n - 1, L - m + 1>>
  BY <1>1 DEF Here
<1>6. m \in 1 .. L /\ L - m + 1 \in 1 .. L /\ n - 1 \in Nat /\ (n - 1) + 1 = n /\ 1 \in 1 .. m
  BY <1>1, <1>2, <1>4
<1>7. Here \in Offered /\ Here \in Nat \X Nat
  <2>1. n \in DOMAIN disk /\ ~Lost(disk[n]) /\ L - m + 1 \in DOMAIN disk[n].records
    BY <1>1, <1>2, <1>4, <1>6
  <2>2. <<n - 1, L - m + 1>> \in Offered
    BY <2>1 DEF Offered
  <2>3. n - 1 \in Nat /\ L - m + 1 \in Nat
    BY <1>4, <1>6
  <2>4. QED
    BY <1>5, <2>2, <2>3
<1>8. pending[1] = disk[n].records[L - m + 1] /\ Head(pending) = pending[1]
  BY <1>1, <1>2, <1>6, HeadTailProperties
<1>9. KindAt(Here) = Head(pending)
  BY <1>5, <1>6, <1>8 DEF KindAt
<1>10. QED
  BY <1>1, <1>2, <1>4, <1>5, <1>6, <1>7, <1>9

\* A record that is collected is the next one.
LEMMA CollectPlaces == ASSUME PlacesInv, Collect PROVE CollectInv'
<1>1. /\ pc = "walk" /\ pending # <<>> /\ ~AtLimit /\ collected' = collected + 1 /\ pending' = Tail(pending)
      /\ UNCHANGED <<args, disk, pc, total, result>> /\ DOMAIN listing = Fields
  BY DEF Collect, PlacesInv, IInv, ShapeInv
<1> DEFINE n == Len(disk)
           recs == disk[n].records
           L == Len(recs)
           m == Len(pending)
<1>2. /\ disk \in Seq(Blocks) /\ n \in Nat \ {0} /\ DOMAIN disk = 1 .. n
      /\ Last(disk) = disk[n] /\ ~Lost(disk[n]) /\ m \in 1 .. L /\ L \in Nat /\ pending \in Seq(Kinds)
      /\ Here = <<n - 1, L - m + 1>> /\ Here \in Offered /\ Here \in Nat \X Nat
      /\ KindAt(Here) = Head(pending)
  BY <1>1, HereMeant
<1>3. PICK h : h = Here
  OBVIOUS
<1>4. /\ Offered' = Offered /\ (\A q : (KindAt(q))' = KindAt(q)) /\ maxEntries' = maxEntries /\ limit' = limit
      /\ options' = options /\ \A d : Lost(d)' = Lost(d)
  BY <1>1 DEF args, Offered, KindAt, Lost, ParseFails, maxEntries, limit
<1>5. /\ pending' \in Seq(Kinds) /\ Len(pending') = m - 1 /\ (pending' = <<>> <=> m = 1)
      /\ \A i \in 1 .. m - 1 : pending'[i] = pending[i + 1]
  <2>1. /\ Tail(pending) \in Seq(Kinds) /\ Len(Tail(pending)) = Len(pending) - 1
        /\ \A i \in 1 .. Len(Tail(pending)) : Tail(pending)[i] = pending[i + 1]
    BY <1>1, <1>2, HeadTailProperties
  <2>2. Tail(pending) = <<>> <=> Len(Tail(pending)) = 0
    BY <2>1, EmptySeq
  <2>3. QED
    BY <1>1, <1>2, <2>1, <2>2
<1>6. \A p \in Offered : p \in Nat \X Nat /\ p[1] <= n - 1 /\ (p[1] = n - 1 => p[2] <= L)
  <2>1. ASSUME NEW p \in Offered
        PROVE  p \in Nat \X Nat /\ p[1] <= n - 1 /\ (p[1] = n - 1 => p[2] <= L)
    <3>1. p \in Nat \X Nat /\ p[1] + 1 \in DOMAIN disk /\ p[2] \in 1 .. Len(disk[p[1] + 1].records)
      BY <1>2, OfferedIsFinite
    <3>2. p[1] \in Nat /\ p[1] <= n - 1 /\ (p[1] = n - 1 => p[1] + 1 = n)
      BY <1>2, <3>1
    <3>3. QED
      BY <1>2, <3>1, <3>2
  <2>2. QED
    BY <2>1
<1>7. Passed' = Passed \cup {h}
  <2>1. ASSUME NEW p \in Offered
        PROVE  (pending' # <<>> => (Before(p, Here))') <=> Before(p, Here) \/ p = Here
    <3>a. p \in Nat \X Nat /\ p[1] <= n - 1 /\ (p[1] = n - 1 => p[2] <= L)
      BY <1>6
    <3>b. p = <<p[1], p[2]>>
      BY <3>a
    <3>1. p \in Nat \X Nat /\ p = <<p[1], p[2]>> /\ p[1] <= n - 1 /\ (p[1] = n - 1 => p[2] <= L)
      BY <3>a, <3>b
    <3>2. CASE m = 1
      <4>1. Here = <<n - 1, L>> /\ pending' = <<>>
        BY <1>2, <1>5, <3>2
      <4>2. Before(p, <<n - 1, L>>) \/ p = <<n - 1, L>>
        <5>1. p[1] < n - 1 \/ (p[1] = n - 1 /\ p[2] < L) \/ (p[1] = n - 1 /\ p[2] = L)
          BY <1>2, <3>1
        <5>2. QED
          BY <3>1, <5>1 DEF Before
      <4>3. QED
        BY <4>1, <4>2
    <3>3. CASE m # 1
      <4>1. pending' # <<>> /\ Here' = <<n - 1, L - (m - 1) + 1>>
        BY <1>1, <1>2, <1>5, <3>3 DEF Here
      <4>2. (Before(p, Here))' <=> Before(p, <<n - 1, L - (m - 1) + 1>>)
        BY <4>1 DEF Before
      <4>3. L - (m - 1) + 1 = (L - m + 1) + 1 /\ L - m + 1 \in Nat
        BY <1>2
      <4>4. p[2] < (L - m + 1) + 1 <=> p[2] < L - m + 1 \/ p[2] = L - m + 1
        BY <3>1, <4>3
      <4>5. Before(p, <<n - 1, (L - m + 1) + 1>>) <=> Before(p, <<n - 1, L - m + 1>>) \/ p = <<n - 1, L - m + 1>>
        BY <3>1, <4>4 DEF Before
      <4>6. QED
        BY <1>2, <4>1, <4>2, <4>3, <4>5
    <3>4. QED
      BY <3>2, <3>3
  <2>2. \A p : p \in Passed' <=> p \in Offered /\ (pending' # <<>> => (Before(p, Here))')
    BY <1>4 DEF Passed
  <2>3. \A p : p \in Passed <=> p \in Offered /\ Before(p, Here)
    BY <1>1 DEF Passed
  <2>4. QED
    BY <1>2, <1>3, <2>1, <2>2, <2>3
<1>8. h \in Nat \X Nat /\ h \notin Passed /\ \A p \in Passed : Before(p, h)
  <2>1. ~Before(h, h)
    BY <1>2, <1>3 DEF Before
  <2>2. QED
    BY <1>1, <1>2, <1>3, <2>1 DEF Passed
<1>9. collected' = Cardinality(Passed)' /\ collected' <= limit'
  <2>1. IsFiniteSet(Passed)
    BY <1>2, OfferedIsFinite, FS_Subset DEF Passed
  <2>2. Cardinality(Passed) \in Nat /\ Cardinality(Passed \cup {h}) = Cardinality(Passed) + 1
    BY <1>8, <2>1, FS_CardinalityType, FS_AddElement
  <2>3. collected = Cardinality(Passed) /\ collected < maxEntries
    <3>1. collected = Cardinality(Passed) /\ maxEntries \in Int
      BY <1>1, LimitIsNatural DEF PlacesInv, CollectInv
    <3>2. QED
      BY <1>1, <2>2, <3>1 DEF AtLimit
  <2>4. maxEntries \in Int
    BY LimitIsNatural DEF PlacesInv, CollectInv
  <2>5. limit = maxEntries
    BY <2>2, <2>3, <2>4 DEF limit
  <2>6. QED
    BY <1>1, <1>4, <1>7, <2>2, <2>3, <2>4, <2>5
<1>10. Active(Passed)' = IF Head(pending) = "active" THEN Active(Passed) \cup {h} ELSE Active(Passed)
  <2>1. Active(Passed)' = {p \in Passed \cup {h} : KindAt(p) = "active"}
    BY <1>4, <1>7 DEF Active
  <2>2. QED
    BY <1>2, <1>3, <2>1 DEF Active
<1>11. Listed'
  <2>1. Listed
    BY <1>1 DEF PlacesInv, CollectInv
  <2>2. /\ listing'.records = IF options.includeDeleted THEN Append(listing.records, h) ELSE listing.records
        /\ listing'.entries = IF Head(pending) = "active" THEN Append(listing.entries, h) ELSE listing.entries
    BY <1>1, <1>3 DEF Collect, Fields
  <2>3. listing'.entries \in Seq(Nat \X Nat) /\ Lists(listing'.entries, Active(Passed)')
    <3>1. CASE Head(pending) = "active"
      <4>1. \A p \in Active(Passed) : Before(p, h)
        BY <1>8 DEF Active
      <4>2. listing.entries \in Seq(Nat \X Nat) /\ Lists(listing.entries, Active(Passed))
        BY <2>1 DEF Listed
      <4>3. /\ Append(listing.entries, h) \in Seq(Nat \X Nat)
            /\ Lists(Append(listing.entries, h), Active(Passed) \cup {h})
        BY <1>8, <4>1, <4>2, ListsMore
      <4>4. QED
        BY <1>10, <2>2, <3>1, <4>3
    <3>2. CASE Head(pending) # "active"
      BY <1>10, <2>1, <2>2, <3>2 DEF Listed
    <3>3. QED
      BY <3>1, <3>2
  <2>4. options.includeDeleted => listing'.records \in Seq(Nat \X Nat) /\ Lists(listing'.records, Passed')
    BY <1>7, <1>8, <2>1, <2>2, ListsMore DEF Listed
  <2>5. QED
    BY <1>4, <2>3, <2>4 DEF Listed, Lists, Before
<1>12. PendingIsRest'
  <2>1. CASE m = 1
    BY <1>5, <2>1 DEF PendingIsRest
  <2>2. CASE m # 1
    <3>1. DOMAIN pending' = 1 .. m - 1 /\ DOMAIN pending = 1 .. m
      BY <1>2, <1>5, LenProperties
    <3>2. \A i \in DOMAIN pending : pending[i] = recs[L - m + i]
      BY <1>1, <1>2 DEF PlacesInv, CollectInv, PendingIsRest
    <3>3. ASSUME NEW i \in DOMAIN pending' PROVE pending'[i] = recs[L - (m - 1) + i]
      <4>a. m \in Nat /\ L \in Nat /\ i \in 1 .. m - 1 /\ DOMAIN pending = 1 .. m
        BY <1>2, <3>1
      <4> HIDE DEF m, L
      <4>1. i \in 1 .. m - 1 /\ i + 1 \in DOMAIN pending /\ L - m + (i + 1) = L - (m - 1) + i
        BY <4>a
      <4> USE DEF m, L
      <4>2. QED
        BY <1>5, <3>2, <4>1
    <3>4. Last(disk)' = disk[n] /\ disk' # <<>> /\ ~Lost(Last(disk))' /\ Len(pending') <= L
      <4>1. disk' = disk /\ disk # <<>>
        BY <1>1, <1>2, EmptySeq
      <4>2. Last(disk)' = disk[n]
        BY <1>2, <4>1
      <4>3. Len(pending') <= L
        BY <1>2, <1>5
      <4>4. QED
        BY <1>2, <1>4, <4>1, <4>2, <4>3
    <3>5. QED
      BY <1>5, <3>3, <3>4 DEF PendingIsRest
  <2>3. QED
    BY <2>1, <2>2
<1>13. options'.maxEntries \in Int /\ ~Walked' /\ pc' = "walk"
  BY <1>1, <1>4 DEF Walked, PlacesInv, CollectInv
<1>14. QED
  BY <1>5, <1>9, <1>11, <1>12, <1>13 DEF CollectInv

\* Of a step that neither reads a block nor collects a record.
LEMMA PlacesKept ==
  ASSUME PlacesInv, UNCHANGED <<args, disk, total, pending, collected>>,
         listing'.entries = listing.entries, listing'.records = listing.records,
         pc' = "walk" \/ Walked' => pc = "walk" \/ Walked, pc' = "open" => pc = "open",
         Walked' /\ pending # <<>> => Walked \/ collected >= maxEntries,
         Walked' => result' = ScanError(listing)'
  PROVE  CollectInv'
<1>1. /\ options' = options /\ Offered' = Offered /\ Passed' = Passed /\ Active(Passed)' = Active(Passed)
      /\ limit' = limit /\ maxEntries' = maxEntries
  BY DEF args, Offered, Passed, Here, Active, KindAt, Lost, ParseFails, limit, maxEntries,
     Before
<1>2. Listed => Listed'
  BY <1>1 DEF Listed, Lists, Before
<1>3. PendingIsRest => PendingIsRest'
  BY DEF PendingIsRest, Lost, ParseFails, args
<1>4. QED
  BY <1>1, <1>2, <1>3 DEF PlacesInv, CollectInv

LEMMA StepPlaces == PlacesInv /\ [Next]_vars => PlacesInv'
<1> SUFFICES ASSUME PlacesInv, [Next]_vars PROVE PlacesInv'
  OBVIOUS
<1>1. IInv'
  BY StepInv DEF PlacesInv
<1> SUFFICES CollectInv'
  BY <1>1 DEF PlacesInv
<1>2. CASE UNCHANGED vars
  <2>1. UNCHANGED <<args, disk, pc, total, pending, collected, listing, firstError, result>> /\ (Walked' <=> Walked)
    BY <1>2 DEF vars, Walked, args
  <2>2. ScanError(listing)' = ScanError(listing)
    BY <2>1 DEF ScanError, args
  <2>3. Walked => result = ScanError(listing)
    BY DEF PlacesInv, CollectInv
  <2>4. QED
    BY <2>1, <2>2, <2>3, PlacesKept
<1>3. CASE OpenFails
  BY <1>3, PlacesKept DEF OpenFails, Return, Walked, args
<1>4. CASE ShortForm
  <2>1. ~Walked' /\ pc' = "returned" /\ options' = options
    BY <1>4 DEF ShortForm, Return, Walked, args
  <2>2. QED
    BY <2>1 DEF CollectInv, PlacesInv
<1>5. CASE EntryCap
  <2>1. listing'.entries = listing.entries /\ listing'.records = listing.records
    BY <1>5 DEF EntryCap, PlacesInv, IInv, ShapeInv, Fields
  <2>2. pc = "walk" /\ pc' = "returned" /\ collected >= maxEntries /\ UNCHANGED <<args, disk, total, pending, collected>>
    BY <1>5 DEF EntryCap, Return, AtLimit
  <2>3. result' = ScanError(listing)'
    BY <1>5 DEF EntryCap, Return, ScanError, args
  <2>4. QED
    BY <2>1, <2>2, <2>3, PlacesKept
<1>6. CASE WalkEnds
  <2>1. result' = ScanError(listing)'
    BY <1>6 DEF WalkEnds, Return, ScanError, args
  <2>2. QED
    BY <1>6, <2>1, PlacesKept DEF WalkEnds, Return
<1>7. QED
  BY <1>2, <1>3, <1>4, <1>5, <1>6, PlanPlaces, ScanBlockPlaces, CollectPlaces DEF Next, Returned

LEMMA PlacesInvariance == Spec => []PlacesInv
<1>1. QED
  BY InitPlaces, StepPlaces, PTL DEF Spec

\* However many blocks of a directory are damaged and in whatever way, the listing has in
\* their order the records of all the others, up to the cap on entries, and no block is
\* left out for the damage of another.  A block is damaged, too, when the size says that the
\* directory ends more than an int behind it: it reads as nothing (volume.go:247).
THEOREM DamageIsLocal == Spec => []DamageCostsItselfOnly
<1>1. ASSUME PlacesInv PROVE DamageCostsItselfOnly
  <2> DEFINE Upto(p) == {q \in Offered : Before(q, p)}
             taken == {p \in Offered : Cardinality(Upto(p)) < limit}
  <2> SUFFICES ASSUME Walked
               PROVE  /\ Lists(listing.entries, Active(taken))
                      /\ options.includeDeleted => Lists(listing.records, taken)
                      /\ Cardinality(Offered) <= limit =>
                           Len(disk) = Lesser(maxBlocks, Ceiling(total, DirectoryBlockSize))
    BY DEF DamageCostsItselfOnly
  <2>1. /\ disk \in Seq(Blocks) /\ limit \in Nat /\ maxEntries \in Int /\ collected = Cardinality(Passed)
        /\ collected <= limit /\ Listed /\ (pending # <<>> => collected >= maxEntries)
    BY <1>1, LimitIsNatural DEF PlacesInv, IInv, ShapeInv, CollectInv
  <2>2. IsFiniteSet(Offered) /\ Offered \subseteq Nat \X Nat
    BY <2>1, OfferedIsFinite
  <2>3. IsFiniteSet(Passed) /\ Passed \subseteq Offered /\ Cardinality(Passed) \in Nat
    BY <2>2, FS_Subset, FS_CardinalityType DEF Passed
  <2>4. pending # <<>> => Cardinality(Passed) = limit
    BY <2>1, <2>3 DEF limit
  <2>5. \A p \in Offered : IsFiniteSet(Upto(p)) /\ Cardinality(Upto(p)) \in Nat
    BY <2>2, FS_Subset, FS_CardinalityType
  <2>6. ASSUME NEW p \in Passed PROVE Cardinality(Upto(p)) < limit
    <3>1. Upto(p) \subseteq Passed
      <4>1. ASSUME NEW q \in Offered, Before(q, p), pending # <<>> PROVE Before(q, Here)
        <5>1. Before(p, Here)
          BY <4>1, <2>6 DEF Passed
        <5>2. q \in Nat \X Nat /\ p \in Nat \X Nat /\ Here \in Nat \X Nat
          BY <1>1, <2>2, <2>3, <4>1, HereMeant
        <5>3. QED
          BY <4>1, <5>1, <5>2 DEF Before
      <4>2. QED
        BY <4>1 DEF Passed
    <3>2. p \notin Upto(p)
      BY <2>2, <2>3 DEF Before
    <3>3. Cardinality(Upto(p)) < Cardinality(Passed)
      <4>1. Cardinality(Upto(p)) <= Cardinality(Passed) /\ Cardinality(Upto(p)) # Cardinality(Passed)
        <5> HIDE DEF Upto
        <5>1. QED
          BY <2>3, <3>1, <3>2, FS_Subset
      <4>2. Cardinality(Upto(p)) \in Nat
        BY <2>3, <2>5
      <4> HIDE DEF Upto
      <4>3. QED
        BY <2>3, <4>1, <4>2
    <3>4. Cardinality(Upto(p)) \in Nat
      BY <2>3, <2>5
    <3> HIDE DEF Upto
    <3>5. QED
      BY <2>1, <2>3, <3>3, <3>4
  <2>7. ASSUME NEW p \in Offered, p \notin Passed PROVE ~(Cardinality(Upto(p)) < limit)
    <3>1. pending # <<>> /\ ~Before(p, Here)
      BY <2>7 DEF Passed
    <3>2. Here \in Nat \X Nat /\ p \in Nat \X Nat
      BY <1>1, <2>2, <3>1, HereMeant
    <3>3. ASSUME NEW q \in Passed PROVE q \in Upto(p)
      <4>1. q \in Offered /\ Before(q, Here) /\ q \in Nat \X Nat
        BY <2>2, <3>1 DEF Passed
      <4>2. Before(q, p)
        BY <3>1, <3>2, <4>1 DEF Before
      <4>3. QED
        BY <4>1, <4>2
    <3>4. IsFiniteSet(Upto(p)) /\ Cardinality(Upto(p)) \in Nat
      BY <2>5
    <3> HIDE DEF Upto
    <3>5. Cardinality(Passed) <= Cardinality(Upto(p))
      BY <3>3, <3>4, FS_Subset
    <3>6. QED
      BY <2>1, <2>4, <3>1, <3>4, <3>5
  <2>8. taken = Passed
    BY <2>3, <2>6, <2>7
  <2>9. ASSUME Cardinality(Offered) <= limit PROVE Len(disk) = Lesser(maxBlocks, Ceiling(total, DirectoryBlockSize))
    <3>1. pending = <<>>
      <4>1. SUFFICES ASSUME pending # <<>> PROVE FALSE
        OBVIOUS
      <4>2. Here \in Offered /\ Here \in Nat \X Nat
        BY <1>1, <4>1, HereMeant
      <4>3. Here \notin Passed
        BY <4>1, <4>2 DEF Passed, Before
      <4>4. Cardinality(Passed) <= Cardinality(Offered) /\ Cardinality(Passed) # Cardinality(Offered)
        BY <2>2, <2>3, <4>2, <4>3, FS_Subset
      <4>5. Cardinality(Offered) \in Nat
        BY <2>2, FS_CardinalityType
      <4>6. QED
        BY <2>1, <2>3, <2>4, <2>9, <4>1, <4>4, <4>5
    <3>2. QED
      BY <1>1, <3>1 DEF PlacesInv, IInv, CapInv, BlocksOf
  <2>10. QED
    BY <2>1, <2>8, <2>9 DEF Listed
<1>2. QED
  BY <1>1, PlacesInvariance, PTL

\* A listing that comes without an error is whole: whatever the directory, all of its blocks
\* were read and understood, but for those that a size that is no int puts out of reach, and
\* all of their entries are listed, in their order.
THEOREM SilenceIsWhole == Spec => []NilIsWhole
<1>1. ASSUME PlacesInv PROVE NilIsWhole
  <2> SUFFICES ASSUME Walked, result = "nil", ~options.bestEffort, options.maxBlocks = 0, options.maxEntries = 0
               PROVE  /\ Len(disk) * DirectoryBlockSize >= total
                      /\ \A i \in DOMAIN disk : disk[i].state \in {"zero", "intact"} \/ Far(i - 1)
                      /\ Lists(listing.entries, Active(Offered))
    BY DEF NilIsWhole
  <2>1. firstError = NoError /\ ~listing.truncated
    BY <1>1 DEF PlacesInv, CollectInv, ScanError
  <2>2. ~(Len(disk) * DirectoryBlockSize < total) /\ pending = <<>>
    BY <1>1, <2>1, TruncatedExactly DEF PlacesInv, TruncatedMeansCut
  <2>3. disk \in Seq(Blocks) /\ Len(disk) \in Nat /\ total \in Nat /\ DirectoryBlockSize \in Nat
    BY <1>1, LenProperties, SizeAssumption DEF PlacesInv, IInv, ShapeInv
  <2>4. Len(disk) * DirectoryBlockSize >= total
    BY <2>2, <2>3
  <2>5. ASSUME NEW i \in DOMAIN disk PROVE disk[i].state \in {"zero", "intact"} \/ Far(i - 1)
    <3>1. ~Failed(disk[i])
      BY <1>1, <2>1 DEF PlacesInv, IInv, ErrorInv, IsFirstFailure
    <3>2. disk[i] \in Blocks
      BY <2>3, LenProperties
    <3>3. disk[i].state \in States
      BY <3>2 DEF Blocks, States
    <3>4. disk[i].state = "passed" => Far(i - 1)
      BY <1>1 DEF PlacesInv, IInv, NoteInv, LossesNoted, Lost
    <3>5. QED
      BY <3>1, <3>3, <3>4 DEF Failed, Lost, ParseFails, States
  <2>6. Passed = Offered
    BY <2>2 DEF Passed
  <2>7. QED
    BY <1>1, <2>4, <2>5, <2>6 DEF PlacesInv, CollectInv, Listed
<1>2. QED
  BY <1>1, PlacesInvariance, PTL

-------------------------------------------------------------------------------
(* DirectoryBlock *)


(* What a state of the walk consists of. *)

Found == [kind : {"active", "free", "carved"}, at : Nat, len : Nat]
Codes == {"truncated", "identity", "length", "limit"}

Inputs ==
  /\ layout \in Layouts /\ damaged \in SUBSET DOMAIN layout.records
  /\ zeroTailStart \in PaddingStarts /\ end \in Ends /\ end >= layout.zeros
  /\ bestEffort \in BOOLEAN /\ includeDeleted \in BOOLEAN

\* The offset has not passed the end, but for the last resynchronisation; while a free run
\* is carved, the cursor stays behind its header.
Typed ==
  /\ Inputs
  /\ phase \in {"frame", "carve", "done"} /\ offset \in Nat /\ cursor \in Nat /\ slotEnd \in Nat
  /\ records \in Seq(Found) /\ anomalies \in Seq(Codes) /\ verdict \in {"none", "ok", "error"}

-------------------------------------------------------------------------------
(* The layout. *)

\* What can be read somewhere has the shape of a record, and lies in the block.
LEMMA RecordsOf ==
  ASSUME Inputs
  PROVE  /\ layout.zeros \in Nat /\ end \in Nat
         /\ Intact \subseteq DOMAIN layout.records
         /\ \A s \in DOMAIN layout.records :
              /\ s \in Nat /\ layout.records[s].len \in Nat \ {0}
              /\ s + layout.records[s].len <= layout.zeros
              /\ \/ layout.records[s].kind = "active" /\ layout.records[s].len >= Overhead
                 \/ layout.records[s].kind = "free" /\ layout.records[s].len >= TagSize
              /\ \A t \in DOMAIN layout.records : s < t => s + layout.records[s].len <= t
<1>1. layout \in Layouts /\ end \in Nat
  BY UnitAssumption DEF Inputs
<1>2. layout.zeros \in Nat /\ \A s \in DOMAIN layout.records : Laid(layout, s)
  BY <1>1, LayoutAssumption
<1>3. TagSize \in Nat \ {0} /\ Overhead \in Nat \ {0}
  BY UnitAssumption
<1>4. QED
  BY <1>1, <1>2, <1>3 DEF Laid, Aligned, Intact

\* The padding begins behind every undamaged record.
LEMMA PaddingBehind ==
  ASSUME Inputs
  PROVE  /\ zeroTailStart \in Nat /\ zeroTailStart <= layout.zeros
         /\ \A s \in Intact : s < zeroTailStart
         /\ zeroTailStart = layout.zeros \/ zeroTailStart \in DOMAIN layout.records
<1> DEFINE S == Intact \cup {-1}
           T == {n \in Nat : \E s \in S : n = layout.zeros - s}
<1>1. layout.zeros \in Nat /\ \A s \in S : s \in Int /\ s <= layout.zeros
  BY RecordsOf
<1>2. layout.zeros + 1 \in T /\ T \subseteq Nat
  <2>1. -1 \in S /\ layout.zeros + 1 = layout.zeros - (-1) /\ layout.zeros + 1 \in Nat
    BY <1>1
  <2> HIDE DEF S
  <2>2. QED
    BY <2>1
<1>3. PICK n \in T : \A k \in T : n <= k
  BY <1>2, Least
<1>4. PICK s \in S : n = layout.zeros - s
  BY <1>3
<1>5. \A r \in S : s >= r
  <2>1. ASSUME NEW r \in S PROVE s >= r
    <3>1. layout.zeros - r \in T
      BY <1>1
    <3>2. n <= layout.zeros - r
      BY <1>3, <3>1
    <3>3. QED
      BY <1>1, <1>4, <3>2
  <2>2. QED
    BY <2>1
<1>6. Max(S) \in S /\ \A r \in S : Max(S) >= r
  <2> HIDE DEF S
  <2>1. QED
    BY <1>4, <1>5 DEF Max
<1>7. zeroTailStart = layout.zeros \/ (zeroTailStart \in DOMAIN layout.records /\ zeroTailStart > Max(S))
  BY DEF Inputs, PaddingStarts
<1>8. CASE zeroTailStart = layout.zeros
  BY <1>8, RecordsOf
<1>9. CASE zeroTailStart \in DOMAIN layout.records /\ zeroTailStart > Max(S)
  <2>1. zeroTailStart \in Nat /\ zeroTailStart <= layout.zeros
    BY <1>9, RecordsOf
  <2>2. \A r \in Intact : Max(S) >= r /\ r \in Int
    BY <1>1, <1>6
  <2>3. Max(S) \in Int
    BY <1>1, <1>6
  <2> HIDE DEF S
  <2>4. \A r \in Intact : r < zeroTailStart
    BY <1>9, <2>1, <2>2, <2>3
  <2>5. QED
    BY <1>9, <2>1, <2>4
<1>10. QED
  BY <1>7, <1>8, <1>9

\* What can be read at an offset.
LEMMA Seen ==
  ASSUME Typed, NEW at \in Nat, NEW seen \in Reading(at)
  PROVE  /\ seen.kind \in {"none", "active", "free"} /\ seen.len \in Nat
         /\ seen.kind = "active" => seen.len > 0
         /\ at \in Intact => seen = layout.records[at]
         /\ at >= zeroTailStart => seen.kind = "none"
<1>1. Inputs
  BY DEF Typed
<1>2. at \in Intact => at < zeroTailStart /\ zeroTailStart \in Nat
  BY <1>1, PaddingBehind
<1>3. CASE at >= zeroTailStart
  <2>1. seen = NoRecord /\ at \notin Intact
    BY <1>2, <1>3 DEF Reading
  <2>2. QED
    BY <2>1 DEF NoRecord
<1>4. CASE ~(at >= zeroTailStart) /\ at \in Intact
  <2>1. seen = layout.records[at] /\ at \in DOMAIN layout.records
    BY <1>1, <1>4, RecordsOf DEF Reading
  <2>2. QED
    BY <1>1, <1>4, <2>1, RecordsOf
<1>5. CASE ~(at >= zeroTailStart) /\ at \notin Intact
  <2>1. seen \in {NoRecord} \cup Phantoms
    BY <1>5 DEF Reading
  <2>2. QED
    BY <1>5, <2>1, UnitAssumption DEF NoRecord, Phantoms
<1>6. QED
  BY <1>3, <1>4, <1>5

\* The next aligned offset is one, and the nearest.
LEMMA NextAligned ==
  ASSUME NEW at \in Nat
  PROVE  /\ nextAlignedOffset(at) \in Nat /\ nextAlignedOffset(at) > at
         /\ Aligned(nextAlignedOffset(at))
         /\ \A s \in Nat : Aligned(s) /\ at < s => nextAlignedOffset(at) <= s
<1> DEFINE q == at \div Align
           r == at % Align
<1>1. Align \in Nat \ {0}
  BY UnitAssumption
<1>2. q \in Nat /\ r \in 0 .. Align - 1 /\ at = q * Align + r
  <2>1. at \in Int /\ q \in Nat
    BY <1>1, NatDiv
  <2>2. r \in 0 .. Align - 1 /\ at = q * Align + r
    BY <1>1, <2>1, DivMod
  <2>3. QED
    BY <2>1, <2>2
<1>3. nextAlignedOffset(at) = at + Align - r
  BY DEF nextAlignedOffset
<1> HIDE DEF q, r
<1>4. q * Align \in Nat /\ (q + 1) * Align = q * Align + Align
  BY <1>1, <1>2
<1> DEFINE n == (q + 1) * Align
<1>5. nextAlignedOffset(at) = n /\ n \in Nat /\ n > at
  BY <1>1, <1>2, <1>3, <1>4
<1>6. n % Align = 0
  <2>1. ((q + 1) * Align + 0) % Align = 0
    BY <1>1, <1>2, DivModUnique
  <2>2. n + 0 = n
    BY <1>5
  <2>3. QED
    BY <2>1, <2>2
<1>7. ASSUME NEW s \in Nat, Aligned(s), at < s PROVE n <= s
  <2> DEFINE p == s \div Align
  <2>1. p \in Nat /\ s = p * Align + (s % Align) /\ s % Align = 0
    BY <1>1, <1>7, DivMod, NatDiv DEF Aligned
  <2> HIDE DEF p
  <2>2. s = p * Align
    BY <1>1, <2>1
  <2>3. ~(p <= q)
    <3>1. p <= q => p * Align <= q * Align
      BY <1>1, <1>2, <2>1, ProductsGrow
    <3>2. QED
      BY <1>2, <1>4, <1>7, <2>1, <2>2, <3>1
  <2>4. q + 1 <= p
    BY <1>2, <2>1, <2>3
  <2>5. QED
    BY <1>1, <1>2, <2>1, <2>2, <2>4, ProductsGrow
<1>8. QED
  BY <1>5, <1>6, <1>7 DEF Aligned

-------------------------------------------------------------------------------
(* Types. *)

\* Noting an anomaly leaves a list of codes that is not empty.
LEMMA Noting ==
  ASSUME Typed, NEW code \in Codes
  PROVE  /\ AfterFailure(code) \in Seq(Codes)
         /\ offset < zeroTailStart => AfterFailure(code) # <<>>
<1>1. anomalies \in Seq(Codes) /\ AnomalyBudget \in Nat \ {0} /\ Len(anomalies) \in Nat
  BY UnitAssumption DEF Typed
<1>2. zeroTailStart \in Nat /\ offset \in Nat
  BY PaddingBehind DEF Typed
<1>3. <<code, "limit">> \in Seq(Codes)
  BY DEF Codes
<1>4. anomalies \o <<code, "limit">> \in Seq(Codes) /\ Append(anomalies, code) \in Seq(Codes)
  BY <1>1, <1>3
<1>5. Len(anomalies \o <<code, "limit">>) = Len(anomalies) + 2 /\ Len(Append(anomalies, code)) = Len(anomalies) + 1
  BY <1>1, <1>3
<1>6. Noted(code) \in Seq(Codes) /\ Len(Noted(code)) # 0
  BY <1>1, <1>4, <1>5 DEF Noted
<1>7. QED
  BY <1>1, <1>2, <1>6 DEF AfterFailure

LEMMA TypedInit == BlockInit => Typed
<1> SUFFICES ASSUME BlockInit PROVE Typed
  OBVIOUS
<1>1. Inputs
  BY DEF BlockInit, Inputs
<1>2. QED
  BY <1>1 DEF BlockInit, Typed

\* An entry or a free run is found at the offset, and it goes behind it.
LEMMA FoundHere ==
  ASSUME Typed, NEW seen \in Reading(offset), seen.kind # "none", ~TooShort(seen), ~Malformed(seen)
  PROVE  /\ Record(seen.kind, offset, seen.len) \in Found
         /\ seen.len \in Nat \ {0} /\ offset + seen.len <= end
         /\ seen.kind = "free" => TagSize <= seen.len
<1>1. offset \in Nat /\ Inputs
  BY DEF Typed
<1>2. end \in Nat
  BY <1>1, RecordsOf
<1>3. /\ seen.kind \in {"active", "free"} /\ seen.len \in Nat
      /\ seen.kind = "active" => seen.len > 0
  BY <1>1, Seen
<1>4. /\ seen.kind = "free" => ~(seen.len < TagSize)
      /\ ~(seen.len > end - offset)
  BY DEF Malformed, Room
<1>5. TagSize \in Nat \ {0}
  BY UnitAssumption
<1>6. QED
  BY <1>1, <1>2, <1>3, <1>4, <1>5 DEF Record, Found

\* Where the carving of a free run begins.
LEMMA FirstCursor ==
  ASSUME Typed
  PROVE  /\ nextAlignedOffset(offset + TagSize - 1) \in Nat
         /\ Aligned(nextAlignedOffset(offset + TagSize - 1))
         /\ offset + TagSize <= nextAlignedOffset(offset + TagSize - 1)
         /\ \A s \in Nat : Aligned(s) /\ offset + TagSize <= s => nextAlignedOffset(offset + TagSize - 1) <= s
<1> DEFINE at == offset + TagSize - 1
<1>1. at \in Nat /\ offset \in Nat /\ TagSize \in Nat
  BY UnitAssumption DEF Typed
<1>2. at + 1 = offset + TagSize
  BY <1>1
<1> HIDE DEF at
<1>3. /\ nextAlignedOffset(at) \in Nat /\ nextAlignedOffset(at) > at
      /\ Aligned(nextAlignedOffset(at))
      /\ \A s \in Nat : Aligned(s) /\ at < s => nextAlignedOffset(at) <= s
  BY <1>1, NextAligned
<1>4. offset + TagSize <= nextAlignedOffset(at) /\ \A s \in Nat : offset + TagSize <= s => at < s
  BY <1>1, <1>2, <1>3
<1>5. QED
  BY <1>3, <1>4 DEF at

\* Where a deleted entry is.
LEMMA RemnantsOf ==
  ASSUME Inputs
  PROVE  \A m \in Remnants : \E s \in Intact :
           /\ layout.records[s].kind = "free" /\ Within(m, s, layout.records[s].len)
           /\ \E n \in layout.records[s].remnants : m = [at |-> n.at, len |-> n.len]
<1>1. SUFFICES ASSUME NEW m \in Remnants
               PROVE  \E s \in Intact :
                        /\ layout.records[s].kind = "free" /\ Within(m, s, layout.records[s].len)
                        /\ \E n \in layout.records[s].remnants : m = [at |-> n.at, len |-> n.len]
  OBVIOUS
<1>2. PICK s \in Intact : /\ layout.records[s].kind = "free"
                          /\ \E n \in layout.records[s].remnants : m = [at |-> n.at, len |-> n.len]
  BY <1>1 DEF Remnants
<1>3. layout \in Layouts /\ s \in DOMAIN layout.records
  BY <1>2 DEF Inputs, Intact
<1>4. \A n \in layout.records[s].remnants : Within(n, s, layout.records[s].len)
  BY <1>2, <1>3, LayoutAssumption
<1>5. QED
  BY <1>2, <1>4 DEF Within

\* What carving may take for the length of an entry at the cursor.
LEMMA CarvedHere ==
  ASSUME Typed, NEW n \in Lengths(cursor)
  PROVE  n \in Nat /\ Record("carved", cursor, n) \in Found
<1>1. Inputs /\ cursor \in Nat
  BY DEF Typed
<1>2. \A m \in Remnants : m.len \in Nat
  BY <1>1, RemnantsOf DEF Within, Aligned
<1>3. n \in Nat
  <2>1. (\E m \in Remnants : n = m.len) \/ n = 0 \/ n \in PhantomEntries
    BY DEF Lengths
  <2>2. CASE \E m \in Remnants : n = m.len
    BY <1>2, <2>2
  <2>3. CASE n = 0
    BY <2>3
  <2>4. CASE n \in PhantomEntries
    BY <2>4, UnitAssumption
  <2>5. QED
    BY <2>1, <2>2, <2>3, <2>4
<1>4. QED
  BY <1>1, <1>3 DEF Record, Found

LEMMA TypedStep == Typed /\ [BlockNext]_blockVars => Typed'
<1> SUFFICES ASSUME Typed, [BlockNext]_blockVars PROVE Typed'
  OBVIOUS
<1>1. /\ Inputs
      /\ phase \in {"frame", "carve", "done"} /\ offset \in Nat /\ cursor \in Nat /\ slotEnd \in Nat
      /\ records \in Seq(Found) /\ anomalies \in Seq(Codes) /\ verdict \in {"none", "ok", "error"}
  BY DEF Typed
<1>2. UNCHANGED input => Inputs'
  BY <1>1 DEF input, Inputs, PaddingStarts, Intact
<1>3. CASE Truncated
  <2>1. UNCHANGED <<input, cursor, slotEnd>> /\ (Stop("truncated") \/ Abort)
    BY <1>3 DEF Truncated
  <2>2. AfterFailure("truncated") \in Seq(Codes) /\ <<>> \in Seq(Found)
    BY Noting DEF Codes
  <2>3. QED
    BY <1>1, <1>2, <2>1, <2>2 DEF Stop, Abort, End, Typed
<1>4. CASE FramingLost
  <2>1. PICK code \in Codes : UNCHANGED <<input, cursor, slotEnd>> /\ (Resync(code) \/ Abort)
    BY <1>4 DEF FramingLost, Codes
  <2>2. AfterFailure(code) \in Seq(Codes) /\ <<>> \in Seq(Found)
    BY Noting
  <2>3. Resume \in Nat
    BY <1>1, NextAligned DEF Resume
  <2>4. QED
    BY <1>1, <1>2, <2>1, <2>2, <2>3 DEF Resync, Abort, End, Typed
<1>5. CASE ActiveEntry
  <2>1. PICK seen \in Reading(offset) :
          /\ seen.kind = "active" /\ ~TooShort(seen) /\ ~Malformed(seen)
          /\ records' = Append(records, Record("active", offset, seen.len))
          /\ offset' = offset + seen.len
    BY <1>5 DEF ActiveEntry
  <2>2. Record("active", offset, seen.len) \in Found /\ seen.len \in Nat
    BY <2>1, FoundHere
  <2>3. records' \in Seq(Found) /\ offset' \in Nat
    BY <1>1, <2>1, <2>2
  <2>4. QED
    BY <1>1, <1>2, <1>5, <2>3 DEF ActiveEntry, Typed
<1>6. CASE FreeRun
  <2>1. PICK seen \in Reading(offset) :
          /\ seen.kind = "free" /\ ~TooShort(seen) /\ ~Malformed(seen)
          /\ offset' = offset + seen.len
          /\ IF includeDeleted
             THEN /\ records' = Append(records, Record("free", offset, seen.len))
                  /\ phase' = "carve" /\ slotEnd' = offset + seen.len
                  /\ cursor' = nextAlignedOffset(offset + TagSize - 1)
             ELSE UNCHANGED <<phase, cursor, slotEnd, records>>
    BY <1>6 DEF FreeRun
  <2>2. Record("free", offset, seen.len) \in Found /\ seen.len \in Nat
    BY <2>1, FoundHere
  <2>3. nextAlignedOffset(offset + TagSize - 1) \in Nat
    BY FirstCursor
  <2>4. records' \in Seq(Found) /\ offset' \in Nat /\ cursor' \in Nat /\ slotEnd' \in Nat
    <3>1. offset + seen.len \in Nat /\ Append(records, Record("free", offset, seen.len)) \in Seq(Found)
      BY <1>1, <2>2
    <3>2. CASE includeDeleted
      BY <2>1, <2>3, <3>1, <3>2
    <3>3. CASE ~includeDeleted
      BY <1>1, <2>1, <3>1, <3>3
    <3>4. QED
      BY <3>2, <3>3
  <2>5. phase' \in {"frame", "carve", "done"}
    BY <1>1, <2>1
  <2>6. UNCHANGED <<input, anomalies, verdict>>
    BY <1>6 DEF FreeRun
  <2>7. QED
    BY <1>1, <1>2, <2>4, <2>5, <2>6 DEF Typed
<1>7. CASE BlockEnds
  BY <1>1, <1>2, <1>7 DEF BlockEnds, End, Typed
<1>8. CASE Carve
  <2>1. PICK len \in Lengths(cursor) :
          IF len > 0 /\ Fits(len)
          THEN records' = Append(records, Record("carved", cursor, len)) /\ cursor' = Past(len)
          ELSE cursor' = nextAlignedOffset(cursor) /\ UNCHANGED records
    BY <1>8 DEF Carve
  <2>2. len \in Nat /\ Record("carved", cursor, len) \in Found
    BY CarvedHere
  <2>3. nextAlignedOffset(cursor) \in Nat
    BY <1>1, NextAligned
  <2>4. records' \in Seq(Found) /\ cursor' \in Nat
    <3>1. cursor + len \in Nat /\ Append(records, Record("carved", cursor, len)) \in Seq(Found)
      BY <1>1, <2>2
    <3>2. CASE len > 0 /\ Fits(len)
      BY <2>1, <3>1, <3>2 DEF Past
    <3>3. CASE ~(len > 0 /\ Fits(len))
      BY <1>1, <2>1, <2>3, <3>3
    <3>4. QED
      BY <3>2, <3>3
  <2>5. QED
    BY <1>1, <1>2, <1>8, <2>4 DEF Carve, Typed
<1>9. CASE CarveEnds
  BY <1>1, <1>2, <1>9 DEF CarveEnds, Typed
<1>10. CASE UNCHANGED blockVars
  BY <1>1, <1>2, <1>10 DEF blockVars, Typed
<1>11. QED
  BY <1>3, <1>4, <1>5, <1>6, <1>7, <1>8, <1>9, <1>10 DEF BlockNext, Step

-------------------------------------------------------------------------------
(* What a step does to the records. *)

\* A record is added at the offset, and it goes behind it.
Frames(seen) ==
  /\ phase = "frame" /\ seen.kind \in {"active", "free"} /\ seen.len \in Nat \ {0} /\ offset + seen.len <= end
  /\ records' = Append(records, Record(seen.kind, offset, seen.len)) /\ offset' = offset + seen.len
  /\ seen.kind = "active" => phase' = "frame"
  /\ seen.kind = "free" =>
       /\ includeDeleted /\ TagSize <= seen.len
       /\ phase' = "carve" /\ slotEnd' = offset' /\ cursor' = nextAlignedOffset(offset + TagSize - 1)
  /\ UNCHANGED <<anomalies, verdict>>

\* A step that frames nothing: the block ends here, the walk resumes elsewhere, or a free
\* run is not reported.
Stops == bestEffort /\ Stop("truncated") /\ \E seen \in Reading(offset) : TooShort(seen)

Resumes ==
  /\ bestEffort /\ \E code \in Codes : Resync(code)
  /\ \E seen \in Reading(offset) : ~TooShort(seen) /\ Malformed(seen)

\* A free run that is not reported.
Skips ==
  /\ ~includeDeleted /\ UNCHANGED <<phase, anomalies, verdict>>
  /\ \E seen \in Reading(offset) :
       seen.kind = "free" /\ ~TooShort(seen) /\ ~Malformed(seen) /\ offset' = offset + seen.len

\* The steps that frame nothing.
Passes ==
  /\ phase = "frame" /\ phase' \in {"frame", "done"} /\ UNCHANGED records /\ offset <= offset'
  /\ Stops \/ Resumes \/ Skips \/ BlockEnds

\* A strict parse gives up all it has framed.
Drops ==
  /\ phase = "frame" /\ phase' = "done" /\ ~bestEffort /\ records' = <<>> /\ verdict' = "error"
  /\ offset < end /\ \E seen \in Reading(offset) : TooShort(seen) \/ Malformed(seen)
  /\ UNCHANGED anomalies

\* A deleted entry is found at the cursor.
Carves(len) ==
  /\ phase = "carve" /\ cursor + Overhead <= slotEnd
  /\ len \in Nat /\ len > 0 /\ cursor + len <= slotEnd
  /\ records' = Append(records, Record("carved", cursor, len)) /\ cursor' = cursor + len
  /\ UNCHANGED <<phase, offset, slotEnd, anomalies, verdict>>

\* None is found there.
Misses ==
  /\ phase = "carve" /\ cursor + Overhead <= slotEnd
  /\ cursor' = nextAlignedOffset(cursor)
  /\ UNCHANGED <<phase, offset, slotEnd, records, anomalies, verdict>>

\* Each step is one of these.
LEMMA Moves ==
  ASSUME Typed, [BlockNext]_blockVars
  PROVE  /\ UNCHANGED input
         /\ \/ \E seen \in Reading(offset) : ~TooShort(seen) /\ ~Malformed(seen) /\ Frames(seen)
            \/ Passes
            \/ Drops
            \/ \E len \in Lengths(cursor) : Carves(len)
            \/ Misses /\ \E len \in Lengths(cursor) : ~(len > 0 /\ Fits(len))
            \/ CarveEnds
            \/ UNCHANGED blockVars
<1>1. /\ Inputs /\ offset \in Nat /\ cursor \in Nat
  BY DEF Typed
<1>2. end \in Nat
  BY <1>1, RecordsOf
<1>3. CASE Truncated
  <2>1. Stops \/ (~bestEffort /\ Abort /\ \E seen \in Reading(offset) : TooShort(seen))
    BY <1>3 DEF Truncated, Stops
  <2>2. phase = "frame" /\ offset < end /\ UNCHANGED input
    BY <1>3 DEF Truncated, Framing
  <2>3. CASE Stops
    <3>1. Passes
      BY <1>1, <2>2, <2>3 DEF Stops, Stop, End, Passes
    <3>2. QED
      BY <2>2, <3>1
  <2>4. CASE ~bestEffort /\ Abort /\ \E seen \in Reading(offset) : TooShort(seen)
    BY <2>2, <2>4 DEF Abort, End, Drops
  <2>5. QED
    BY <2>1, <2>3, <2>4
<1>4. CASE FramingLost
  <2>1. Resume \in Nat /\ Resume > offset
    BY <1>1, NextAligned DEF Resume
  <2>2. Resumes \/ (~bestEffort /\ Abort /\ \E seen \in Reading(offset) : Malformed(seen))
    BY <1>4 DEF FramingLost, Resumes, Codes
  <2>3. phase = "frame" /\ offset < end /\ UNCHANGED input
    BY <1>4 DEF FramingLost, Framing
  <2>4. CASE Resumes
    <3>1. Passes
      BY <1>1, <2>1, <2>3, <2>4 DEF Resumes, Resync, End, Passes
    <3>2. QED
      BY <2>3, <3>1
  <2>5. CASE ~bestEffort /\ Abort /\ \E seen \in Reading(offset) : Malformed(seen)
    BY <2>3, <2>5 DEF Abort, End, Drops
  <2>6. QED
    BY <2>2, <2>4, <2>5
<1>5. CASE ActiveEntry
  <2>1. PICK seen \in Reading(offset) :
          /\ seen.kind = "active" /\ ~TooShort(seen) /\ ~Malformed(seen)
          /\ records' = Append(records, Record("active", offset, seen.len))
          /\ offset' = offset + seen.len
    BY <1>5 DEF ActiveEntry
  <2>2. seen.len \in Nat \ {0} /\ offset + seen.len <= end
    BY <2>1, FoundHere
  <2>3. Frames(seen)
    BY <1>5, <2>1, <2>2 DEF ActiveEntry, Framing, Frames
  <2>4. QED
    BY <1>5, <2>1, <2>3 DEF ActiveEntry
<1>6. CASE FreeRun
  <2>1. PICK seen \in Reading(offset) :
          /\ seen.kind = "free" /\ ~TooShort(seen) /\ ~Malformed(seen)
          /\ offset' = offset + seen.len
          /\ IF includeDeleted
             THEN /\ records' = Append(records, Record("free", offset, seen.len))
                  /\ phase' = "carve" /\ slotEnd' = offset + seen.len
                  /\ cursor' = nextAlignedOffset(offset + TagSize - 1)
             ELSE UNCHANGED <<phase, cursor, slotEnd, records>>
    BY <1>6 DEF FreeRun
  <2>2. seen.len \in Nat \ {0} /\ offset + seen.len <= end /\ TagSize <= seen.len
    BY <2>1, FoundHere
  <2>3. CASE includeDeleted
    <3>1. Frames(seen)
      BY <1>6, <2>1, <2>2, <2>3 DEF FreeRun, Framing, Frames
    <3>2. QED
      BY <1>6, <2>1, <3>1 DEF FreeRun
  <2>4. CASE ~includeDeleted
    <3>1. Skips
      BY <1>6, <2>1, <2>4 DEF FreeRun, Skips
    <3>2. Passes
      BY <1>1, <1>6, <2>1, <2>2, <2>4, <3>1 DEF FreeRun, Framing, Passes
    <3>3. QED
      BY <1>6, <3>2 DEF FreeRun
  <2>5. QED
    BY <2>3, <2>4
<1>7. CASE BlockEnds
  BY <1>1, <1>7 DEF BlockEnds, End, Passes
<1>8. CASE Carve
  <2>1. PICK len \in Lengths(cursor) :
          IF len > 0 /\ Fits(len)
          THEN records' = Append(records, Record("carved", cursor, len)) /\ cursor' = Past(len)
          ELSE cursor' = nextAlignedOffset(cursor) /\ UNCHANGED records
    BY <1>8 DEF Carve
  <2>2. len \in Nat
    BY CarvedHere
  <2>3. CASE len > 0 /\ Fits(len)
    <3>1. Carves(len)
      BY <1>8, <2>1, <2>2, <2>3 DEF Carve, Carves, Fits, Past
    <3>2. QED
      BY <1>8, <3>1 DEF Carve
  <2>4. CASE ~(len > 0 /\ Fits(len))
    <3>1. Misses
      BY <1>8, <2>1, <2>4 DEF Carve, Misses
    <3>2. QED
      BY <1>8, <2>4, <3>1 DEF Carve
  <2>5. QED
    BY <2>3, <2>4
<1>9. CASE CarveEnds
  BY <1>9 DEF CarveEnds
<1>10. CASE UNCHANGED blockVars
  BY <1>10 DEF blockVars
<1>11. QED
  BY <1>3, <1>4, <1>5, <1>6, <1>7, <1>8, <1>9, <1>10 DEF BlockNext, Step

\* The records of a kind after one more.
LEMMA OneMoreReported ==
  ASSUME NEW r \in Found, records \in Seq(Found), records' = Append(records, r), NEW kind
  PROVE  Reported(kind)' = Reported(kind) \cup (IF r.kind = kind THEN {[at |-> r.at, len |-> r.len]} ELSE {})
<1>1. ToSet(records)' = ToSet(records) \cup {r}
  <2>1. DOMAIN records = 1 .. Len(records) /\ Len(records) \in Nat
    OBVIOUS
  <2>2. DOMAIN records' = 1 .. Len(records) + 1 /\ records'[Len(records) + 1] = r
    BY <2>1
  <2>3. \A i \in 1 .. Len(records) : records'[i] = records[i]
    BY <2>1
  <2>4. QED
    BY <2>1, <2>2, <2>3 DEF ToSet
<1>2. QED
  BY <1>1 DEF Reported

LEMMA SameReported ==
  ASSUME UNCHANGED records, NEW kind
  PROVE  Reported(kind)' = Reported(kind)
  BY DEF Reported, ToSet

LEMMA NoneReported ==
  ASSUME records' = <<>>, NEW kind
  PROVE  Reported(kind)' = {}
  BY DEF Reported, ToSet

-------------------------------------------------------------------------------
(* EntriesApart *)

Carved(i) == records[i].kind = "carved"
RecordEnd(i) == records[i].at + records[i].len

\* Records of a sort follow one another, behind what was reported of the sort.
InOrder ==
  /\ \A i \in DOMAIN records : RecordEnd(i) <= offset
  /\ phase = "carve" =>
       /\ slotEnd = offset
       /\ \A i \in DOMAIN records : Carved(i) => RecordEnd(i) <= cursor
       /\ \E f \in Reported("free") : f.at + TagSize <= cursor /\ f.at + f.len = slotEnd
  /\ \A i, j \in DOMAIN records : i < j /\ (Carved(i) <=> Carved(j)) => RecordEnd(i) <= records[j].at
  /\ \A c \in Reported("carved") : \E f \in Reported("free") :
       f.at + TagSize <= c.at /\ c.at + c.len <= f.at + f.len

LEMMA InOrderStep == Typed /\ Typed' /\ InOrder /\ [BlockNext]_blockVars => InOrder'
<1> SUFFICES ASSUME Typed, Typed', InOrder, [BlockNext]_blockVars PROVE InOrder'
  OBVIOUS
<1>1. /\ records \in Seq(Found) /\ offset \in Nat /\ cursor \in Nat /\ slotEnd \in Nat
      /\ offset' \in Nat /\ cursor' \in Nat /\ slotEnd' \in Nat
      /\ TagSize \in Nat
  BY UnitAssumption DEF Typed
<1>2. /\ DOMAIN records = 1 .. Len(records) /\ Len(records) \in Nat
      /\ \A i \in DOMAIN records : records[i] \in Found
  BY <1>1
<1>3. ASSUME NEW r \in Found, records' = Append(records, r),
             offset <= offset', r.at + r.len <= offset',
             \A i \in DOMAIN records : (Carved(i) <=> r.kind = "carved") => RecordEnd(i) <= r.at
      PROVE  /\ (\A i \in DOMAIN records : RecordEnd(i) <= offset)'
             /\ (\A i, j \in DOMAIN records : i < j /\ (Carved(i) <=> Carved(j)) => RecordEnd(i) <= records[j].at)'
  <2>1. /\ DOMAIN records' = 1 .. Len(records) + 1
        /\ \A i \in DOMAIN records : records'[i] = records[i]
        /\ records'[Len(records) + 1] = r
    BY <1>1, <1>2, <1>3
  <2>2. \A i \in DOMAIN records' : i \in DOMAIN records \/ i = Len(records) + 1
    BY <1>2, <2>1
  <2>3. ASSUME NEW i \in DOMAIN records' PROVE records'[i].at + records'[i].len <= offset'
    <3>1. CASE i \in DOMAIN records
      <4>1. RecordEnd(i) <= offset /\ records[i].at \in Nat /\ records[i].len \in Nat
        BY <1>2, <3>1 DEF InOrder, Found
      <4>2. QED
        BY <1>1, <1>3, <2>1, <3>1, <4>1 DEF RecordEnd
    <3>2. CASE i = Len(records) + 1
      BY <1>3, <2>1, <3>2
    <3>3. QED
      BY <2>2, <3>1, <3>2
  <2>4. ASSUME NEW i \in DOMAIN records', NEW j \in DOMAIN records', i < j,
               records'[i].kind = "carved" <=> records'[j].kind = "carved"
        PROVE  records'[i].at + records'[i].len <= records'[j].at
    <3>1. i \in DOMAIN records /\ (j \in DOMAIN records \/ j = Len(records) + 1)
      BY <1>2, <2>1, <2>4
    <3>2. CASE j \in DOMAIN records
      BY <2>1, <2>4, <3>1, <3>2 DEF InOrder, Carved, RecordEnd
    <3>3. CASE j = Len(records) + 1
      BY <1>3, <2>1, <2>4, <3>1, <3>3 DEF Carved, RecordEnd
    <3>4. QED
      BY <3>1, <3>2, <3>3
  <2>5. QED
    BY <2>3, <2>4 DEF Carved, RecordEnd
<1>4. ASSUME UNCHANGED records, offset <= offset'
      PROVE  /\ (\A i \in DOMAIN records : RecordEnd(i) <= offset)'
             /\ (\A i, j \in DOMAIN records : i < j /\ (Carved(i) <=> Carved(j)) => RecordEnd(i) <= records[j].at)'
             /\ (\A c \in Reported("carved") : \E f \in Reported("free") :
                   f.at + TagSize <= c.at /\ c.at + c.len <= f.at + f.len)'
  <2>1. \A i \in DOMAIN records : RecordEnd(i) <= offset /\ RecordEnd(i) \in Nat
    BY <1>2 DEF InOrder, Found, RecordEnd
  <2>2. Reported("carved")' = Reported("carved") /\ Reported("free")' = Reported("free")
    BY <1>4, SameReported
  <2>3. \A i \in DOMAIN records : RecordEnd(i) <= offset'
    BY <1>1, <1>4, <2>1
  <2>4. QED
    BY <1>4, <2>2, <2>3 DEF InOrder, RecordEnd, Carved
<1>5. ASSUME NEW seen \in Reading(offset), Frames(seen) PROVE InOrder'
  <2> DEFINE r == Record(seen.kind, offset, seen.len)
  <2>1. r \in Found /\ r.at = offset /\ r.len = seen.len /\ r.kind = seen.kind /\ seen.kind # "carved"
    BY <1>1, <1>5 DEF Frames, Record, Found
  <2>2. records' = Append(records, r) /\ offset' = offset + seen.len /\ seen.len \in Nat \ {0} /\ phase = "frame"
    BY <1>5 DEF Frames
  <2> HIDE DEF r
  <2>3. Reported("carved")' = Reported("carved")
    <3>1. Reported("carved")' = Reported("carved") \cup (IF r.kind = "carved" THEN {[at |-> r.at, len |-> r.len]} ELSE {})
      BY <1>1, <2>1, <2>2, OneMoreReported
    <3>2. r.kind # "carved"
      BY <2>1
    <3>3. QED
      BY <3>1, <3>2
  <2>4. Reported("free")' = Reported("free") \cup (IF r.kind = "free" THEN {[at |-> r.at, len |-> r.len]} ELSE {})
    BY <1>1, <2>1, <2>2, OneMoreReported
  <2>5. /\ (\A i \in DOMAIN records : RecordEnd(i) <= offset)'
        /\ (\A i, j \in DOMAIN records : i < j /\ (Carved(i) <=> Carved(j)) => RecordEnd(i) <= records[j].at)'
    <3>1. offset <= offset' /\ r.at + r.len <= offset'
      BY <1>1, <2>1, <2>2
    <3>2. \A i \in DOMAIN records : RecordEnd(i) <= r.at
      BY <2>1 DEF InOrder
    <3>3. QED
      BY <1>3, <2>1, <2>2, <3>1, <3>2
  <2>6. (phase = "carve" =>
          /\ slotEnd = offset
          /\ \A i \in DOMAIN records : Carved(i) => RecordEnd(i) <= cursor
          /\ \E f \in Reported("free") : f.at + TagSize <= cursor /\ f.at + f.len = slotEnd)'
    <3>1. SUFFICES ASSUME phase' = "carve"
                   PROVE  (/\ slotEnd = offset
                           /\ \A i \in DOMAIN records : Carved(i) => RecordEnd(i) <= cursor
                           /\ \E f \in Reported("free") : f.at + TagSize <= cursor /\ f.at + f.len = slotEnd)'
      OBVIOUS
    <3>2. /\ seen.kind = "free" /\ slotEnd' = offset' /\ cursor' = nextAlignedOffset(offset + TagSize - 1)
      BY <1>5, <3>1 DEF Frames
    <3>3. offset + TagSize <= cursor'
      BY <3>2, FirstCursor
    <3>4. [at |-> offset, len |-> seen.len] \in Reported("free")'
      BY <2>1, <2>4, <3>2
    <3>5. \E f \in Reported("free")' : f.at + TagSize <= cursor' /\ f.at + f.len = slotEnd'
      <4> DEFINE f == [at |-> offset, len |-> seen.len]
      <4>1. f \in Reported("free")' /\ f.at + TagSize <= cursor' /\ f.at + f.len = slotEnd'
        BY <2>2, <3>2, <3>3, <3>4
      <4>2. QED
        BY <4>1
    <3>6. ASSUME NEW i \in DOMAIN records', records'[i].kind = "carved" PROVE records'[i].at + records'[i].len <= cursor'
      <4>1. i \in DOMAIN records /\ records'[i] = records[i]
        BY <1>1, <1>2, <2>1, <2>2, <3>6
      <4>2. RecordEnd(i) <= offset /\ RecordEnd(i) \in Nat
        BY <1>2, <4>1 DEF InOrder, Found, RecordEnd
      <4>3. QED
        BY <1>1, <3>3, <4>1, <4>2 DEF RecordEnd
    <3>7. QED
      BY <3>2, <3>5, <3>6 DEF Carved, RecordEnd
  <2>7. (\A c \in Reported("carved") : \E f \in Reported("free") :
          f.at + TagSize <= c.at /\ c.at + c.len <= f.at + f.len)'
    BY <2>3, <2>4 DEF InOrder
  <2>8. QED
    BY <2>5, <2>6, <2>7 DEF InOrder
<1>6. ASSUME NEW len \in Lengths(cursor), Carves(len) PROVE InOrder'
  <2> DEFINE r == Record("carved", cursor, len)
  <2>1. r \in Found /\ r.at = cursor /\ r.len = len /\ r.kind = "carved"
    BY CarvedHere DEF Record
  <2>2. /\ records' = Append(records, r) /\ cursor' = cursor + len /\ phase = "carve" /\ phase' = phase
        /\ offset' = offset /\ slotEnd' = slotEnd /\ cursor + len <= slotEnd /\ len \in Nat
    BY <1>6 DEF Carves
  <2> HIDE DEF r
  <2>3. Reported("carved")' = Reported("carved") \cup {[at |-> cursor, len |-> len]}
    BY <1>1, <2>1, <2>2, OneMoreReported
  <2>4. Reported("free")' = Reported("free")
    <3>1. Reported("free")' = Reported("free") \cup (IF r.kind = "free" THEN {[at |-> r.at, len |-> r.len]} ELSE {})
      BY <1>1, <2>1, <2>2, OneMoreReported
    <3>2. r.kind # "free"
      BY <2>1
    <3>3. QED
      BY <3>1, <3>2
  <2>5. /\ slotEnd = offset
        /\ \A i \in DOMAIN records : Carved(i) => RecordEnd(i) <= cursor
    BY <2>2 DEF InOrder
  <2>6. PICK f \in Reported("free") : f.at + TagSize <= cursor /\ f.at + f.len = slotEnd
    BY <2>2 DEF InOrder
  <2>7. f.at \in Nat
    BY <1>2, <2>6 DEF Reported, Found, ToSet
  <2>8. /\ (\A i \in DOMAIN records : RecordEnd(i) <= offset)'
        /\ (\A i, j \in DOMAIN records : i < j /\ (Carved(i) <=> Carved(j)) => RecordEnd(i) <= records[j].at)'
    <3>1. offset <= offset' /\ r.at + r.len <= offset'
      BY <1>1, <2>1, <2>2, <2>5
    <3>2. QED
      BY <1>3, <2>1, <2>2, <2>5, <3>1
  <2>9. ASSUME NEW i \in DOMAIN records', records'[i].kind = "carved" PROVE records'[i].at + records'[i].len <= cursor'
    <3>1. CASE i \in DOMAIN records
      <4>1. records'[i] = records[i]
        BY <1>1, <1>2, <2>1, <2>2, <3>1
      <4>2. RecordEnd(i) <= cursor /\ RecordEnd(i) \in Nat
        BY <1>2, <2>5, <2>9, <3>1, <4>1 DEF Found, RecordEnd, Carved
      <4>3. QED
        BY <1>1, <2>2, <4>1, <4>2 DEF RecordEnd
    <3>2. CASE i \notin DOMAIN records
      <4>1. records'[i] = r
        BY <1>1, <1>2, <2>1, <2>2, <3>2
      <4>2. QED
        BY <2>1, <2>2, <4>1
    <3>3. QED
      BY <3>1, <3>2
  <2>10. f \in Reported("free")' /\ f.at + TagSize <= cursor' /\ f.at + f.len = slotEnd'
    BY <1>1, <2>2, <2>4, <2>6, <2>7
  <2>11. (\A c \in Reported("carved") : \E g \in Reported("free") :
          g.at + TagSize <= c.at /\ c.at + c.len <= g.at + g.len)'
    <3>1. SUFFICES ASSUME NEW c \in Reported("carved")'
                   PROVE  \E g \in Reported("free")' : g.at + TagSize <= c.at /\ c.at + c.len <= g.at + g.len
      OBVIOUS
    <3>2. CASE c \in Reported("carved")
      BY <2>4, <3>2 DEF InOrder
    <3>3. CASE c = [at |-> cursor, len |-> len]
      BY <2>2, <2>4, <2>6, <3>3
    <3>4. QED
      BY <2>3, <3>2, <3>3
  <2>12. QED
    BY <2>2, <2>5, <2>8, <2>9, <2>10, <2>11 DEF InOrder, Carved, RecordEnd
<1>7. CASE Passes
  BY <1>4, <1>7 DEF Passes, InOrder
<1>8. CASE Drops
  <2>1. DOMAIN records' = {} /\ Reported("carved")' = {}
    BY <1>8, NoneReported DEF Drops
  <2>2. QED
    BY <1>8, <2>1 DEF Drops, InOrder
<1>9. CASE Misses
  <2>1. UNCHANGED <<phase, offset, slotEnd, records>> /\ phase = "carve" /\ cursor' > cursor
    BY <1>1, <1>9, NextAligned DEF Misses
  <2>2. offset <= offset'
    BY <1>1, <2>1
  <2>3. /\ slotEnd = offset
        /\ \A i \in DOMAIN records : Carved(i) => RecordEnd(i) <= cursor /\ RecordEnd(i) \in Nat
    BY <1>2, <2>1 DEF InOrder, RecordEnd, Found
  <2>4. PICK f \in Reported("free") : f.at + TagSize <= cursor /\ f.at + f.len = slotEnd
    BY <2>1 DEF InOrder
  <2>5. f.at \in Nat
    BY <1>2, <2>4 DEF Reported, Found, ToSet
  <2>6. f \in Reported("free")' /\ f.at + TagSize <= cursor' /\ f.at + f.len = slotEnd'
    BY <1>1, <2>1, <2>4, <2>5, SameReported
  <2>7. \A i \in DOMAIN records : Carved(i) => RecordEnd(i) <= cursor'
    BY <1>1, <2>1, <2>3
  <2>8. \A i \in DOMAIN records' : Carved(i)' => RecordEnd(i)' <= cursor'
    BY <2>1, <2>7 DEF Carved, RecordEnd
  <2>9. QED
    BY <1>4, <2>1, <2>2, <2>3, <2>6, <2>8 DEF InOrder
<1>10. CASE CarveEnds
  <2>1. UNCHANGED <<offset, records>> /\ phase' = "frame"
    BY <1>10 DEF CarveEnds
  <2>2. QED
    BY <1>1, <1>4, <2>1 DEF InOrder
<1>11. CASE UNCHANGED blockVars
  BY <1>11, SameReported DEF blockVars, InOrder, RecordEnd, Carved
<1>12. QED
  BY <1>5, <1>6, <1>7, <1>8, <1>9, <1>10, <1>11, Moves

LEMMA InOrderInit == BlockInit => InOrder
<1> SUFFICES ASSUME BlockInit PROVE InOrder
  OBVIOUS
<1>1. records = <<>> /\ phase = "frame"
  BY DEF BlockInit
<1>2. DOMAIN records = {} /\ Reported("carved") = {}
  BY <1>1 DEF Reported, ToSet
<1>3. QED
  BY <1>1, <1>2 DEF InOrder

\* No bytes of a block are reported as two records, and what is carved lies within a free
\* run that is reported, whatever the damage and whatever the noise looks like.
THEOREM BytesReportedOnce == BlockSpec => []EntriesApart
<1>1. Typed /\ InOrder => EntriesApart
  <2> SUFFICES ASSUME Typed, InOrder PROVE EntriesApart
    OBVIOUS
  <2>1. \A i \in DOMAIN records : records[i] \in Found
    BY DEF Typed
  <2>1a. /\ DOMAIN records = 1 .. Len(records) /\ Len(records) \in Nat
         /\ \A i \in DOMAIN records : records[i].at \in Nat /\ records[i].len \in Nat
    BY <2>1 DEF Typed, Found
  <2>2. ASSUME NEW i \in DOMAIN records, NEW j \in DOMAIN records, i # j,
               records[i].kind = "carved" <=> records[j].kind = "carved"
        PROVE  Span(records[i]) \cap Span(records[j]) = {}
    <3>1. RecordEnd(i) <= records[j].at \/ RecordEnd(j) <= records[i].at
      BY <2>1a, <2>2 DEF InOrder, Carved
    <3>2. QED
      BY <2>1a, <3>1 DEF Span, RecordEnd
  <2>3. QED
    BY <2>2 DEF EntriesApart, InOrder
<1>2. QED
  BY <1>1, TypedInit, TypedStep, InOrderInit, InOrderStep, PTL DEF BlockSpec

-------------------------------------------------------------------------------
(* GapsAreNoted, StrictTiles *)

LEMMA MoreSpans ==
  ASSUME NEW r \in Found, records \in Seq(Found), records' = Append(records, r)
  PROVE  /\ Framed \subseteq Framed'
         /\ r.kind # "carved" => [at |-> r.at, len |-> r.len] \in Framed'
         /\ r.kind = "carved" => Framed' = Framed
         /\ r.kind # "carved" => Framed' = Framed \cup {[at |-> r.at, len |-> r.len]}
<1>1. Reported("active")' = Reported("active") \cup (IF r.kind = "active" THEN {[at |-> r.at, len |-> r.len]} ELSE {})
  BY OneMoreReported
<1>2. Reported("free")' = Reported("free") \cup (IF r.kind = "free" THEN {[at |-> r.at, len |-> r.len]} ELSE {})
  BY OneMoreReported
<1>3. r.kind \in {"active", "free", "carved"}
  BY DEF Found
<1>4. QED
  BY <1>1, <1>2, <1>3 DEF Framed

LEMMA SameSpans == ASSUME UNCHANGED records PROVE Framed' = Framed
  BY SameReported DEF Framed

\* The framed records hold everything up to an offset.
Covers(n) == 0 .. n - 1 \subseteq UNION {Span(r) : r \in Framed}

LEMMA CoversLess ==
  ASSUME NEW n \in Nat, NEW m \in Nat, m <= n, Covers(n)
  PROVE  Covers(m)
<1>1. 0 .. m - 1 \subseteq 0 .. n - 1
  OBVIOUS
<1>2. QED
  BY <1>1 DEF Covers

LEMMA CoversStill ==
  ASSUME NEW n \in Nat, Covers(n), Framed \subseteq Framed'
  PROVE  0 .. n - 1 \subseteq UNION {Span(r) : r \in Framed'}
  BY DEF Covers

\* As long as nothing is noted, all that is behind lies in records.
Gapless ==
  /\ ~bestEffort => anomalies = <<>>
  /\ verdict = "error" => ~bestEffort /\ records = <<>> /\ phase = "done"
  /\ \A i \in DOMAIN records : RecordEnd(i) <= end
  /\ includeDeleted /\ anomalies = <<>> =>
       /\ phase # "done" => Covers(offset)
       /\ phase = "done" /\ bestEffort => Covers(zeroTailStart)
       /\ phase = "done" /\ ~bestEffort /\ verdict # "error" => Covers(end)

LEMMA GaplessInit == BlockInit => Gapless
<1> SUFFICES ASSUME BlockInit PROVE Gapless
  OBVIOUS
<1>1. records = <<>> /\ offset = 0 /\ phase = "frame" /\ anomalies = <<>> /\ verdict = "none"
  BY DEF BlockInit
<1>2. Covers(0)
  BY DEF Covers
<1>3. QED
  BY <1>1, <1>2 DEF Gapless

LEMMA GaplessStep == Typed /\ Typed' /\ InOrder /\ Gapless /\ [BlockNext]_blockVars => Gapless'
<1> SUFFICES ASSUME Typed, Typed', InOrder, Gapless, [BlockNext]_blockVars PROVE Gapless'
  OBVIOUS
<1>1. /\ records \in Seq(Found) /\ offset \in Nat /\ cursor \in Nat /\ slotEnd \in Nat /\ Inputs
      /\ offset' \in Nat /\ anomalies \in Seq(Codes)
  BY DEF Typed
<1>2. /\ DOMAIN records = 1 .. Len(records) /\ Len(records) \in Nat
      /\ \A i \in DOMAIN records : records[i] \in Found
  BY <1>1
<1>3. /\ UNCHANGED <<layout, damaged, zeroTailStart, end, bestEffort, includeDeleted>>
      /\ end \in Nat /\ zeroTailStart \in Nat /\ zeroTailStart <= end
  <2>1. zeroTailStart <= layout.zeros /\ layout.zeros <= end /\ layout.zeros \in Nat /\ end \in Nat /\ zeroTailStart \in Nat
    BY <1>1, PaddingBehind, RecordsOf DEF Inputs
  <2>2. QED
    BY <2>1, Moves DEF input
<1>4. ASSUME NEW r \in Found, records' = Append(records, r), r.at + r.len <= end
      PROVE  (\A i \in DOMAIN records : RecordEnd(i) <= end)'
  <2>1. /\ DOMAIN records' = 1 .. Len(records) + 1
        /\ \A i \in DOMAIN records : records'[i] = records[i]
        /\ records'[Len(records) + 1] = r
    BY <1>1, <1>2, <1>4
  <2>2. \A i \in DOMAIN records' : i \in DOMAIN records \/ i = Len(records) + 1
    BY <1>2, <2>1
  <2>3. QED
    BY <1>3, <1>4, <2>1, <2>2 DEF Gapless, RecordEnd
<1>5. ASSUME NEW seen \in Reading(offset), Frames(seen) PROVE Gapless'
  <2> DEFINE r == Record(seen.kind, offset, seen.len)
  <2>1. r \in Found /\ r.at = offset /\ r.len = seen.len /\ r.kind # "carved"
    BY <1>1, <1>5 DEF Frames, Record, Found
  <2>2. /\ records' = Append(records, r) /\ offset' = offset + seen.len /\ seen.len \in Nat \ {0}
        /\ phase = "frame" /\ phase' # "done" /\ offset + seen.len <= end /\ UNCHANGED <<anomalies, verdict>>
    BY <1>5 DEF Frames
  <2> HIDE DEF r
  <2>3. (\A i \in DOMAIN records : RecordEnd(i) <= end)'
    BY <1>4, <2>1, <2>2
  <2>4. ASSUME includeDeleted, anomalies = <<>>
        PROVE  Covers(offset)'
    <3>1. Framed \subseteq Framed' /\ [at |-> offset, len |-> seen.len] \in Framed'
      BY <1>1, <2>1, <2>2, MoreSpans
    <3>2. Covers(offset)
      BY <2>2, <2>4 DEF Gapless
    <3>3. ASSUME NEW k \in 0 .. offset' - 1 PROVE k \in UNION {Span(x) : x \in Framed'}
      <4>1. CASE k < offset
        <5>1. k \in 0 .. offset - 1
          BY <1>1, <3>3, <4>1
        <5>2. QED
          BY <1>1, <3>1, <3>2, <5>1, CoversStill
      <4>2. CASE k >= offset
        <5>1. k \in Span([at |-> offset, len |-> seen.len])
          BY <1>1, <2>2, <3>3, <4>2 DEF Span
        <5>2. QED
          BY <3>1, <5>1
      <4>3. QED
        BY <1>1, <4>1, <4>2
    <3>4. QED
      BY <3>3 DEF Covers
  <2>5. QED
    BY <1>3, <2>2, <2>3, <2>4 DEF Gapless
<1>6. ASSUME NEW len \in Lengths(cursor), Carves(len) PROVE Gapless'
  <2> DEFINE r == Record("carved", cursor, len)
  <2>1. r \in Found /\ r.at = cursor /\ r.len = len /\ r.kind = "carved"
    BY CarvedHere DEF Record
  <2>2. /\ records' = Append(records, r) /\ phase = "carve"
        /\ cursor + len <= slotEnd /\ UNCHANGED <<phase, offset, anomalies, verdict>> /\ len \in Nat
    BY <1>6 DEF Carves
  <2> HIDE DEF r
  <2>3. slotEnd <= end
    <3>1. PICK f \in Reported("free") : f.at + f.len = slotEnd
      BY <2>2 DEF InOrder
    <3>2. PICK i \in DOMAIN records : f.at = records[i].at /\ f.len = records[i].len
      BY DEF Reported, ToSet
    <3>3. QED
      BY <3>1, <3>2 DEF Gapless, RecordEnd
  <2>4. (\A i \in DOMAIN records : RecordEnd(i) <= end)'
    BY <1>1, <1>3, <1>4, <2>1, <2>2, <2>3
  <2>5. Framed' = Framed
    BY <1>1, <2>1, <2>2, MoreSpans
  <2>6. Covers(offset) => Covers(offset)'
    BY <2>2, <2>5 DEF Covers
  <2>7. QED
    BY <1>3, <2>2, <2>4, <2>6 DEF Gapless
<1>7. CASE Passes
  <2>1. phase = "frame" /\ UNCHANGED records /\ Framed' = Framed /\ verdict # "error"
    BY <1>7, SameSpans DEF Passes, Gapless
  <2>2. (\A i \in DOMAIN records : RecordEnd(i) <= end)'
    BY <1>3, <2>1 DEF Gapless, RecordEnd
  <2>3. CASE Stops
    <3>1. /\ bestEffort /\ offset' = offset /\ phase' = "done" /\ verdict' = "ok"
          /\ anomalies' = AfterFailure("truncated")
      BY <2>3 DEF Stops, Stop, End
    <3>2. offset < zeroTailStart => anomalies' # <<>>
      BY <3>1, Noting DEF Codes
    <3>3. offset >= zeroTailStart => anomalies' = anomalies
      BY <3>1 DEF AfterFailure
    <3>4. offset >= zeroTailStart /\ Covers(offset) => Covers(zeroTailStart)
      BY <1>1, <1>3, CoversLess
    <3>5. Covers(zeroTailStart) => Covers(zeroTailStart)'
      BY <1>3, <2>1 DEF Covers
    <3>6. QED
      BY <1>1, <1>3, <2>1, <2>2, <3>1, <3>2, <3>3, <3>4, <3>5 DEF Gapless
  <2>4. CASE Resumes
    <3>1. PICK code \in Codes : Resync(code)
      BY <2>4 DEF Resumes
    <3>2. bestEffort /\ anomalies' = AfterFailure(code)
      BY <2>4, <3>1 DEF Resumes, Resync
    <3>3. CASE offset < zeroTailStart
      <4>1. anomalies' # <<>> /\ verdict' = verdict
        BY <1>1, <1>3, <3>1, <3>2, <3>3, Noting DEF Resync
      <4>2. QED
        BY <1>3, <2>1, <2>2, <3>2, <4>1 DEF Gapless
    <3>4. CASE offset >= zeroTailStart
      <4>1. anomalies' = anomalies /\ offset' = offset /\ phase' = "done" /\ verdict' = "ok"
        BY <3>1, <3>2, <3>4 DEF Resync, End, AfterFailure
      <4>2. Covers(offset) => Covers(zeroTailStart)
        BY <1>1, <1>3, <3>4, CoversLess
      <4>3. Covers(zeroTailStart) => Covers(zeroTailStart)'
        BY <1>3, <2>1 DEF Covers
      <4>4. QED
        BY <1>3, <2>1, <2>2, <3>2, <4>1, <4>2, <4>3 DEF Gapless
    <3>5. QED
      BY <1>1, <1>3, <3>3, <3>4
  <2>5. CASE Skips
    BY <1>3, <2>1, <2>2, <2>5 DEF Skips, Gapless
  <2>6. CASE BlockEnds
    <3>1. offset >= end /\ phase' = "done" /\ verdict' = "ok" /\ UNCHANGED <<anomalies, records>>
      BY <2>6 DEF BlockEnds, End
    <3>2. Covers(offset) => Covers(end) /\ Covers(zeroTailStart)
      BY <1>1, <1>3, <3>1, CoversLess
    <3>3. (Covers(end) => Covers(end)') /\ (Covers(zeroTailStart) => Covers(zeroTailStart)')
      BY <1>3, <2>1 DEF Covers
    <3>4. QED
      BY <1>3, <2>1, <2>2, <3>1, <3>2, <3>3 DEF Gapless
  <2>7. QED
    BY <1>7, <2>3, <2>4, <2>5, <2>6 DEF Passes
<1>8. CASE Drops
  <2>1. DOMAIN records' = {} /\ records' = <<>> /\ anomalies' = anomalies /\ verdict' = "error" /\ phase' = "done" /\ ~bestEffort
    BY <1>8 DEF Drops
  <2>2. QED
    BY <1>3, <2>1 DEF Gapless
<1>9. CASE Misses \/ CarveEnds
  <2>1. UNCHANGED <<offset, records, anomalies, verdict>> /\ phase = "carve" /\ phase' # "done"
    BY <1>9 DEF Misses, CarveEnds
  <2>2. Framed' = Framed
    BY <2>1, SameSpans
  <2>3. Covers(offset) => Covers(offset)'
    BY <2>1, <2>2 DEF Covers
  <2>4. QED
    BY <1>3, <2>1, <2>3 DEF Gapless, RecordEnd
<1>10. CASE UNCHANGED blockVars
  <2>1. Framed' = Framed /\ UNCHANGED blockVars
    BY <1>10, SameSpans DEF blockVars
  <2>2. /\ Covers(offset) => Covers(offset)'
        /\ Covers(end) => Covers(end)'
        /\ Covers(zeroTailStart) => Covers(zeroTailStart)'
    BY <1>3, <2>1 DEF Covers, blockVars
  <2>3. QED
    BY <1>3, <2>1, <2>2 DEF Gapless, RecordEnd, blockVars
<1>11. QED
  BY <1>5, <1>6, <1>7, <1>8, <1>9, <1>10, Moves

\* What a best-effort scan passes over, and is no padding, goes with an anomaly.
THEOREM NothingPassedInSilence == BlockSpec => []GapsAreNoted
<1>1. Gapless => GapsAreNoted
  BY DEF Gapless, GapsAreNoted, Covers
<1>2. QED
  BY <1>1, TypedInit, TypedStep, InOrderInit, InOrderStep, GaplessInit, GaplessStep, PTL DEF BlockSpec

\* A strict scan reports a block only if its records cover all of it, end to end.
THEOREM StrictCoversAll == BlockSpec => []StrictTiles
<1>1. Typed /\ Gapless => StrictTiles
  <2> SUFFICES ASSUME Typed, Gapless, phase = "done", ~bestEffort
               PROVE  IF verdict = "error" THEN records = <<>> /\ anomalies = <<>>
                      ELSE includeDeleted => UNION {Span(r) : r \in Framed} = 0 .. end - 1
    BY DEF StrictTiles
  <2>1. CASE verdict = "error"
    BY <2>1 DEF Gapless
  <2>2. CASE verdict # "error" /\ includeDeleted
    <3>1. 0 .. end - 1 \subseteq UNION {Span(r) : r \in Framed}
      BY <2>2 DEF Gapless, Covers
    <3>2. end \in Nat
      BY RecordsOf DEF Typed
    <3>3. \A i \in DOMAIN records : records[i] \in Found
      BY DEF Typed
    <3>4. ASSUME NEW r \in Framed PROVE Span(r) \subseteq 0 .. end - 1
      <4>1. PICK i \in DOMAIN records : r.at = records[i].at /\ r.len = records[i].len
        BY DEF Framed, Reported, ToSet
      <4>2. r.at \in Nat /\ r.len \in Nat /\ r.at + r.len <= end
        BY <3>3, <4>1 DEF Gapless, RecordEnd, Found
      <4>3. QED
        BY <3>2, <4>2 DEF Span
    <3>5. UNION {Span(r) : r \in Framed} \subseteq 0 .. end - 1
      BY <3>4
    <3>6. QED
      BY <2>2, <3>1, <3>5
  <2>3. QED
    BY <2>1, <2>2
<1>2. QED
  BY <1>1, TypedInit, TypedStep, InOrderInit, InOrderStep, GaplessInit, GaplessStep, PTL DEF BlockSpec

-------------------------------------------------------------------------------
(* Alignment. *)

LEMMA AlignedZero == Aligned(0)
<1>1. Align \in Nat \ {0} /\ 0 * Align + 0 = 0
  BY UnitAssumption
<1>2. (0 * Align + 0) % Align = 0
  BY <1>1, DivModUnique
<1>3. QED
  BY <1>1, <1>2 DEF Aligned

LEMMA AlignedSum == ASSUME NEW a, NEW b, Aligned(a), Aligned(b) PROVE Aligned(a + b)
<1> DEFINE p == a \div Align
           q == b \div Align
<1>1. Align \in Nat \ {0} /\ a \in Nat /\ b \in Nat /\ a % Align = 0 /\ b % Align = 0
  BY UnitAssumption DEF Aligned
<1>2. p \in Nat /\ q \in Nat
  BY <1>1, NatDiv
<1>3. a \in Int /\ b \in Int
  BY <1>1
<1>4. a = p * Align + (a % Align)
  BY <1>1, <1>3, DivMod
<1>5. b = q * Align + (b % Align)
  BY <1>1, <1>3, DivMod
<1> HIDE DEF p, q
<1>6. p * Align \in Nat /\ q * Align \in Nat /\ (p + q) * Align = p * Align + q * Align
  BY <1>1, <1>2
<1>7. a + b = (p + q) * Align /\ a + b \in Nat
  BY <1>1, <1>4, <1>5, <1>6
<1>8. ((p + q) * Align + 0) % Align = 0
  BY <1>1, <1>2, DivModUnique
<1>9. (p + q) * Align + 0 = a + b
  BY <1>7
<1>10. QED
  BY <1>7, <1>8, <1>9 DEF Aligned

LEMMA AlignedGap == ASSUME NEW a, NEW b, Aligned(a), Aligned(b), a < b PROVE a + Align <= b
<1>1. a \in Nat /\ b \in Nat /\ a % Align = 0 /\ Align \in Nat
  BY UnitAssumption DEF Aligned
<1>2. nextAlignedOffset(a) <= b
  BY <1>1, NextAligned
<1>3. nextAlignedOffset(a) = a + Align
  BY <1>1 DEF nextAlignedOffset
<1>4. QED
  BY <1>2, <1>3

LEMMA AlignedLayout ==
  ASSUME Inputs
  PROVE  \A s \in Intact : Aligned(s) /\ Aligned(layout.records[s].len)
<1>1. layout \in Layouts /\ Intact \subseteq DOMAIN layout.records
  BY DEF Inputs, Intact
<1>2. QED
  BY <1>1, LayoutAssumption DEF Laid

\* An undamaged record is taken for what it is.
LEMMA IntactIsFramed ==
  ASSUME Typed, offset \in Intact, NEW seen \in Reading(offset)
  PROVE  ~TooShort(seen) /\ ~Malformed(seen)
<1> DEFINE r == layout.records[offset]
<1>1. seen = r /\ Inputs /\ offset \in Nat
  BY Seen DEF Typed
<1>2. /\ r.len \in Nat \ {0} /\ offset + r.len <= layout.zeros
      /\ (r.kind = "active" /\ r.len >= Overhead) \/ (r.kind = "free" /\ r.len >= TagSize)
  BY <1>1, RecordsOf
<1>3. layout.zeros <= end /\ layout.zeros \in Nat /\ end \in Nat
  BY <1>1, RecordsOf DEF Inputs
<1>4. TagSize \in Nat /\ Overhead \in Nat /\ TagSize <= Overhead
  BY UnitAssumption
<1> HIDE DEF r
<1>5. Room >= r.len /\ Room \in Int
  BY <1>1, <1>2, <1>3 DEF Room
<1>6. QED
  BY <1>1, <1>2, <1>4, <1>5 DEF TooShort, Malformed

-------------------------------------------------------------------------------
(* DetectedDamageIsLocal *)

\* What the undamaged records were.
AllWritten == Written("active") \cup Written("free")
AsWritten(s) == [at |-> s, len |-> layout.records[s].len]

LEMMA WrittenAre ==
  ASSUME Inputs
  PROVE  AllWritten = {AsWritten(s) : s \in Intact}
<1>1. \A s \in Intact : layout.records[s].kind \in {"active", "free"}
  BY RecordsOf
<1>2. QED
  BY <1>1 DEF AllWritten, Written, AsWritten

\* As long as only what was written is reported, all of it is that is behind.
AllSoFar ==
  bestEffort /\ includeDeleted /\ Framed \subseteq AllWritten =>
    /\ Aligned(offset)
    /\ \A s \in Intact : phase = "done" \/ s < offset => AsWritten(s) \in Framed

LEMMA AllSoFarInit == BlockInit => AllSoFar
<1> SUFFICES ASSUME BlockInit PROVE AllSoFar
  OBVIOUS
<1>1. Inputs /\ offset = 0 /\ phase = "frame"
  BY DEF BlockInit, Inputs
<1>2. \A s \in Intact : ~(s < 0)
  BY <1>1, RecordsOf
<1>3. QED
  BY <1>1, <1>2, AlignedZero DEF AllSoFar

LEMMA AllSoFarStep == Typed /\ Typed' /\ AllSoFar /\ [BlockNext]_blockVars => AllSoFar'
<1> SUFFICES ASSUME Typed, Typed', AllSoFar, [BlockNext]_blockVars PROVE AllSoFar'
  OBVIOUS
<1>0. UNCHANGED <<layout, damaged, bestEffort, includeDeleted>>
  BY Moves DEF input
<1> SUFFICES ASSUME bestEffort, includeDeleted, (Framed \subseteq AllWritten)'
             PROVE  /\ Aligned(offset')
                    /\ \A s \in Intact : phase' = "done" \/ s < offset' => AsWritten(s) \in Framed'
  BY <1>0 DEF AllSoFar, Intact, AsWritten
<1>1. /\ records \in Seq(Found) /\ offset \in Nat /\ cursor \in Nat /\ Inputs /\ offset' \in Nat
  BY DEF Typed
<1>2. UNCHANGED <<layout, damaged, zeroTailStart, end>>
  BY Moves DEF input
<1>3. AllWritten' = AllWritten
  BY <1>2 DEF AllWritten, Written, Intact
<1>4. /\ end \in Nat /\ zeroTailStart \in Nat /\ zeroTailStart <= end /\ layout.zeros \in Nat /\ layout.zeros <= end
  BY <1>1, PaddingBehind, RecordsOf DEF Inputs
<1>5. \A s \in Intact : /\ s \in Nat /\ s < zeroTailStart /\ layout.records[s].len \in Nat \ {0}
                        /\ s + layout.records[s].len <= end
                        /\ Aligned(s) /\ Aligned(layout.records[s].len)
  BY <1>1, <1>4, PaddingBehind, RecordsOf, AlignedLayout
<1>6. ASSUME Framed' = Framed
      PROVE  Aligned(offset) /\ \A s \in Intact : phase = "done" \/ s < offset => AsWritten(s) \in Framed'
  BY <1>3, <1>6 DEF AllSoFar
<1>7. ASSUME NEW seen \in Reading(offset), Frames(seen)
      PROVE  /\ Aligned(offset')
             /\ \A s \in Intact : phase' = "done" \/ s < offset' => AsWritten(s) \in Framed'
  <2> DEFINE r == Record(seen.kind, offset, seen.len)
  <2>1. r \in Found /\ r.at = offset /\ r.len = seen.len /\ r.kind # "carved"
    BY <1>1, <1>7 DEF Frames, Record, Found
  <2>2. /\ records' = Append(records, r) /\ offset' = offset + seen.len /\ phase' # "done"
    BY <1>7 DEF Frames
  <2> HIDE DEF r
  <2>3. Framed' = Framed \cup {[at |-> offset, len |-> seen.len]}
    BY <1>1, <2>1, <2>2, MoreSpans
  <2>4. Aligned(offset) /\ \A s \in Intact : s < offset => AsWritten(s) \in Framed
    BY <1>3, <2>3 DEF AllSoFar
  <2>5. [at |-> offset, len |-> seen.len] \in AllWritten
    BY <1>3, <2>3
  <2>6. PICK s \in Intact : AsWritten(s) = [at |-> offset, len |-> seen.len]
    BY <1>1, <2>5, WrittenAre
  <2>7. s = offset /\ seen.len = layout.records[offset].len /\ offset \in Intact
    BY <2>6 DEF AsWritten
  <2>8. Aligned(offset')
    BY <1>5, <2>2, <2>4, <2>7, AlignedSum
  <2>9. ASSUME NEW u \in Intact, u < offset' PROVE AsWritten(u) \in Framed'
    <3>1. CASE u < offset
      BY <2>3, <2>4, <3>1
    <3>2. CASE u = offset
      BY <2>3, <2>6, <2>7, <3>2
    <3>3. ~(offset < u)
      <4>1. offset < u => offset + layout.records[offset].len <= u
        BY <1>1, <2>7, RecordsOf
      <4>2. offset' = offset + layout.records[offset].len /\ layout.records[offset].len \in Nat /\ u \in Nat
        BY <1>5, <2>2, <2>7
      <4>3. QED
        BY <1>1, <2>9, <4>1, <4>2
    <3>4. QED
      BY <1>1, <1>5, <3>1, <3>2, <3>3
  <2>10. QED
    BY <2>2, <2>8, <2>9
<1>8. CASE Passes
  <2>1. Framed' = Framed /\ phase = "frame"
    BY <1>8, SameSpans DEF Passes
  <2>2. Aligned(offset) /\ \A s \in Intact : s < offset => AsWritten(s) \in Framed'
    BY <1>6, <2>1
  <2>3. CASE Stops
    <3>1. PICK seen \in Reading(offset) : TooShort(seen)
      BY <2>3 DEF Stops
    <3>2. offset \notin Intact
      BY <3>1, IntactIsFramed
    <3>3. /\ Align \in Nat \ {0} /\ TagSize \in Nat /\ Overhead \in Nat
          /\ TagSize <= Align /\ TagSize <= Overhead /\ Overhead <= 2 * Align
      BY UnitAssumption
    <3>4. Room < Overhead /\ Room = end - offset
      BY <1>1, <1>4, <3>1, <3>3 DEF TooShort, Room
    <3>5. ASSUME NEW s \in Intact PROVE ~(offset < s)
      <4>1. offset < s => offset + Align <= s
        BY <1>5, <2>2, AlignedGap
      <4>2. Aligned(0)
        BY AlignedZero
      <4>3. 0 < layout.records[s].len => 0 + Align <= layout.records[s].len
        BY <1>5, <4>2, AlignedGap
      <4>4. QED
        BY <1>1, <1>4, <1>5, <3>3, <3>4, <4>1, <4>3
    <3>6. \A s \in Intact : s < offset
      BY <1>1, <1>5, <3>2, <3>5
    <3>7. offset' = offset
      BY <2>3 DEF Stops, Stop
    <3>8. QED
      BY <2>2, <3>6, <3>7
  <2>4. CASE Resumes
    <3>1. PICK seen \in Reading(offset) : Malformed(seen)
      BY <2>4 DEF Resumes
    <3>2. offset \notin Intact
      BY <3>1, IntactIsFramed
    <3>3. PICK code \in Codes : Resync(code)
      BY <2>4 DEF Resumes
    <3>4. CASE offset >= zeroTailStart
      <4>1. offset' = offset
        BY <3>3, <3>4 DEF Resync
      <4>2. \A s \in Intact : s < offset
        BY <1>1, <1>4, <1>5, <3>4
      <4>3. QED
        BY <2>2, <4>1, <4>2
    <3>5. CASE ~(offset >= zeroTailStart)
      <4>1. offset' = nextAlignedOffset(offset) /\ phase' # "done"
        BY <2>1, <3>3, <3>5 DEF Resync, Resume
      <4>2. Aligned(offset') /\ \A s \in Nat : Aligned(s) /\ offset < s => offset' <= s
        BY <1>1, <4>1, NextAligned
      <4>3. \A s \in Intact : s < offset' => s < offset
        BY <1>1, <1>5, <3>2, <4>2
      <4>4. QED
        BY <2>2, <4>1, <4>2, <4>3
    <3>6. QED
      BY <3>4, <3>5
  <2>5. CASE BlockEnds
    <3>1. offset >= end /\ offset' = offset
      BY <2>5 DEF BlockEnds
    <3>2. \A s \in Intact : s < offset
      BY <1>1, <1>4, <1>5, <3>1
    <3>3. QED
      BY <2>2, <3>1, <3>2
  <2>6. QED
    BY <1>8, <2>3, <2>4, <2>5 DEF Passes, Skips
<1>9. ASSUME NEW len \in Lengths(cursor), Carves(len)
      PROVE  /\ Aligned(offset')
             /\ \A s \in Intact : phase' = "done" \/ s < offset' => AsWritten(s) \in Framed'
  <2> DEFINE r == Record("carved", cursor, len)
  <2>1. r \in Found /\ r.kind = "carved"
    BY CarvedHere DEF Record
  <2>2. records' = Append(records, r) /\ UNCHANGED <<phase, offset>>
    BY <1>9 DEF Carves
  <2> HIDE DEF r
  <2>3. Framed' = Framed
    BY <1>1, <2>1, <2>2, MoreSpans
  <2>4. QED
    BY <1>6, <2>2, <2>3
<1>10. CASE Misses \/ CarveEnds \/ UNCHANGED blockVars
  <2>1. UNCHANGED <<offset, records>> /\ (phase' = "done" => phase = "done")
    BY <1>10 DEF Misses, CarveEnds, blockVars
  <2>2. Framed' = Framed
    BY <2>1, SameSpans
  <2>3. QED
    BY <1>6, <2>1, <2>2
<1>11. ~Drops
  BY DEF Drops
<1>12. QED
  BY <1>7, <1>8, <1>9, <1>10, <1>11, Moves

\* As long as no noise is taken for a record, every undamaged record is reported: the
\* next offset that is tried after damage is never behind the start of one.
THEOREM ResynchronisationLosesNothing == BlockSpec => []DetectedDamageIsLocal
<1>1. Typed /\ AllSoFar => DetectedDamageIsLocal
  <2> SUFFICES ASSUME Typed, AllSoFar, phase = "done", bestEffort, includeDeleted, Framed \subseteq AllWritten
               PROVE  AllWritten \subseteq Framed
    BY DEF DetectedDamageIsLocal, AllWritten
  <2>1. AllWritten = {AsWritten(s) : s \in Intact}
    BY WrittenAre DEF Typed
  <2>2. QED
    BY <2>1 DEF AllSoFar
<1>2. QED
  BY <1>1, TypedInit, TypedStep, AllSoFarInit, AllSoFarStep, PTL DEF BlockSpec

-------------------------------------------------------------------------------
(* RemnantsAreCarved *)

\* A remnant lies in its free run, and apart from any other.
LEMMA RemnantsApart ==
  ASSUME Inputs, NEW m \in Remnants, NEW n \in Remnants
  PROVE  /\ m.at \in Nat /\ m.len \in Nat /\ Aligned(m.at) /\ Aligned(m.len) /\ Overhead <= m.len
         /\ m.at < n.at => m.at + m.len <= n.at
         /\ m.at = n.at => m.len = n.len
<1>1. layout \in Layouts /\ TagSize \in Nat \ {0}
  BY UnitAssumption DEF Inputs
<1>2. PICK s \in Intact : /\ layout.records[s].kind = "free" /\ Within(m, s, layout.records[s].len)
                          /\ \E x \in layout.records[s].remnants : m = [at |-> x.at, len |-> x.len]
  BY RemnantsOf
<1>3. PICK u \in Intact : /\ layout.records[u].kind = "free" /\ Within(n, u, layout.records[u].len)
                          /\ \E y \in layout.records[u].remnants : n = [at |-> y.at, len |-> y.len]
  BY RemnantsOf
<1>4. /\ m.at \in Nat /\ m.len \in Nat /\ s + TagSize <= m.at /\ m.at + m.len <= s + layout.records[s].len
      /\ n.at \in Nat /\ n.len \in Nat /\ u + TagSize <= n.at /\ n.at + n.len <= u + layout.records[u].len
  BY <1>2, <1>3 DEF Within, Aligned
<1>5. /\ s \in Nat /\ u \in Nat /\ layout.records[s].len \in Nat /\ layout.records[u].len \in Nat
      /\ s < u => s + layout.records[s].len <= u
      /\ u < s => u + layout.records[u].len <= s
  BY <1>2, <1>3, RecordsOf
<1>6. CASE s = u
  <2>1. PICK x \in layout.records[s].remnants : m = [at |-> x.at, len |-> x.len]
    BY <1>2
  <2>2. PICK y \in layout.records[s].remnants : n = [at |-> y.at, len |-> y.len]
    BY <1>3, <1>6
  <2>3. s \in DOMAIN layout.records
    BY <1>2 DEF Intact
  <2>4. (x.at < y.at => x.at + x.len <= y.at) /\ (x.at = y.at => x.len = y.len)
    BY <1>1, <1>2, <2>1, <2>2, <2>3, LayoutAssumption
  <2>5. QED
    BY <1>2, <1>4, <2>1, <2>2, <2>4 DEF Within
<1>7. CASE s < u
  <2>1. m.at + m.len <= n.at /\ m.at # n.at
    <3>1. m.at + m.len <= u /\ u < n.at
      BY <1>1, <1>4, <1>5, <1>7
    <3>2. Overhead \in Nat \ {0} /\ Overhead <= m.len
      BY <1>2, UnitAssumption DEF Within
    <3>3. QED
      BY <1>4, <1>5, <3>1, <3>2
  <2>2. QED
    BY <1>2, <1>4, <2>1 DEF Within
<1>8. CASE u < s
  <2>1. n.at < m.at
    <3>1. n.at + n.len <= s /\ s < m.at
      BY <1>1, <1>4, <1>5, <1>8
    <3>2. QED
      BY <1>4, <1>5, <3>1
  <2>2. QED
    BY <1>2, <1>4, <2>1 DEF Within
<1>9. QED
  BY <1>5, <1>6, <1>7, <1>8

\* A deleted entry lies in a free run.
Inside(m, f) == f.at < m.at /\ m.at + m.len <= f.at + f.len

\* Of the undamaged free runs behind, all remnants are carved, and of the one that is
\* being carved, all before the cursor.
CarvedSoFar ==
  includeDeleted /\ Reported("carved") \subseteq Remnants =>
    \A f \in Reported("free") \cap Written("free") :
      /\ phase = "carve" /\ f.at + f.len = slotEnd => Aligned(cursor)
      /\ \A m \in Remnants :
           Inside(m, f) /\ (phase = "carve" /\ f.at + f.len = slotEnd => m.at < cursor) => m \in Reported("carved")

LEMMA CarvedSoFarInit == BlockInit => CarvedSoFar
<1> SUFFICES ASSUME BlockInit PROVE CarvedSoFar
  OBVIOUS
<1>1. Reported("free") = {}
  BY DEF BlockInit, Reported, ToSet
<1>2. QED
  BY <1>1 DEF CarvedSoFar

LEMMA CarvedSoFarStep == Typed /\ Typed' /\ InOrder /\ CarvedSoFar /\ [BlockNext]_blockVars => CarvedSoFar'
<1> SUFFICES ASSUME Typed, Typed', InOrder, CarvedSoFar, [BlockNext]_blockVars PROVE CarvedSoFar'
  OBVIOUS
<1>1. UNCHANGED <<layout, damaged, zeroTailStart, end, includeDeleted>>
  BY Moves DEF input
<1>2. Remnants' = Remnants /\ Written("free")' = Written("free")
  BY <1>1 DEF Remnants, Written, Intact
<1> DEFINE Done(f) ==
      /\ phase' = "carve" /\ f.at + f.len = slotEnd' => Aligned(cursor')
      /\ \A m \in Remnants :
           Inside(m, f) /\ (phase' = "carve" /\ f.at + f.len = slotEnd' => m.at < cursor') => m \in Reported("carved")'
<1> SUFFICES ASSUME includeDeleted, Reported("carved")' \subseteq Remnants,
                    NEW f \in Reported("free")', f \in Written("free")
             PROVE  Done(f)
  BY <1>1, <1>2 DEF CarvedSoFar
<1>3. /\ records \in Seq(Found) /\ offset \in Nat /\ cursor \in Nat /\ slotEnd \in Nat /\ Inputs
      /\ \A i \in DOMAIN records : records[i] \in Found
  BY DEF Typed
<1>4. PICK s \in Intact : f = [at |-> s, len |-> layout.records[s].len] /\ layout.records[s].kind = "free"
  BY DEF Written
<1>5. /\ f.at \in Nat /\ f.len \in Nat \ {0} /\ Aligned(f.at)
  BY <1>3, <1>4, RecordsOf, AlignedLayout
<1>6. \A m \in Remnants : m.at \in Nat /\ m.len \in Nat /\ Aligned(m.at) /\ Aligned(m.len) /\ Overhead <= m.len
  BY <1>3, RemnantsApart
<1>7. ASSUME Reported("carved") \subseteq Reported("carved")', f \in Reported("free")
      PROVE  /\ phase = "carve" /\ f.at + f.len = slotEnd => Aligned(cursor)
             /\ \A m \in Remnants :
                  Inside(m, f) /\ (phase = "carve" /\ f.at + f.len = slotEnd => m.at < cursor) => m \in Reported("carved")'
  BY <1>7 DEF CarvedSoFar
<1>8. ASSUME NEW seen \in Reading(offset), Frames(seen) PROVE Done(f)
  <2> DEFINE r == Record(seen.kind, offset, seen.len)
  <2>1. r \in Found /\ r.at = offset /\ r.len = seen.len /\ r.kind = seen.kind /\ seen.kind # "carved"
    BY <1>3, <1>8 DEF Frames, Record, Found
  <2>2. records' = Append(records, r) /\ offset' = offset + seen.len /\ seen.len \in Nat \ {0} /\ phase = "frame"
    BY <1>8 DEF Frames
  <2> HIDE DEF r
  <2>3. Reported("carved")' = Reported("carved")
    <3>1. Reported("carved")' = Reported("carved") \cup (IF r.kind = "carved" THEN {[at |-> r.at, len |-> r.len]} ELSE {})
      BY <1>3, <2>1, <2>2, OneMoreReported
    <3>2. r.kind # "carved"
      BY <2>1
    <3>3. QED
      BY <3>1, <3>2
  <2>4. Reported("free")' = Reported("free") \cup (IF r.kind = "free" THEN {[at |-> r.at, len |-> r.len]} ELSE {})
    BY <1>3, <2>1, <2>2, OneMoreReported
  <2>5. CASE f \in Reported("free")
    <3>1. PICK i \in DOMAIN records : f.at = records[i].at /\ f.len = records[i].len
      BY <2>5 DEF Reported, ToSet
    <3>2. f.at + f.len <= offset
      BY <3>1 DEF InOrder, RecordEnd
    <3>3. phase' = "carve" => slotEnd' = offset + seen.len
      BY <1>8, <2>1, <2>2 DEF Frames
    <3>4. ~(phase' = "carve" /\ f.at + f.len = slotEnd')
      BY <1>3, <1>5, <2>2, <3>2, <3>3
    <3>5. \A m \in Remnants : Inside(m, f) => m \in Reported("carved")'
      BY <1>7, <2>2, <2>3, <2>5
    <3>6. QED
      BY <3>4, <3>5
  <2>6. CASE f \notin Reported("free")
    <3>1. seen.kind = "free" /\ f = [at |-> offset, len |-> seen.len]
      BY <2>1, <2>4, <2>6
    <3>2. phase' = "carve" /\ slotEnd' = offset + seen.len /\ cursor' = nextAlignedOffset(offset + TagSize - 1)
      BY <1>8, <2>2, <3>1 DEF Frames
    <3>3. Aligned(cursor') /\ \A k \in Nat : Aligned(k) /\ offset + TagSize <= k => cursor' <= k
      BY <3>2, FirstCursor
    <3>4. ASSUME NEW m \in Remnants, Inside(m, f) PROVE ~(m.at < cursor')
      <4>1. offset < m.at
        BY <3>1, <3>4 DEF Inside
      <4>2. offset + Align <= m.at
        BY <1>5, <1>6, <3>1, <4>1, AlignedGap
      <4>3. TagSize <= Align /\ TagSize \in Nat /\ Align \in Nat /\ m.at \in Nat /\ Aligned(m.at)
        BY <1>6, UnitAssumption
      <4>4. offset + TagSize <= m.at
        BY <1>3, <4>2, <4>3
      <4>5. cursor' <= m.at /\ cursor' \in Nat
        BY <3>3, <4>3, <4>4 DEF Aligned
      <4>6. QED
        BY <4>3, <4>5
    <3>5. f.at + f.len = slotEnd'
      BY <3>1, <3>2
    <3>6. QED
      BY <3>2, <3>3, <3>4, <3>5
  <2>7. QED
    BY <2>5, <2>6
<1>9. ASSUME NEW n \in Lengths(cursor), Carves(n) PROVE Done(f)
  <2> DEFINE r == Record("carved", cursor, n)
             c == [at |-> cursor, len |-> n]
  <2>1. r \in Found /\ r.at = cursor /\ r.len = n /\ r.kind = "carved"
    BY CarvedHere DEF Record
  <2>2. records' = Append(records, r) /\ cursor' = cursor + n /\ UNCHANGED <<phase, slotEnd>> /\ phase = "carve" /\ n \in Nat
    BY <1>9 DEF Carves
  <2> HIDE DEF r
  <2>3. Reported("carved")' = Reported("carved") \cup {c}
    BY <1>3, <2>1, <2>2, OneMoreReported
  <2>4. Reported("free")' = Reported("free")
    <3>1. Reported("free")' = Reported("free") \cup (IF r.kind = "free" THEN {[at |-> r.at, len |-> r.len]} ELSE {})
      BY <1>3, <2>1, <2>2, OneMoreReported
    <3>2. r.kind # "free"
      BY <2>1
    <3>3. QED
      BY <3>1, <3>2
  <2>5. c \in Remnants /\ c.at = cursor /\ c.len = n
    BY <2>3
  <2> HIDE DEF c
  <2>6. f.at + f.len = slotEnd => Aligned(cursor')
    BY <1>6, <1>7, <2>2, <2>3, <2>4, <2>5, AlignedSum
  <2>7. ASSUME NEW m \in Remnants, Inside(m, f), f.at + f.len = slotEnd => m.at < cursor'
        PROVE  m \in Reported("carved")'
    <3>1. CASE f.at + f.len = slotEnd => m.at < cursor
      BY <1>7, <2>3, <2>4, <2>7, <3>1
    <3>2. CASE f.at + f.len = slotEnd /\ m.at < cursor + n /\ ~(m.at < cursor)
      <4>1. (c.at < m.at => c.at + c.len <= m.at) /\ (c.at = m.at => c.len = m.len) /\ m.at \in Nat
        BY <1>3, <1>6, <2>5, RemnantsApart
      <4>2. c.at = m.at /\ c.len = m.len
        BY <1>3, <2>2, <2>5, <3>2, <4>1
      <4>3. m = [at |-> m.at, len |-> m.len]
        BY DEF Remnants
      <4>4. m = c
        BY <2>5, <4>2, <4>3 DEF c
      <4>5. QED
        BY <2>3, <4>4
    <3>3. QED
      BY <2>2, <2>7, <3>1, <3>2
  <2>8. QED
    BY <2>2, <2>6, <2>7
<1>10. ASSUME Misses, NEW n \in Lengths(cursor), ~(n > 0 /\ Fits(n)) PROVE Done(f)
  <2>1. UNCHANGED <<phase, slotEnd, records>> /\ phase = "carve" /\ cursor' = nextAlignedOffset(cursor)
    BY <1>10 DEF Misses
  <2>2. Reported("carved")' = Reported("carved") /\ Reported("free")' = Reported("free")
    BY <2>1, SameReported
  <2>3. Aligned(cursor') /\ \A k \in Nat : Aligned(k) /\ cursor < k => cursor' <= k
    BY <1>3, <2>1, NextAligned
  <2>4. ASSUME NEW m \in Remnants, Inside(m, f), f.at + f.len = slotEnd => m.at < cursor'
        PROVE  m \in Reported("carved")'
    <3>1. CASE f.at + f.len = slotEnd => m.at < cursor
      BY <1>7, <2>2, <2>4, <3>1
    <3>2. CASE f.at + f.len = slotEnd /\ m.at < cursor' /\ ~(m.at < cursor)
      <4>1. m.at \in Nat /\ Aligned(m.at) /\ cursor' \in Nat
        BY <1>6, <2>3 DEF Aligned
      <4>2. m.at = cursor
        BY <1>3, <2>3, <3>2, <4>1
      <4>3. n \in {x.len : x \in {y \in Remnants : y.at = cursor}}
        BY <4>2 DEF Lengths
      <4>4. n = m.len
        BY <1>3, <4>2, <4>3, RemnantsApart
      <4>5. n \in Nat /\ Overhead <= n /\ Overhead \in Nat \ {0}
        BY <1>6, <4>4, UnitAssumption
      <4>6. cursor + n <= slotEnd
        BY <2>4, <3>2, <4>2, <4>4 DEF Inside
      <4>7. QED
        BY <1>10, <4>5, <4>6 DEF Fits
    <3>3. QED
      BY <2>4, <3>1, <3>2
  <2>5. QED
    BY <2>1, <2>3, <2>4
<1>11. CASE CarveEnds
  <2>1. UNCHANGED <<slotEnd, records, cursor>> /\ phase = "carve" /\ phase' = "frame" /\ cursor + Overhead > slotEnd
    BY <1>11 DEF CarveEnds
  <2>2. Reported("carved")' = Reported("carved") /\ Reported("free")' = Reported("free")
    BY <2>1, SameReported
  <2>3. ASSUME NEW m \in Remnants, Inside(m, f) PROVE m \in Reported("carved")'
    <3>1. f.at + f.len = slotEnd => m.at < cursor
      <4>1. Overhead <= m.len /\ m.at \in Nat /\ m.len \in Nat /\ Overhead \in Nat
        BY <1>6, UnitAssumption
      <4>2. QED
        BY <1>3, <2>1, <2>3, <4>1 DEF Inside
    <3>2. QED
      BY <1>7, <2>2, <2>3, <3>1
  <2>4. QED
    BY <2>1, <2>3
<1>12. CASE Passes
  <2>1. UNCHANGED records /\ phase = "frame" /\ phase' # "carve"
    BY <1>12 DEF Passes
  <2>2. Reported("carved")' = Reported("carved") /\ Reported("free")' = Reported("free")
    BY <2>1, SameReported
  <2>3. QED
    BY <1>7, <2>1, <2>2
<1>13. CASE Drops
  <2>1. Reported("free")' = {}
    BY <1>13, NoneReported DEF Drops
  <2>2. QED
    BY <2>1
<1>14. CASE UNCHANGED blockVars
  <2>1. UNCHANGED <<records, phase, cursor, slotEnd>>
    BY <1>14 DEF blockVars
  <2>2. Reported("carved")' = Reported("carved") /\ Reported("free")' = Reported("free")
    BY <2>1, SameReported
  <2>3. QED
    BY <1>7, <2>1, <2>2
<1>15. QED
  BY <1>8, <1>9, <1>10, <1>11, <1>12, <1>13, <1>14, Moves

\* As long as no noise is taken for a deleted entry, all that a reported free run still
\* holds are carved: the steps of the search are those deleted entries are aligned to.
THEOREM CarvingMissesNothing == BlockSpec => []RemnantsAreCarved
<1>1. CarvedSoFar => RemnantsAreCarved
  BY DEF CarvedSoFar, RemnantsAreCarved, Inside
<1>2. QED
  BY <1>1, TypedInit, TypedStep, InOrderInit, InOrderStep, CarvedSoFarInit, CarvedSoFarStep,
     PTL DEF BlockSpec

-------------------------------------------------------------------------------
(* IntactIsWhole *)

\* Behind a record is the next, or the padding.
LEMMA NextRecord ==
  ASSUME Inputs, NEW s \in DOMAIN layout.records
  PROVE  s + layout.records[s].len \in DOMAIN layout.records \cup {layout.zeros}
<1> DEFINE k == s + layout.records[s].len
<1>1. layout \in Layouts
  BY DEF Inputs
<1>2. /\ layout.zeros \in Nat /\ s \in Nat /\ layout.records[s].len \in Nat \ {0} /\ k <= layout.zeros
      /\ \A t \in DOMAIN layout.records : s < t => k <= t
  BY RecordsOf
<1>3. SUFFICES ASSUME k # layout.zeros PROVE k \in DOMAIN layout.records
  OBVIOUS
<1>4. k \in 0 .. layout.zeros - 1 /\ s < k
  BY <1>2, <1>3
<1> HIDE DEF k
<1>5. PICK t \in DOMAIN layout.records : t <= k /\ k < t + layout.records[t].len
  BY <1>1, <1>4, LayoutAssumption
<1>6. t \in Nat /\ layout.records[t].len \in Nat /\ (t < s => t + layout.records[t].len <= s)
  BY <1>5, RecordsOf
<1>7. ~(t < s)
  BY <1>2, <1>4, <1>5, <1>6
<1>8. t # s
  <2>1. ~(k < k) /\ k = s + layout.records[s].len
    BY <1>4 DEF k
  <2>2. QED
    BY <1>5, <2>1
<1>9. t = k
  BY <1>2, <1>4, <1>5, <1>6, <1>7, <1>8
<1>10. QED
  BY <1>5, <1>9

\* An undamaged block that has no padding a strict scan would stumble over.
Healthy == damaged = {} /\ (bestEffort \/ ~Padded)

\* The records of a kind that are behind.
Behind(kind) == {AsWritten(s) : s \in {u \in Intact : layout.records[u].kind = kind /\ (phase = "done" \/ u < offset)}}

\* What is reported of an undamaged block is what of it is behind, and nothing is noted.
WholeSoFar ==
  Healthy =>
    /\ anomalies = <<>> /\ verdict # "error" /\ (phase = "done" => verdict = "ok")
    /\ phase # "done" => offset \in DOMAIN layout.records \cup {layout.zeros}
    /\ Reported("active") = Behind("active")
    /\ includeDeleted => Reported("free") = Behind("free")

LEMMA WholeSoFarInit == BlockInit => WholeSoFar
<1> SUFFICES ASSUME BlockInit, Healthy PROVE WholeSoFar
  BY DEF WholeSoFar
<1>1. Inputs /\ offset = 0 /\ phase = "frame" /\ records = <<>> /\ anomalies = <<>> /\ verdict = "none" /\ layout \in Layouts
  BY DEF BlockInit, Inputs
<1>2. Reported("active") = {} /\ Reported("free") = {}
  BY <1>1 DEF Reported, ToSet
<1>3. Behind("active") = {} /\ Behind("free") = {}
  <2>1. \A s \in Intact : s \in Nat
    BY <1>1, RecordsOf
  <2>2. \A s \in Intact : ~(s < offset)
    BY <1>1, <2>1
  <2>3. QED
    BY <1>1, <2>2 DEF Behind
<1>4. 0 \in DOMAIN layout.records \cup {layout.zeros}
  <2>1. layout.zeros \in Nat /\ \A s \in DOMAIN layout.records : s \in Nat
    BY <1>1, RecordsOf
  <2>2. layout.zeros # 0 => 0 \in 0 .. layout.zeros - 1
    BY <2>1
  <2>3. layout.zeros # 0 => \E s \in DOMAIN layout.records : s <= 0
    BY <1>1, <2>2, LayoutAssumption
  <2>4. \A s \in DOMAIN layout.records : s <= 0 => s = 0
    BY <2>1
  <2>5. QED
    BY <2>3, <2>4
<1>5. QED
  BY <1>1, <1>2, <1>3, <1>4 DEF WholeSoFar

LEMMA WholeSoFarStep == Typed /\ Typed' /\ WholeSoFar /\ [BlockNext]_blockVars => WholeSoFar'
<1> SUFFICES ASSUME Typed, Typed', WholeSoFar, [BlockNext]_blockVars PROVE WholeSoFar'
  OBVIOUS
<1>1. UNCHANGED <<layout, damaged, zeroTailStart, end, bestEffort, includeDeleted>>
  BY Moves DEF input
<1>2. Healthy' = Healthy
  BY <1>1 DEF Healthy, Padded
<1> SUFFICES ASSUME Healthy PROVE WholeSoFar'
  BY <1>2 DEF WholeSoFar
<1>3. /\ records \in Seq(Found) /\ offset \in Nat /\ cursor \in Nat /\ Inputs /\ offset' \in Nat
  BY DEF Typed
<1>4. /\ anomalies = <<>> /\ verdict # "error" /\ (phase = "done" => verdict = "ok")
      /\ phase # "done" => offset \in DOMAIN layout.records \cup {layout.zeros}
      /\ Reported("active") = Behind("active")
      /\ includeDeleted => Reported("free") = Behind("free")
  BY DEF WholeSoFar
<1>5. Intact = DOMAIN layout.records
  BY DEF Healthy, Intact
<1>6. zeroTailStart = layout.zeros /\ layout.zeros \in Nat /\ end \in Nat /\ layout.zeros <= end
  <2>1. zeroTailStart \in Nat /\ \A s \in Intact : s < zeroTailStart
    BY <1>3, PaddingBehind
  <2>2. ~(zeroTailStart < zeroTailStart)
    BY <2>1
  <2>3. zeroTailStart \notin DOMAIN layout.records
    BY <1>5, <2>1, <2>2
  <2>4. QED
    BY <1>3, <2>3, PaddingBehind, RecordsOf DEF Inputs
<1>7. \A s \in Intact : s \in Nat /\ s < layout.zeros /\ layout.records[s].kind \in {"active", "free"}
  BY <1>3, <1>6, PaddingBehind, RecordsOf
<1>8. ASSUME phase = "frame", NEW seen \in Reading(offset), ~TooShort(seen), ~Malformed(seen)
      PROVE  offset \in Intact /\ seen = layout.records[offset]
             /\ offset + seen.len \in DOMAIN layout.records \cup {layout.zeros}
             /\ \A u \in Intact : u < offset + seen.len <=> u < offset \/ u = offset
  <2>1. offset # layout.zeros
    <3>1. SUFFICES ASSUME offset = layout.zeros PROVE FALSE
      OBVIOUS
    <3>2. offset >= zeroTailStart
      BY <1>6, <3>1
    <3>3. QED
      BY <1>3, <1>8, <3>2, Seen DEF Malformed
  <2>2. offset \in Intact
    BY <1>4, <1>5, <1>8, <2>1
  <2>3. seen = layout.records[offset]
    BY <1>3, <2>2, Seen
  <2>4. offset + seen.len \in DOMAIN layout.records \cup {layout.zeros}
    BY <1>3, <1>5, <2>2, <2>3, NextRecord
  <2>5. /\ seen.len \in Nat \ {0}
        /\ \A u \in Intact : offset < u => offset + seen.len <= u
    BY <1>3, <1>5, <2>2, <2>3, RecordsOf
  <2>6. ASSUME NEW u \in Intact PROVE u < offset + seen.len <=> u < offset \/ u = offset
    BY <1>3, <1>7, <2>5
  <2>7. QED
    BY <2>2, <2>3, <2>4, <2>6
<1>9. ASSUME phase = "frame", NEW seen \in Reading(offset), TooShort(seen) \/ Malformed(seen)
       PROVE  offset = layout.zeros
  BY <1>4, <1>5, <1>9, IntactIsFramed
<1>10. ASSUME phase = "frame", offset = layout.zeros \/ offset >= end, phase' = "done", verdict' = "ok",
              UNCHANGED <<records, anomalies>>
       PROVE  WholeSoFar'
  <2>1. \A u \in Intact : u < offset
    BY <1>3, <1>6, <1>7, <1>10
  <2>2. Behind("active")' = Behind("active") /\ Behind("free")' = Behind("free")
    BY <1>1, <1>10, <2>1 DEF Behind, Intact, AsWritten
  <2>3. Reported("active")' = Reported("active") /\ Reported("free")' = Reported("free")
    BY <1>10, SameReported
  <2>4. QED
    BY <1>1, <1>4, <1>10, <2>2, <2>3 DEF WholeSoFar
<1>11. ASSUME NEW seen \in Reading(offset), ~TooShort(seen), ~Malformed(seen), Frames(seen) PROVE WholeSoFar'
  <2> DEFINE r == Record(seen.kind, offset, seen.len)
  <2>1. r \in Found /\ r.at = offset /\ r.len = seen.len /\ r.kind = seen.kind
    BY <1>3, <1>11 DEF Frames, Record, Found
  <2>2. /\ records' = Append(records, r) /\ offset' = offset + seen.len /\ phase = "frame" /\ phase' # "done"
        /\ UNCHANGED <<anomalies, verdict>>
    BY <1>11 DEF Frames
  <2> HIDE DEF r
  <2>3. /\ offset \in Intact /\ seen = layout.records[offset]
        /\ offset' \in DOMAIN layout.records \cup {layout.zeros}
        /\ \A u \in Intact : u < offset' <=> u < offset \/ u = offset
    BY <1>8, <1>11, <2>2
  <2>4. ASSUME NEW kind \in {"active", "free"}, Reported(kind) = Behind(kind)
        PROVE  Reported(kind)' = Behind(kind)'
    <3>1. Reported(kind)' = Reported(kind) \cup (IF r.kind = kind THEN {[at |-> r.at, len |-> r.len]} ELSE {})
      BY <1>3, <2>1, <2>2, OneMoreReported
    <3>2. Behind(kind)' = {AsWritten(s) : s \in {u \in Intact : layout.records[u].kind = kind /\ u < offset'}}
      BY <1>1, <2>2 DEF Behind, Intact, AsWritten
    <3>3. Behind(kind) = {AsWritten(s) : s \in {u \in Intact : layout.records[u].kind = kind /\ u < offset}}
      BY <2>2 DEF Behind
    <3>4. AsWritten(offset) = [at |-> r.at, len |-> r.len] /\ (r.kind = kind <=> layout.records[offset].kind = kind)
      BY <2>1, <2>3 DEF AsWritten
    <3>5. CASE r.kind = kind
      <4>1. {u \in Intact : layout.records[u].kind = kind /\ u < offset'} =
              {u \in Intact : layout.records[u].kind = kind /\ u < offset} \cup {offset}
        BY <2>3, <3>4, <3>5
      <4>2. Behind(kind)' = Behind(kind) \cup {AsWritten(offset)}
        BY <3>2, <3>3, <4>1
      <4>3. QED
        BY <2>4, <3>1, <3>4, <3>5, <4>2
    <3>6. CASE r.kind # kind
      <4>1. {u \in Intact : layout.records[u].kind = kind /\ u < offset'} =
              {u \in Intact : layout.records[u].kind = kind /\ u < offset}
        BY <2>3, <3>4, <3>6
      <4>2. Behind(kind)' = Behind(kind)
        BY <3>2, <3>3, <4>1
      <4>3. QED
        BY <2>4, <3>1, <3>6, <4>2
    <3>7. QED
      BY <3>5, <3>6
  <2>5. Reported("active")' = Behind("active")' /\ (includeDeleted => Reported("free")' = Behind("free")')
    BY <1>4, <2>4
  <2>6. QED
    BY <1>1, <1>4, <2>2, <2>3, <2>5 DEF WholeSoFar
<1>12. CASE Passes
  <2>1. phase = "frame" /\ UNCHANGED records
    BY <1>12 DEF Passes
  <2>2. CASE Stops
    <3>1. PICK seen \in Reading(offset) : TooShort(seen)
      BY <2>2 DEF Stops
    <3>2. offset = layout.zeros
      BY <1>9, <2>1, <3>1
    <3>3. offset >= zeroTailStart
      BY <1>6, <3>2
    <3>4. anomalies' = anomalies /\ phase' = "done" /\ verdict' = "ok"
      BY <2>2, <3>3 DEF Stops, Stop, End, AfterFailure
    <3>5. QED
      BY <1>10, <2>1, <3>2, <3>4
  <2>3. CASE Resumes
    <3>1. PICK seen \in Reading(offset) : Malformed(seen)
      BY <2>3 DEF Resumes
    <3>2. offset = layout.zeros
      BY <1>9, <2>1, <3>1
    <3>3. offset >= zeroTailStart
      BY <1>6, <3>2
    <3>4. anomalies' = anomalies /\ phase' = "done" /\ verdict' = "ok"
      BY <2>3, <3>3 DEF Resumes, Resync, End, AfterFailure
    <3>5. QED
      BY <1>10, <2>1, <3>2, <3>4
  <2>4. CASE Skips
    <3>1. PICK seen \in Reading(offset) :
            seen.kind = "free" /\ ~TooShort(seen) /\ ~Malformed(seen) /\ offset' = offset + seen.len
      BY <2>4 DEF Skips
    <3>2. /\ offset \in Intact /\ seen = layout.records[offset]
          /\ offset' \in DOMAIN layout.records \cup {layout.zeros}
          /\ \A u \in Intact : u < offset' <=> u < offset \/ u = offset
      BY <1>8, <2>1, <3>1
    <3>3. ~includeDeleted /\ UNCHANGED <<phase, anomalies, verdict>>
      BY <2>4 DEF Skips
    <3>4. \A u \in Intact : layout.records[u].kind = "active" => (u < offset' <=> u < offset)
      BY <3>1, <3>2
    <3>5. Behind("active")' = Behind("active")
      <4>1. {u \in Intact : layout.records[u].kind = "active" /\ (phase = "done" \/ u < offset')} =
              {u \in Intact : layout.records[u].kind = "active" /\ (phase = "done" \/ u < offset)}
        BY <3>4
      <4>2. Behind("active")' = {AsWritten(s) : s \in {u \in Intact : layout.records[u].kind = "active" /\ (phase = "done" \/ u < offset')}}
        BY <1>1, <3>3 DEF Behind, Intact, AsWritten
      <4>3. QED
        BY <4>1, <4>2 DEF Behind
    <3>6. Reported("active")' = Reported("active")
      BY <2>1, SameReported
    <3>7. QED
      BY <1>1, <1>4, <2>1, <3>2, <3>3, <3>5, <3>6 DEF WholeSoFar
  <2>5. CASE BlockEnds
    <3>1. offset >= end /\ UNCHANGED anomalies /\ phase' = "done" /\ verdict' = "ok"
      BY <2>5 DEF BlockEnds, End
    <3>2. QED
      BY <1>10, <2>1, <3>1
  <2>6. QED
    BY <1>12, <2>2, <2>3, <2>4, <2>5 DEF Passes
<1>13. ~Drops
  <2>1. SUFFICES ASSUME Drops PROVE FALSE
    OBVIOUS
  <2>2. PICK seen \in Reading(offset) : TooShort(seen) \/ Malformed(seen)
    BY <2>1 DEF Drops
  <2>3. offset = layout.zeros /\ offset < end /\ ~bestEffort
    BY <1>9, <2>1, <2>2 DEF Drops
  <2>4. QED
    BY <1>6, <2>3 DEF Healthy, Padded
<1>14. ASSUME Reported("active")' = Reported("active"), Reported("free")' = Reported("free"),
              UNCHANGED <<offset, anomalies, verdict>>, phase' = "done" <=> phase = "done"
       PROVE  WholeSoFar'
  <2>1. Behind("active")' = Behind("active") /\ Behind("free")' = Behind("free")
    BY <1>1, <1>14 DEF Behind, Intact, AsWritten
  <2>2. QED
    BY <1>1, <1>4, <1>14, <2>1 DEF WholeSoFar
<1>15. ASSUME NEW n \in Lengths(cursor), Carves(n) PROVE WholeSoFar'
  <2> DEFINE r == Record("carved", cursor, n)
  <2>1. r \in Found /\ r.kind = "carved"
    BY CarvedHere DEF Record
  <2>2. records' = Append(records, r) /\ UNCHANGED <<phase, offset, anomalies, verdict>>
    BY <1>15 DEF Carves
  <2> HIDE DEF r
  <2>3. ASSUME NEW kind \in {"active", "free"} PROVE Reported(kind)' = Reported(kind)
    <3>1. Reported(kind)' = Reported(kind) \cup (IF r.kind = kind THEN {[at |-> r.at, len |-> r.len]} ELSE {})
      BY <1>3, <2>1, <2>2, OneMoreReported
    <3>2. r.kind # kind
      BY <2>1
    <3>3. QED
      BY <3>1, <3>2
  <2>4. QED
    BY <1>14, <2>2, <2>3
<1>16. CASE Misses \/ CarveEnds \/ UNCHANGED blockVars
  <2>1. UNCHANGED <<records, offset, anomalies, verdict>> /\ (phase' = "done" <=> phase = "done")
    BY <1>16 DEF Misses, CarveEnds, blockVars
  <2>2. QED
    BY <1>14, <2>1, SameReported
<1>17. QED
  BY <1>11, <1>12, <1>13, <1>15, <1>16, Moves

\* An undamaged block gives each of its records and no anomaly.
THEOREM UndamagedIsWhole == BlockSpec => []IntactIsWhole
<1>1. Typed /\ WholeSoFar => IntactIsWhole
  <2> SUFFICES ASSUME Typed, WholeSoFar, phase = "done", damaged = {}, bestEffort \/ ~Padded PROVE IntactIsWhole
    BY DEF IntactIsWhole
  <2>1. Behind("active") = Written("active") /\ Behind("free") = Written("free")
    BY DEF Behind, Written, AsWritten
  <2>2. QED
    BY <2>1 DEF WholeSoFar, Healthy, IntactIsWhole
<1>2. QED
  BY <1>1, TypedInit, TypedStep, WholeSoFarInit, WholeSoFarStep, PTL DEF BlockSpec
===============================================================================
