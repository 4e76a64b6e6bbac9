----------------------------- MODULE DirectoryBlock -----------------------------
(***************************************************************************)
(* parseDirectoryBlockRecords: the framing of one directory block, its     *)
(* resynchronisation after damage, and the carving of deleted entries from *)
(* its free runs (carveDeletedDirectoryEntries).  Offsets are counted in   *)
(* units of two bytes from the end of the header.  What is read at the     *)
(* start of an undamaged record is that record; anywhere else before the   *)
(* zero padding it is noise: nothing like a record, or a "phantom" that    *)
(* looks like one.                                                         *)
(***************************************************************************)
EXTENDS Integers, SequencesExt

CONSTANTS
  Layouts,         \* what was written: records [zeros, records: start -> record]
  Ends,            \* entriesEnd
  PhantomEntries,  \* lengths of the entries that noise can look like
  PhantomRuns,     \* and lengths of the free runs, impossible ones included
  Align,           \* dirDataAlign
  TagSize,         \* dirUnusedHeaderSize
  Overhead,        \* dirEntryOverhead
  AnomalyBudget    \* maxAnomaliesPerDirectoryBlock

ASSUME UnitAssumption ==
  /\ Align \in Nat \ {0} /\ TagSize \in Nat \ {0} /\ Overhead \in Nat \ {0}
  /\ AnomalyBudget \in Nat \ {0}
  /\ TagSize <= Align /\ TagSize <= Overhead /\ Overhead <= 2 * Align
  /\ PhantomEntries \subseteq Nat \ {0} /\ PhantomRuns \subseteq Nat /\ Ends \subseteq Nat

Aligned(n) == n \in Nat /\ n % Align = 0

\* Records as they are written: aligned, end to end, and each long enough for its header.
Laid(l, s) ==
  /\ Aligned(s) /\ Aligned(l.records[s].len) /\ s + l.records[s].len <= l.zeros
  /\ \/ l.records[s].kind = "active" /\ l.records[s].len >= Overhead
     \/ l.records[s].kind = "free" /\ l.records[s].len >= TagSize
  /\ \A t \in DOMAIN l.records : s < t => s + l.records[s].len <= t

\* The deleted entries of a free run: behind its header, apart, and of the size of entries.
Within(m, s, len) ==
  Aligned(m.at) /\ Aligned(m.len) /\ Overhead <= m.len /\ s + TagSize <= m.at /\ m.at + m.len <= s + len

ASSUME LayoutAssumption ==
  \A l \in Layouts :
    /\ l.zeros \in Nat /\ \A s \in DOMAIN l.records : Laid(l, s)
    /\ \A k \in 0 .. l.zeros - 1 : \E s \in DOMAIN l.records : s <= k /\ k < s + l.records[s].len
    /\ \A s \in DOMAIN l.records : l.records[s].kind = "free" =>
         \A m \in l.records[s].remnants :
           /\ Within(m, s, l.records[s].len)
           /\ \A n \in l.records[s].remnants : m.at < n.at => m.at + m.len <= n.at
           /\ \A n \in l.records[s].remnants : m.at = n.at => m.len = n.len

VARIABLES
  layout, damaged,    \* the records as they were, and the starts of those overwritten since
  zeroTailStart,      \* all bytes from here on are zero
  end, bestEffort, includeDeleted,
  phase, offset,
  cursor, slotEnd,    \* of the carving
  records, anomalies,
  verdict

input == <<layout, damaged, zeroTailStart, end, bestEffort, includeDeleted>>
blockVars == <<input, phase, offset, cursor, slotEnd, records, anomalies, verdict>>

Intact == DOMAIN layout.records \ damaged

\* What is overwritten with zeros at the end of the records looks like padding.
PaddingStarts ==
  LET tail == {at \in DOMAIN layout.records : at > Max(Intact \cup {-1})}
  IN  {layout.zeros} \cup tail

BlockInit ==
  /\ layout \in Layouts /\ damaged \in SUBSET DOMAIN layout.records
  /\ zeroTailStart \in PaddingStarts
  /\ end \in Ends /\ end >= layout.zeros
  /\ bestEffort \in BOOLEAN /\ includeDeleted \in BOOLEAN
  /\ phase = "frame" /\ offset = 0 /\ cursor = 0 /\ slotEnd = 0
  /\ records = <<>> /\ anomalies = <<>> /\ verdict = "none"

NoRecord == [kind |-> "none", len |-> 0]
Phantoms ==
  {[kind |-> "active", len |-> n] : n \in PhantomEntries}
    \cup {[kind |-> "free", len |-> n] : n \in PhantomRuns}

\* What can be read at an offset: NoRecord has no name, or inode zero.
Reading(at) ==
  IF at >= zeroTailStart THEN {NoRecord}
  ELSE IF at \in Intact THEN {layout.records[at]}
  ELSE {NoRecord} \cup Phantoms

\* The offset itself, if it is aligned.
NextAlignedHere(at) == ((at + Align - 1) \div Align) * Align

nextAlignedOffset(at) == at + Align - (at % Align)

Record(kind, at, len) == [kind |-> kind, at |-> at, len |-> len]

End(value) == phase' = "done" /\ verdict' = value

-------------------------------------------------------------------------------
(* recordFailure *)

Noted(code) ==
  IF Len(anomalies) >= AnomalyBudget THEN anomalies
  ELSE IF Len(anomalies) + 1 = AnomalyBudget THEN anomalies \o <<code, "limit">>
  ELSE Append(anomalies, code)

\* Nothing is said of what does not look like a record.
AfterFailureQuiet(code) ==
  IF code = "identity" \/ offset >= zeroTailStart THEN anomalies ELSE Noted(code)

\* Zero padding is no damage: it ends the block quietly.
AfterFailure(code) == IF offset >= zeroTailStart THEN anomalies ELSE Noted(code)

\* In strict mode a failure drops all that the block gave.
Abort == End("error") /\ records' = <<>> /\ UNCHANGED <<offset, anomalies>>

\* A resynchronisation that passes over an aligned offset.
ResumeTooFar == nextAlignedOffset(offset) + Align

Resume == nextAlignedOffset(offset)

Resync(code) ==
  /\ anomalies' = AfterFailure(code)
  /\ IF offset >= zeroTailStart THEN End("ok") /\ UNCHANGED offset
     ELSE offset' = Resume /\ UNCHANGED <<phase, verdict>>
  /\ UNCHANGED records

Stop(code) == anomalies' = AfterFailure(code) /\ End("ok") /\ UNCHANGED <<offset, records>>

-------------------------------------------------------------------------------
(* parseDirectoryBlockRecords *)
Room == end - offset
TooShort(seen) == Room < TagSize \/ (seen.kind # "free" /\ Room < Overhead)

\* The lengths of a free run are checked against the tag, and both kinds against the end.
Malformed(seen) ==
  \/ seen.kind = "none"
  \/ seen.kind = "free" /\ seen.len < TagSize
  \/ seen.len > Room

Framing == phase = "frame" /\ offset < end

Truncated ==
  /\ Framing
  /\ \E seen \in Reading(offset) : TooShort(seen) /\ (IF bestEffort THEN Stop("truncated") ELSE Abort)
  /\ UNCHANGED <<input, cursor, slotEnd>>

FramingLost ==
  /\ Framing
  /\ \E seen \in Reading(offset) :
       /\ ~TooShort(seen) /\ Malformed(seen)
       /\ IF bestEffort THEN Resync(IF seen.kind = "none" THEN "identity" ELSE "length") ELSE Abort
  /\ UNCHANGED <<input, cursor, slotEnd>>

ActiveEntry ==
  /\ Framing
  /\ \E seen \in Reading(offset) :
       /\ seen.kind = "active" /\ ~TooShort(seen) /\ ~Malformed(seen)
       /\ records' = Append(records, Record("active", offset, seen.len))
       /\ offset' = offset + seen.len
  /\ UNCHANGED <<input, phase, cursor, slotEnd, anomalies, verdict>>

FreeRun ==
  /\ Framing
  /\ \E seen \in Reading(offset) :
       /\ seen.kind = "free" /\ ~TooShort(seen) /\ ~Malformed(seen)
       /\ offset' = offset + seen.len
       /\ IF includeDeleted
          THEN /\ records' = Append(records, Record("free", offset, seen.len))
               /\ phase' = "carve" /\ slotEnd' = offset + seen.len
               /\ cursor' = nextAlignedOffset(offset + TagSize - 1)
          ELSE UNCHANGED <<phase, cursor, slotEnd, records>>
  /\ UNCHANGED <<input, anomalies, verdict>>

BlockEnds ==
  /\ phase = "frame" /\ offset >= end
  /\ End("ok")
  /\ UNCHANGED <<input, offset, cursor, slotEnd, records, anomalies>>

-------------------------------------------------------------------------------
(* carveDeletedDirectoryEntries, at the aligned offsets: no other is reported *)

\* The deleted entries that the intact free runs still hold.
Remnants ==
  UNION {{[at |-> m.at, len |-> m.len] : m \in layout.records[s].remnants} :
           s \in {t \in Intact : layout.records[t].kind = "free"}}

Lengths(at) ==
  IF \E m \in Remnants : m.at = at THEN {m.len : m \in {n \in Remnants : n.at = at}}
  ELSE {0} \cup PhantomEntries

\* An entry that may run out of its free run.
FitsBlock(len) == cursor + len <= end

Fits(len) == cursor + len <= slotEnd

\* The entry after one that is carved is passed over.
PastOneMore(len) == nextAlignedOffset(cursor + len)

Past(len) == cursor + len

Carve ==
  /\ phase = "carve" /\ cursor + Overhead <= slotEnd
  /\ \E len \in Lengths(cursor) :
       IF len > 0 /\ Fits(len)
       THEN records' = Append(records, Record("carved", cursor, len)) /\ cursor' = Past(len)
       ELSE cursor' = nextAlignedOffset(cursor) /\ UNCHANGED records
  /\ UNCHANGED <<input, phase, offset, slotEnd, anomalies, verdict>>

CarveEnds ==
  /\ phase = "carve" /\ cursor + Overhead > slotEnd
  /\ phase' = "frame"
  /\ UNCHANGED <<input, offset, cursor, slotEnd, records, anomalies, verdict>>

Step == Truncated \/ FramingLost \/ ActiveEntry \/ FreeRun \/ BlockEnds \/ Carve \/ CarveEnds

BlockNext == Step \/ (phase = "done" /\ UNCHANGED blockVars)

BlockSpec == BlockInit /\ [][BlockNext]_blockVars

\* One goroutine's call.
BlockFairSpec == BlockSpec /\ WF_blockVars(Step)

-------------------------------------------------------------------------------
BlockTypeOK ==
  /\ phase \in {"frame", "carve", "done"} /\ offset \in 0 .. end + Align
  /\ cursor \in 0 .. end + Align /\ slotEnd \in 0 .. end
  /\ records \in Seq([kind : {"active", "free", "carved"}, at : 0 .. end, len : Nat])
  /\ anomalies \in Seq({"truncated", "identity", "length", "limit"})
  /\ verdict \in {"none", "ok", "error"}

Reported(kind) == {[at |-> r.at, len |-> r.len] : r \in {s \in ToSet(records) : s.kind = kind}}
Written(kind) ==
  {[at |-> s, len |-> layout.records[s].len] : s \in {t \in Intact : layout.records[t].kind = kind}}
Span(r) == r.at .. r.at + r.len - 1
Framed == Reported("active") \cup Reported("free")

Padded == zeroTailStart < end

\* An undamaged block gives each of its records and no anomaly, padded or not in a
\* best-effort scan, whatever its deleted entries look like.
IntactIsWhole ==
  phase = "done" /\ damaged = {} /\ (bestEffort \/ ~Padded) =>
    /\ verdict = "ok" /\ anomalies = <<>>
    /\ Reported("active") = Written("active")
    /\ includeDeleted => Reported("free") = Written("free")

\* A strict scan reports a block only if its records cover all of it, end to end.
StrictTiles ==
  phase = "done" /\ ~bestEffort =>
    IF verdict = "error" THEN records = <<>> /\ anomalies = <<>>
    ELSE includeDeleted => UNION {Span(r) : r \in Framed} = 0 .. end - 1

\* A best-effort scan never passes over bytes without a word: what is in no record,
\* and no padding, goes with an anomaly.
GapsAreNoted ==
  phase = "done" /\ bestEffort /\ includeDeleted /\ anomalies = <<>> =>
    0 .. zeroTailStart - 1 \subseteq UNION {Span(r) : r \in Framed}

\* Resynchronisation itself loses nothing: unless a phantom was taken for a record,
\* every undamaged record is reported, before, between and after the damaged.
DetectedDamageIsLocal ==
  phase = "done" /\ bestEffort /\ includeDeleted
    /\ Framed \subseteq Written("active") \cup Written("free") =>
    Framed = Written("active") \cup Written("free")

\* The budget of anomalies is announced once when it is used up, and never exceeded.
BudgetAnnouncedOnce ==
  /\ Len(anomalies) <= AnomalyBudget + 1
  /\ \A i \in DOMAIN anomalies : anomalies[i] = "limit" <=> i = AnomalyBudget + 1
  /\ Len(anomalies) # AnomalyBudget

\* No bytes are reported as two entries: the entries and free runs do not overlap,
\* and a carved entry lies within a free run, behind its header, and apart from
\* the other carved.
EntriesApart ==
  /\ \A i, j \in DOMAIN records :
       i # j /\ (records[i].kind = "carved" <=> records[j].kind = "carved") =>
         Span(records[i]) \cap Span(records[j]) = {}
  /\ \A c \in Reported("carved") : \E f \in Reported("free") :
       f.at + TagSize <= c.at /\ c.at + c.len <= f.at + f.len

\* Unless noise was taken for a deleted entry, every one that a reported free run
\* still holds is carved.
RemnantsAreCarved ==
  phase = "done" /\ includeDeleted /\ Reported("carved") \subseteq Remnants =>
    \A m \in Remnants :
      (\E f \in Reported("free") \cap Written("free") : f.at < m.at /\ m.at + m.len <= f.at + f.len)
        => m \in Reported("carved")

\* The parse returns: each turn of either loop moves on.
ParseReturns == <>(phase = "done")

-------------------------------------------------------------------------------
(* What a comment and the README say, and the code does not do. *)

\* Zero padding "is the normal tail of a partially used block, not damage".
PaddingIsNormal == phase = "done" /\ damaged = {} => verdict = "ok"

\* "BestEffort additionally resynchronises within a damaged block, recovering entries
\* either side of the damage."
BothSidesRecovered ==
  phase = "done" /\ bestEffort => Written("active") \subseteq Reported("active")
===============================================================================
