----------------------------- MODULE Fragmentation -----------------------------
(***************************************************************************)
(* AnalyzeInodeFragmentation: what it reports of an inode, whose list of   *)
(* data extents Extents builds.  The report is a function of that list.    *)
(***************************************************************************)
EXTENDS Extents

\* The extents with blocks on the disk, by their places in the list.
Allocated == {i \in DOMAIN list : list[i].n # 0 /\ ~list[i].sparse}

SparseRuns == {i \in DOMAIN list : list[i].n # 0 /\ list[i].sparse}

\* The turns of the loop, each of which looks at an extent and the one before it.
Earlier(i) == {j \in Allocated : j < i}
Turns == {i \in Allocated : Earlier(i) # {}}
Prev(i) == list[Max(Earlier(i))]

\* Looks at the physical blocks alone.
ContinuesOnDisk(a, b) == b.p = a.p + a.n

Continues(a, b) == b.l = End(a) /\ b.p = a.p + a.n

PhysicalFragmentRuns ==
  IF Allocated = {} THEN 0
  ELSE 1 + Cardinality({i \in Turns : ~Continues(Prev(i), list[i])})

HasLogicalHoles ==
  \/ SparseRuns # {}
  \/ \E i \in Turns : list[i].l > End(Prev(i))

HasPhysicalFragmentation == PhysicalFragmentRuns > 1 \/ Cardinality(Allocated) > 1

-------------------------------------------------------------------------------
\* A block that begins a run: the block before it is not in front of it on the disk.
BeginsRun(b) ==
  /\ Mapped(b) # <<>>
  /\ b > 0 /\ Mapped(b - 1) # <<>> => Mapped(b)[1] # Mapped(b - 1)[1] + 1

\* The blocks of the file, and those that records put behind its end.
Extension == (UNION {0 .. End(extents[i]) - 1 : i \in {j \in DOMAIN extents : extents[j].n # 0}})
               \cup 0 .. ForkBlocks - 1

\* No gap in the file is as long as a count of blocks goes: fillSparseExtents does
\* not fill the others whole (GapsFilled).
NarrowGaps ==
  \A b \in Extension : b + CountModulus - 1 \in Extension =>
    \E c \in b .. b + CountModulus - 1 : Holders(c) # {}

\* The report describes the fork as it is on the disk, in whatever order, pieces and
\* overlaps its records are, and however the list was clipped and filled: as many runs
\* as the blocks of the fork lie in on the disk, and a hole in a file if and only if
\* one of its blocks reads as zeros.  A file without a single record is left out.
LayoutDescribed ==
  pc = "idle" /\ IsOpen /\ NoneAtZero =>
    /\ PhysicalFragmentRuns = Cardinality({b \in Extension : BeginsRun(b)})
    /\ addSparse /\ NarrowGaps /\ ~(fork.type = "extents" /\ Count = 0) =>
         (HasLogicalHoles <=> \E b \in Extension : Mapped(b) = <<>>)

\* A file that is a single hole, as it is after it was extended by a truncation, has a hole.
EmptyForkIsAHole == pc = "idle" /\ IsOpen /\ addSparse /\ size > 0 /\ OnDisk = <<>> => HasLogicalHoles

\* A file whose blocks lie in one run is not fragmented.
OneRunIsWhole == pc = "idle" /\ PhysicalFragmentRuns = 1 => ~HasPhysicalFragmentation
===============================================================================
