--------------------------- MODULE InodeLookupProofs ---------------------------
(***************************************************************************)
(* What InodeLookup promises of the file that was opened, of the forks and *)
(* times of an inode and of the place it is read from, for every image.    *)
(***************************************************************************)
EXTENDS InodeLookup, Xattr, SequenceLemmas, FiniteSetTheorems, SequenceTheorems, TLAPS

-------------------------------------------------------------------------------
(* Times *)

LEMMA LegacyTimeMeant ==
  ASSUME NEW high \in 0 .. Word - 1, NEW low \in 0 .. Word - 1, Signed(high) > 0 \/ low = 0
  PROVE  /\ LegacyNanos(high, low) = LegacyTime(high, low)
         /\ LegacyTime(high, low) <= MaxInt
<1> DEFINE s == Signed(high)
           half == Word \div 2
<1>1. half \in Int /\ s \in Int /\ s <= half /\ high \in Nat /\ low \in Nat
  BY TimeAssumption DEF Signed
<1>2. s * Second \in Int /\ s * Second <= half * Second /\ half * Second \in Int
  BY <1>1, TimeAssumption, ProductsGrow
<1>3. LegacyTime(high, low) <= MaxInt
  BY <1>1, <1>2, TimeAssumption DEF LegacyTime
<1>4. CASE s > 0
  <2>1. 1 * Second <= s * Second
    BY <1>1, <1>4, TimeAssumption, ProductsGrow
  <2>2. QED
    BY <1>2, <1>3, <2>1, TimeAssumption DEF LegacyNanos, LegacyTime
<1>5. CASE low = 0
  BY <1>2, <1>3, <1>5 DEF LegacyNanos, LegacyTime
<1>6. QED
  BY <1>4, <1>5

LEMMA WrappedInRange ==
  ASSUME NEW n \in Int, -MaxInt - 1 <= n, n <= MaxInt
  PROVE  Wrapped(n) = n
<1> DEFINE d == 2 * (MaxInt + 1)
           r == n + MaxInt + 1
<1>1. d \in Nat \ {0} /\ r \in 0 .. d - 1 /\ 0 * d + r = r
  BY TimeAssumption
<1>2. r % d = r
  BY <1>1, DivModUnique
<1>3. QED
  BY <1>2, TimeAssumption DEF Wrapped

\* Both words, scaled: seconds and nanoseconds since the epoch add up to the time.
LEMMA SecondsAddUp ==
  ASSUME NEW d \in Nat \ {0}, NEW raw \in Nat, NEW shift \in Nat, NEW top \in Nat, shift * d <= top
  PROVE  LET exact == raw - shift * d
             seconds == (raw \div d) - shift
         IN  /\ exact \in Int /\ exact = seconds * d + (raw % d)
             /\ -top <= exact
             /\ seconds > top \div d => exact > top
             /\ ~(seconds > top \div d) => exact < ((top \div d) + 1) * d
             /\ ~(seconds < -((top + 1) \div d))
<1> DEFINE q == raw \div d
           n == raw % d
           t == top \div d
           u == top % d
           v == (top + 1) \div d
           w == (top + 1) % d
<1>1. q \in Int /\ n \in 0 .. d - 1 /\ raw = q * d + n
  BY DivMod
<1>2. t \in Int /\ u \in 0 .. d - 1 /\ top = t * d + u
  BY DivMod
<1>3. v \in Int /\ w \in 0 .. d - 1 /\ top + 1 = v * d + w
  <2>1. top + 1 \in Int
    OBVIOUS
  <2>2. QED
    BY <2>1, DivMod
<1> HIDE DEF q, n, t, u, v, w
<1>4. (q - shift) * d = q * d - shift * d /\ shift * d \in Int /\ q * d \in Int
  BY <1>1
<1>5. q >= 0
  <2>1. q <= -1 => q * d <= (-1) * d
    BY <1>1, ProductsGrow
  <2>2. QED
    BY <1>1, <1>4, <2>1
<1>6. shift <= v
  <2>1. v + 1 <= shift => (v + 1) * d <= shift * d
    BY <1>3, ProductsGrow
  <2>2. (v + 1) * d = v * d + d /\ v * d \in Int
    BY <1>3
  <2>3. QED
    BY <1>3, <1>4, <2>1, <2>2
<1>7. (t + 1) * d = t * d + d /\ t * d \in Int
  BY <1>2
<1>8. q - shift > t => (t + 1) * d <= (q - shift) * d
  BY <1>1, <1>2, ProductsGrow
<1>9. ~(q - shift > t) => (q - shift) * d <= t * d
  BY <1>1, <1>2, ProductsGrow
<1>10. /\ raw - shift * d \in Int /\ raw - shift * d = (q - shift) * d + n
       /\ -top <= raw - shift * d
  BY <1>1, <1>4
<1>11. q - shift > t => raw - shift * d > top
  BY <1>1, <1>2, <1>4, <1>7, <1>8
<1>12. ~(q - shift > t) => raw - shift * d < (t + 1) * d
  BY <1>1, <1>2, <1>4, <1>7, <1>9
<1>13. ~(q - shift < -v)
  BY <1>1, <1>3, <1>5, <1>6
<1>14. QED
  BY <1>10, <1>11, <1>12, <1>13 DEF q, n, t, v

LEMMA BigTimeMeant ==
  ASSUME NEW high \in 0 .. Word - 1, NEW low \in 0 .. Word - 1,
         BigTimeTime(high, low) > MaxInt => BigTimeTime(high, low) >= (MaxSeconds + 1) * Second
  PROVE  BigTimeNanos(high, low) =
           IF BigTimeTime(high, low) > MaxInt THEN MaxInt ELSE BigTimeTime(high, low)
<1> DEFINE raw == high * Word + low
           exact == BigTimeTime(high, low)
           seconds == (raw \div Second) - Offset
           nanos == raw % Second
<1>1. raw \in Nat /\ Offset \in Nat /\ Offset * Second <= MaxInt
  <2>1. Offset \in Nat /\ Offset * Second \in Int
    BY TimeAssumption DEF Offset, BigTimeOffset
  <2>2. QED
    BY <2>1, TimeAssumption DEF Offset, BigTimeOffset
<1>2. exact = raw - Offset * Second
  <2>1. high * Word \in Int /\ BigTimeOffset * Second \in Int
    BY TimeAssumption DEF BigTimeOffset
  <2>2. QED
    BY <2>1 DEF BigTimeTime, Offset
<1>3. BigTimeNanos(high, low) =
        IF seconds > MaxSeconds THEN MaxInt
        ELSE IF seconds < MinSeconds THEN -MaxInt - 1
        ELSE Wrapped(seconds * Second + nanos)
  BY DEF BigTimeNanos
<1> HIDE DEF raw, exact
<1>4. /\ exact \in Int /\ exact = seconds * Second + nanos
      /\ -MaxInt <= exact
      /\ seconds > MaxSeconds => exact > MaxInt
      /\ ~(seconds > MaxSeconds) => exact < (MaxSeconds + 1) * Second
      /\ ~(seconds < MinSeconds)
  <2>1. Second \in Nat \ {0} /\ MaxInt \in Nat
    BY TimeAssumption
  <2>2. /\ raw - Offset * Second \in Int
        /\ raw - Offset * Second = ((raw \div Second) - Offset) * Second + (raw % Second)
        /\ -MaxInt <= raw - Offset * Second
        /\ (raw \div Second) - Offset > MaxInt \div Second => raw - Offset * Second > MaxInt
        /\ ~((raw \div Second) - Offset > MaxInt \div Second)
             => raw - Offset * Second < ((MaxInt \div Second) + 1) * Second
        /\ ~((raw \div Second) - Offset < -((MaxInt + 1) \div Second))
    BY <1>1, <2>1, SecondsAddUp
  <2>3. QED
    BY <1>2, <2>2 DEF MaxSeconds, MinSeconds
<1> HIDE DEF seconds, nanos
<1>5. (MaxSeconds + 1) * Second \in Int
  <2>1. MaxSeconds \in Int
    BY DivMod, TimeAssumption DEF MaxSeconds
  <2>2. QED
    BY <2>1, TimeAssumption
<1>6. CASE seconds > MaxSeconds
  BY <1>3, <1>4, <1>6 DEF exact
<1>7. CASE ~(seconds > MaxSeconds)
  <2>1. exact <= MaxInt
    BY <1>4, <1>5, <1>7, TimeAssumption DEF exact
  <2>2. Wrapped(exact) = exact
    BY <1>4, <2>1, WrappedInRange, TimeAssumption
  <2>3. QED
    BY <1>3, <1>4, <1>7, <2>1, <2>2, TimeAssumption DEF exact
<1>8. QED
  BY <1>6, <1>7

\* readInodeTimestamp decodes a time that is not at the edges as what it stands for.
LEMMA TimeMeant ==
  ASSUME NEW raw, NEW feature \in BOOLEAN, raw.time \in (0 .. Word - 1) \X (0 .. Word - 1),
         Exact(raw, feature)
  PROVE  Time(raw, feature) = Meant(raw, feature)
<1>1. raw.time[1] \in 0 .. Word - 1 /\ raw.time[2] \in 0 .. Word - 1
  OBVIOUS
<1>2. CASE BigTime(raw, feature)
  BY <1>1, <1>2, BigTimeMeant DEF Exact, Time, Meant
<1>3. CASE ~BigTime(raw, feature)
  <2>1. Signed(raw.time[1]) > 0 \/ raw.time[2] = 0
    BY <1>3 DEF Exact
  <2>2. LegacyNanos(raw.time[1], raw.time[2]) = LegacyTime(raw.time[1], raw.time[2])
    BY <1>1, <2>1, LegacyTimeMeant
  <2>3. LegacyTime(raw.time[1], raw.time[2]) <= MaxInt
    BY <1>1, <2>1, LegacyTimeMeant
  <2>4. LegacyTime(raw.time[1], raw.time[2]) \in Int
    BY <1>1, TimeAssumption DEF LegacyTime, Signed
  <2>5. QED
    BY <1>3, <2>2, <2>3, <2>4, TimeAssumption DEF Time, Meant
<1>4. QED
  BY <1>2, <1>3

-------------------------------------------------------------------------------
(* The place of an inode *)

\* The offset of inode n, read as a group and an inode of it, and as a block and a
\* place in that block.
ByGroup(n, stride, perBlock, agSize, inodeSize) ==
  (n \div (stride * perBlock)) * agSize * (perBlock * inodeSize)
    + (n % (stride * perBlock)) * inodeSize
ByBlock(n, stride, perBlock, agSize, inodeSize) ==
  (((n \div perBlock) \div stride) * agSize + ((n \div perBlock) % stride)) * (perBlock * inodeSize)
    + (n % perBlock) * inodeSize

LEMMA InodeInBlock ==
  ASSUME NEW n \in Nat, NEW stride \in Nat \ {0}, NEW perBlock \in Nat \ {0},
         NEW agSize \in Nat, NEW inodeSize \in Nat
  PROVE  ByGroup(n, stride, perBlock, agSize, inodeSize) = ByBlock(n, stride, perBlock, agSize, inodeSize)
<1> DEFINE q == n \div perBlock
           r == n % perBlock
           a == q \div stride
           b == q % stride
           d == stride * perBlock
           s == b * perBlock + r
           blockSize == perBlock * inodeSize
<1>1. q \in Int /\ r \in 0 .. perBlock - 1 /\ n = q * perBlock + r
  BY DivMod
<1>2. a \in Int /\ b \in 0 .. stride - 1 /\ q = a * stride + b
  BY <1>1, DivMod
<1>3. d \in Nat \ {0} /\ blockSize \in Nat
  OBVIOUS
<1> HIDE DEF q, r, a, b
<1>4. s \in 0 .. d - 1
  <2>1. 0 * perBlock <= b * perBlock /\ (b + 1) * perBlock <= stride * perBlock
    BY <1>2, ProductsGrow
  <2>2. (b + 1) * perBlock = b * perBlock + perBlock /\ b * perBlock \in Int
    BY <1>2
  <2>3. QED
    BY <1>1, <1>3, <2>1, <2>2
<1>5. n = a * d + s
  <2>1. q * perBlock = a * d + b * perBlock
    BY <1>2
  <2>2. a * d \in Int /\ b * perBlock \in Int
    BY <1>2, <1>3
  <2>3. QED
    BY <1>1, <2>1, <2>2
<1>6. n \div d = a /\ n % d = s
  BY <1>2, <1>3, <1>4, <1>5, DivModUnique
<1>7. s * inodeSize = b * blockSize + r * inodeSize
  BY <1>1, <1>2
<1>8. (a * agSize + b) * blockSize = a * agSize * blockSize + b * blockSize
  BY <1>2, <1>3
<1>9. a * agSize * blockSize \in Int /\ b * blockSize \in Int /\ r * inodeSize \in Int
  BY <1>1, <1>2, <1>3
<1>10. a * agSize * blockSize + s * inodeSize = (a * agSize + b) * blockSize + r * inodeSize
  BY <1>7, <1>8, <1>9
<1>11. QED
  BY <1>6, <1>10 DEF ByGroup, ByBlock, q, r, a, b

\* The bytes of an inode of a group end where the next group begins, or before.
LEMMA InodeInGroup ==
  ASSUME NEW grp \in Nat, NEW rel \in Nat, NEW agSize \in Nat, NEW perBlock \in Nat, NEW inodeSize \in Nat,
         rel < agSize * perBlock
  PROVE  grp * agSize * (perBlock * inodeSize) + rel * inodeSize + inodeSize
           <= (grp + 1) * agSize * (perBlock * inodeSize)
<1> DEFINE inodes == agSize * perBlock
           before == grp * agSize * (perBlock * inodeSize)
<1>1. inodes \in Nat /\ before \in Nat
  OBVIOUS
<1>2. (rel + 1) * inodeSize <= inodes * inodeSize
  <2> HIDE DEF inodes
  <2>1. rel + 1 <= inodes
    BY <1>1 DEF inodes
  <2>2. QED
    BY <1>1, <2>1, ProductsGrow
<1>3. (grp + 1) * agSize * (perBlock * inodeSize) = before + inodes * inodeSize
  OBVIOUS
<1>4. (rel + 1) * inodeSize = rel * inodeSize + inodeSize /\ rel * inodeSize \in Nat /\ inodes * inodeSize \in Nat
  OBVIOUS
<1> HIDE DEF inodes, before
<1>5. before + rel * inodeSize + inodeSize <= before + inodes * inodeSize
  BY <1>1, <1>2, <1>4
<1>6. QED
  BY <1>3, <1>5 DEF before

-------------------------------------------------------------------------------
(* The invariant *)

\* The geometry is that of the first superblock, which was accepted.
GeometryInv ==
  /\ image \in Images /\ number \in Numbers
  /\ phase \in {"superblock", "groups", "opened", "failed"}
  /\ phase \in {"groups", "opened"} =>
       Parses(Read(1).superblock) /\ geometry = Derived(Read(1).superblock)

\* The file that was opened for the volume is closed with the failure and not before.
FileInv ==
  /\ opener \in {"Open", "OpenVolumeFromPath"}
  /\ file = IF opener = "Open" THEN "caller's" ELSE IF phase = "failed" THEN "closed" ELSE "open"

\* An inode was accepted, and is read where its number says.
InodeInv ==
  /\ pc # "check" => phase = "opened"
  /\ answer # "none" => pc = "done"
  /\ answer = "opened" =>
       /\ inode.raw \in image.inodes /\ inode.raw.readable
       /\ Acceptable(inode.raw, geometry.inodeSize)
       /\ inode.offset = Place
       /\ inode.parsed = Parsed(inode.raw, geometry.inodeSize, inode.raw.bigTime)

IInv == GeometryInv /\ FileInv /\ InodeInv

LEMMA InitInv == Init => IInv
  BY DEF Init, VolumeInit, IInv, GeometryInv, FileInv, InodeInv

LEMMA StepInv == IInv /\ [Next]_vars => IInv'
<1> SUFFICES ASSUME IInv, [Next]_vars PROVE IInv'
  OBVIOUS
<1> USE DEF IInv, GeometryInv
<1>1. CASE OpenStep /\ UNCHANGED <<number, caller, pc, block, depth, inode, answer>>
  <2>1. phase \in {"superblock", "groups"} /\ pc = "check" /\ answer = "none"
    BY <1>1 DEF OpenStep, ReadSuperblock, ReadGroup, Opened, InodeInv
  <2>2. InodeInv'
    BY <1>1, <2>1 DEF InodeInv
  <2>3. CASE ReadSuperblock
    BY <1>1, <2>2, <2>3 DEF ReadSuperblock, OpenFails, FileInv, Closed, Read
  <2>4. CASE ReadGroup
    BY <1>1, <2>2, <2>4 DEF ReadGroup, OpenFails, FileInv, Closed, Read
  <2>5. CASE Opened
    BY <1>1, <2>2, <2>5 DEF Opened, FileInv, Read
  <2>6. QED
    BY <1>1, <2>3, <2>4, <2>5 DEF OpenStep
<1>2. CASE LookupStep
  <2>1. UNCHANGED <<image, opener, phase, geometry, agInode, file, number>>
    BY <1>2 DEF LookupStep, Check, SearchLeaf, Descend, WalkFails, ReadInode, Return, volume
  <2>2. GeometryInv' /\ FileInv'
    BY <2>1 DEF FileInv, Read
  <2>3. phase = "opened"
    BY <1>2 DEF LookupStep, Check, SearchLeaf, Descend, WalkFails, ReadInode, InodeInv
  <2>4. answer' = "opened" => ReadInode
    BY <1>2 DEF LookupStep, Check, SearchLeaf, Descend, WalkFails, Return, InodeInv, Verdict
  <2>5. answer' # "none" => pc' = "done"
    BY <1>2 DEF LookupStep, Check, SearchLeaf, Descend, WalkFails, ReadInode, Return, InodeInv
  <2>6. InodeInv'
    BY <2>1, <2>3, <2>4, <2>5 DEF InodeInv, ReadInode, Return, Place, volume
  <2>7. QED
    BY <2>2, <2>6
<1>3. CASE UNCHANGED vars
  BY <1>3 DEF vars, volume, FileInv, InodeInv, Place, Read
<1>4. QED
  BY <1>1, <1>2, <1>3 DEF Next, Step, Opening

LEMMA Invariance == Spec => []IInv
  BY InitInv, StepInv, PTL DEF Spec

-------------------------------------------------------------------------------
(* What follows from it *)

\* Whatever is wrong, and at whichever group: the file that OpenVolumeFromPath opened is
\* closed if and only if the opening fails, and a reader of the caller's never.
THEOREM FileSafety == Spec => []FileFollowsVolume
<1>1. IInv => FileFollowsVolume
  BY DEF IInv, FileInv, FileFollowsVolume
<1>2. QED
  BY <1>1, Invariance, PTL

\* The geometry of an open volume.
LEMMA OpenGeometry ==
  ASSUME IInv, phase = "opened"
  PROVE  LET sb == Read(1).superblock
         IN  /\ geometry = Derived(sb) /\ Accepted(sb)
             /\ {sb.blockSize, sb.inodeSize, sb.groupSize, sb.groupBits, sb.inodeBits,
                 sb.inodesPerBlock, sb.blocks, sb.count} \subseteq Nat
<1>1. image \in Images /\ Parses(Read(1).superblock) /\ geometry = Derived(Read(1).superblock)
  BY DEF IInv, GeometryInv
<1>2. 1 \in DOMAIN image.groups /\ Read(1) = image.groups[1]
  BY <1>1 DEF Read, Parses
<1>3. QED
  BY <1>1, <1>2, SuperblockAssumption DEF Parses

\* The forks of an inode that parseInode accepts share no byte and fill what its header
\* leaves, wherever its attribute fork begins.
THEOREM ForkSafety == Spec => []ForksApart
<1>1. ASSUME IInv, answer = "opened"
      PROVE  /\ inode.parsed.dataSize >= 0 /\ inode.parsed.attributesSize >= 0
             /\ inode.parsed.header + inode.parsed.dataSize + inode.parsed.attributesSize = geometry.inodeSize
  <2>1. phase = "opened" /\ image \in Images
    BY <1>1 DEF IInv, InodeInv, GeometryInv
  <2>2. geometry.inodeSize \in Nat
    BY <1>1, <2>1, OpenGeometry DEF Derived
  <2>3. inode.raw.shift \in Nat
    BY <1>1, <2>1, RawAssumption DEF IInv, InodeInv
  <2>4. /\ AttributeOffset(inode.raw) \in Nat /\ HeaderSize(inode.raw.version) \in Nat
        /\ inode.raw.shift = 0 => AttributeOffset(inode.raw) = 0
    BY <2>3, SizesAssumption DEF AttributeOffset, HeaderSize
  <2>5. Acceptable(inode.raw, geometry.inodeSize)
    BY <1>1 DEF IInv, InodeInv
  <2>6. inode.parsed = Parsed(inode.raw, geometry.inodeSize, inode.raw.bigTime)
    BY <1>1 DEF IInv, InodeInv
  <2>7. QED
    BY <2>2, <2>3, <2>4, <2>5, <2>6 DEF Acceptable, AttributesFit, DataSize, Parsed
<1>2. IInv => ForksApart
  BY <1>1 DEF ForksApart
<1>3. QED
  BY <1>2, Invariance, PTL

\* readInodeTimestamp: a time is what its eight bytes stand for in either encoding, but
\* for the times at the edges.
THEOREM TimeTruth == Spec => []TimesMeant
<1>1. ASSUME IInv, answer = "opened", Exact(inode.raw, inode.raw.bigTime)
      PROVE  inode.parsed.time = Meant(inode.raw, inode.raw.bigTime)
  <2>1. /\ inode.raw \in image.inodes /\ inode.raw.readable /\ image \in Images
        /\ inode.parsed = Parsed(inode.raw, geometry.inodeSize, inode.raw.bigTime)
    BY <1>1 DEF IInv, InodeInv, GeometryInv
  <2>2. inode.raw.bigTime \in BOOLEAN /\ inode.raw.time \in (0 .. Word - 1) \X (0 .. Word - 1)
    BY <2>1, RawAssumption
  <2>3. inode.parsed.time = Time(inode.raw, inode.raw.bigTime)
    BY <2>1 DEF Parsed
  <2>4. QED
    BY <1>1, <2>2, <2>3, TimeMeant
<1>2. IInv => TimesMeant
  BY <1>1 DEF TimesMeant
<1>3. QED
  BY <1>2, Invariance, PTL

\* getOffset of an inode: the bytes it is read from are those of its place in the block
\* that its number names, and in its group, in every geometry that Open accepts and
\* whose inodes fill its blocks.
THEOREM PlaceTruth == Spec => []InodeInItsPlace
<1>1. ASSUME IInv, answer = "opened", Consistent(geometry)
      PROVE  LET place == number % geometry.inodesPerBlock
             IN  /\ inode.offset = BlockOffset(geometry, number \div geometry.inodesPerBlock)
                                     + place * geometry.inodeSize
                 /\ relative < geometry.agSize * geometry.inodesPerBlock =>
                      inode.offset + geometry.inodeSize <= GroupOffset(geometry, group + 1)
  <2> DEFINE sb == Read(1).superblock
             stride == geometry.blockStride
             perBlock == geometry.inodesPerBlock
             agSize == geometry.agSize
             inodeSize == geometry.inodeSize
  <2>1. /\ phase = "opened" /\ number \in Nat
        /\ inode.offset = InodeOffset(geometry, number)
    BY <1>1, InodeAssumption DEF IInv, InodeInv, GeometryInv, Place
  <2>2. /\ geometry = Derived(sb) /\ Accepted(sb)
        /\ {sb.blockSize, sb.inodeSize, sb.groupSize, sb.groupBits, sb.inodeBits,
            sb.inodesPerBlock, sb.blocks, sb.count} \subseteq Nat
    BY <1>1, <2>1, OpenGeometry
  <2>3. /\ sb.groupBits \in 0 .. Limits.addressBits /\ sb.inodeBits \in 0 .. Limits.addressBits
        /\ Limits.wordSize \in Nat /\ Limits.minBlockSize \in Nat
    BY <2>2, LimitsAssumption DEF Accepted
  <2>4. 2 ^ sb.groupBits \in Nat \ {0} /\ 2 ^ sb.inodeBits \in Nat \ {0}
    BY <2>3, WordAssumption
  <2>5. /\ stride = 2 ^ sb.groupBits /\ agSize = sb.groupSize /\ inodeSize = sb.inodeSize
        /\ perBlock = sb.inodesPerBlock /\ geometry.blockSize = sb.blockSize
        /\ geometry.inodeStride = 2 ^ sb.groupBits * 2 ^ sb.inodeBits
    BY <2>2 DEF Derived
  <2>6. perBlock * inodeSize = geometry.blockSize
    BY <1>1 DEF Consistent
  <2>7. perBlock # 0
    <3>1. geometry.blockSize > 0
      BY <2>2, <2>3, <2>5, LimitsAssumption DEF Accepted
    <3>2. inodeSize \in Nat
      BY <2>2, <2>5
    <3>3. perBlock = 0 => perBlock * inodeSize = 0
      BY <3>2
    <3>4. QED
      BY <2>6, <3>1, <3>3
  <2>8. perBlock = 2 ^ sb.inodeBits
    <3> DEFINE power == 2 ^ sb.inodeBits
    <3>1. perBlock = power % Limits.wordSize
      BY <2>2, <2>5 DEF Accepted
    <3>2. power < Limits.wordSize \/ power % Limits.wordSize = 0
      BY <2>3, WordAssumption
    <3>3. power \in 0 .. Limits.wordSize - 1 /\ Limits.wordSize \in Nat \ {0} /\ 0 * Limits.wordSize + power = power
      BY <2>3, <2>4, <2>7, <3>1, <3>2
    <3> HIDE DEF power
    <3>4. power % Limits.wordSize = power
      <4>1. PICK w \in Nat \ {0} : w = Limits.wordSize
        BY <3>3
      <4>2. power \in 0 .. w - 1
        BY <3>3, <4>1
      <4>3. (0 * w + power) % w = power
        BY <4>2, DivModUnique
      <4>4. 0 * w + power = power
        BY <4>2
      <4>5. QED
        BY <4>1, <4>3, <4>4
    <3>5. QED
      BY <3>1, <3>4 DEF power
  <2> HIDE DEF sb, stride, perBlock, agSize, inodeSize
  <2>9. /\ stride \in Nat \ {0} /\ perBlock \in Nat \ {0} /\ agSize \in Nat /\ inodeSize \in Nat
        /\ geometry.inodeStride = stride * perBlock
    BY <2>2, <2>4, <2>5, <2>8
  <2>10. inode.offset = BlockOffset(geometry, number \div perBlock) + (number % perBlock) * inodeSize
    <3>1. ByGroup(number, stride, perBlock, agSize, inodeSize) = ByBlock(number, stride, perBlock, agSize, inodeSize)
      BY <2>1, <2>9, InodeInBlock
    <3>2. QED
      BY <2>1, <2>6, <2>9, <3>1
         DEF ByGroup, ByBlock, InodeOffset, GroupOffset, InodeGroup, RelativeInode, BlockOffset, LinearBlock,
             stride, agSize, inodeSize
  <2>11. ASSUME relative < agSize * perBlock
         PROVE  inode.offset + inodeSize <= GroupOffset(geometry, group + 1)
    <3>1. stride * perBlock \in Nat \ {0}
      BY <2>9
    <3>2. number \div (stride * perBlock) \in Nat /\ number % (stride * perBlock) \in Nat
      BY <2>1, <3>1, NatDiv
    <3>3. group = number \div (stride * perBlock) /\ relative = number % (stride * perBlock)
      BY <2>9 DEF group, relative, InodeGroup, RelativeInode
    <3>4. group \in Nat /\ relative \in Nat
      BY <3>2, <3>3
    <3>5. group * agSize * (perBlock * inodeSize) + relative * inodeSize + inodeSize
            <= (group + 1) * agSize * (perBlock * inodeSize)
      BY <2>9, <2>11, <3>4, InodeInGroup
    <3>6. inode.offset = group * agSize * (perBlock * inodeSize) + relative * inodeSize
      BY <2>1, <2>6 DEF InodeOffset, GroupOffset, group, relative, agSize, inodeSize
    <3>7. GroupOffset(geometry, group + 1) = (group + 1) * agSize * (perBlock * inodeSize)
      BY <2>6 DEF GroupOffset, agSize
    <3>8. QED
      BY <3>5, <3>6, <3>7
  <2>12. QED
    BY <2>10, <2>11 DEF perBlock, agSize, inodeSize
<1>2. IInv => InodeInItsPlace
  BY <1>1 DEF InodeInItsPlace
<1>3. QED
  BY <1>2, Invariance, PTL

-------------------------------------------------------------------------------
(* The descent *)

RecordType == [start : Nat, free : Nat, unused : SUBSET Nat]
PairType == [key : Nat, child : DOMAIN tree]

\* The blocks are well-formed ones or bad, and a volume has the roots of its groups.
TreeInv ==
  /\ \A b \in DOMAIN tree :
       CASE tree[b].kind = "leaf"   -> tree[b].records \in Seq(RecordType)
         [] tree[b].kind = "branch" -> tree[b].pairs \in Seq(PairType)
         [] OTHER                   -> tree[b].kind = "bad"
  /\ agInode \in Seq(DOMAIN tree)

\* A lookup begins when the volume is open, and ends with its answer.
ControlInv ==
  /\ pc \in {"check", "walk", "read", "done"}
  /\ pc # "check" => phase = "opened"
  /\ pc # "done" => answer = "none"
  /\ pc \in {"walk", "read"} => Addressable

root == agInode[group + 1]

\* Of two records that cover an inode either may be met first.
Alone(r) ==
  /\ relative \in Holds(r)
  /\ \A other \in Records(root) \ {r} : relative \notin other.start .. other.start + InodesPerChunk - 1

\* The descent stays in the tree, and in a search tree above the record it looks for.
DescentInv ==
  /\ pc = "walk" => block \in Under(root)
  /\ pc = "walk" /\ SearchTree(root) => \A r \in Records(root) : Alone(r) => r \in Records(block)
  /\ FoundIsRecorded
  /\ No /\ SearchTree(root) => \A r \in Records(root) : ~Alone(r)

LEMMA ChildrenInTree ==
  ASSUME TreeInv, NEW b \in DOMAIN tree
  PROVE  /\ Children(b) \subseteq DOMAIN tree
         /\ tree[b].kind = "branch" =>
              /\ DOMAIN tree[b].pairs = 1 .. Len(tree[b].pairs) /\ Len(tree[b].pairs) \in Nat
              /\ \A i \in DOMAIN tree[b].pairs : tree[b].pairs[i] \in PairType
<1>1. ASSUME tree[b].kind = "branch"
      PROVE  /\ DOMAIN tree[b].pairs = 1 .. Len(tree[b].pairs) /\ Len(tree[b].pairs) \in Nat
             /\ \A i \in DOMAIN tree[b].pairs : tree[b].pairs[i] \in PairType
  <2>1. tree[b].pairs \in Seq(PairType)
    BY <1>1 DEF TreeInv
  <2>2. QED
    BY <2>1, LenProperties
<1>2. Children(b) \subseteq DOMAIN tree
  BY <1>1 DEF Children, PairType
<1>3. QED
  BY <1>1, <1>2

LEMMA UnderItself == ASSUME NEW b \in DOMAIN tree PROVE b \in Under(b)
  BY DEF Under

LEMMA UnderChild ==
  ASSUME TreeInv, NEW b \in DOMAIN tree, NEW c \in Under(b), NEW d \in Children(c)
  PROVE  d \in Under(b)
<1>1. c \in DOMAIN tree /\ d \in DOMAIN tree
  BY ChildrenInTree DEF Under
<1>2. ASSUME NEW blocks \in SUBSET DOMAIN tree, b \in blocks, \A e \in blocks : Children(e) \subseteq blocks
      PROVE  d \in blocks
  BY <1>2 DEF Under
<1>3. QED
  BY <1>1, <1>2 DEF Under

LEMMA UnderLeast ==
  ASSUME NEW b \in DOMAIN tree, NEW blocks \in SUBSET DOMAIN tree, b \in blocks,
         \A e \in blocks : Children(e) \subseteq blocks
  PROVE  Under(b) \subseteq blocks
  BY DEF Under

\* What is under a block is the block and what is under its children.
LEMMA UnderUnfolds ==
  ASSUME TreeInv, NEW b \in DOMAIN tree
  PROVE  Under(b) \subseteq {b} \cup UNION {Under(c) : c \in Children(b)}
<1> DEFINE blocks == {b} \cup UNION {Under(c) : c \in Children(b)}
<1>1. Children(b) \subseteq DOMAIN tree
  BY ChildrenInTree
<1>2. blocks \subseteq DOMAIN tree
  BY DEF Under
<1>3. ASSUME NEW e \in blocks, NEW d \in Children(e) PROVE d \in blocks
  <2>1. CASE e = b
    <3>1. d \in Children(b) /\ d \in Under(d)
      BY <1>1, <1>3, <2>1, UnderItself
    <3>2. QED
      BY <3>1
  <2>2. CASE e # b
    <3>1. PICK c \in Children(b) : e \in Under(c)
      BY <1>3, <2>2
    <3>2. d \in Under(c)
      BY <1>1, <1>3, <3>1, UnderChild
    <3>3. QED
      BY <3>1, <3>2
  <2>3. QED
    BY <2>1, <2>2
<1>4. QED
  BY <1>2, <1>3, UnderLeast

LEMMA UnderTransitive ==
  ASSUME TreeInv, NEW b \in DOMAIN tree, NEW c \in Under(b)
  PROVE  c \in DOMAIN tree /\ Under(c) \subseteq Under(b) /\ Records(c) \subseteq Records(b)
<1>1. c \in DOMAIN tree /\ Under(b) \in SUBSET DOMAIN tree
  BY DEF Under
<1>2. \A e \in Under(b) : Children(e) \subseteq Under(b)
  BY UnderChild
<1>3. Under(c) \subseteq Under(b)
  BY <1>1, <1>2, UnderLeast
<1>4. QED
  BY <1>1, <1>3 DEF Records

\* A leaf has its own records.
LEMMA RecordsOfLeaf ==
  ASSUME TreeInv, NEW b \in DOMAIN tree, tree[b].kind = "leaf"
  PROVE  Records(b) = {tree[b].records[i] : i \in DOMAIN tree[b].records}
<1>1. Children(b) = {}
  BY DEF Children
<1>2. Under(b) = {b}
  BY <1>1, UnderUnfolds, UnderItself
<1>3. QED
  BY <1>2 DEF Records

\* A branch has those of its children.
LEMMA RecordsOfBranch ==
  ASSUME TreeInv, NEW b \in DOMAIN tree, tree[b].kind = "branch", NEW r \in Records(b)
  PROVE  \E i \in DOMAIN tree[b].pairs : r \in Records(tree[b].pairs[i].child)
<1>1. PICK c \in Under(b) : tree[c].kind = "leaf" /\ \E k \in DOMAIN tree[c].records : r = tree[c].records[k]
  BY DEF Records
<1>2. PICK d \in Children(b) : c \in Under(d)
  BY <1>1, UnderUnfolds
<1>3. r \in Records(d)
  BY <1>1, <1>2 DEF Records
<1>4. QED
  BY <1>2, <1>3 DEF Children

LEMMA RecordsTyped == ASSUME TreeInv, NEW b \in DOMAIN tree, NEW r \in Records(b) PROVE r \in RecordType
<1>1. PICK c \in Under(b) : tree[c].kind = "leaf" /\ \E k \in DOMAIN tree[c].records : r = tree[c].records[k]
  BY DEF Records
<1>2. c \in DOMAIN tree
  BY DEF Under
<1>3. tree[c].records \in Seq(RecordType)
  BY <1>1, <1>2 DEF TreeInv
<1>4. QED
  BY <1>1, <1>3, LenProperties

-------------------------------------------------------------------------------
\* The root of the tree of an inode that can be asked for.
LEMMA RootInTree ==
  ASSUME IInv, TreeInv, phase = "opened", Addressable
  PROVE  root \in DOMAIN tree /\ relative \in Nat
<1>1. geometry.inodeStride \in Nat \ {0} /\ number \in Nat
  <2> DEFINE sb == Read(1).superblock
  <2>1. geometry = Derived(sb) /\ Accepted(sb)
    BY OpenGeometry
  <2>2. sb.groupBits \in Nat /\ sb.inodeBits \in Nat /\ sb.groupBits + sb.inodeBits <= Limits.addressBits
    BY <2>1, OpenGeometry, LimitsAssumption DEF Accepted
  <2>3. 2 ^ sb.groupBits \in Nat \ {0} /\ 2 ^ sb.inodeBits \in Nat \ {0}
    BY <2>2, LimitsAssumption, WordAssumption
  <2>4. QED
    BY <2>1, <2>3, InodeAssumption DEF Derived, IInv, GeometryInv
<1>2. group \in Nat /\ relative \in Nat
  BY <1>1, NatDiv DEF group, relative, InodeGroup, RelativeInode
<1>3. group + 1 \in 1 .. Len(agInode) /\ agInode \in Seq(DOMAIN tree)
  BY <1>2, LenProperties DEF Addressable, TreeInv
<1>4. QED
  BY <1>2, <1>3 DEF root

\* A leaf says that it has an inode when one of its records does.
LEMMA LeafFinds ==
  ASSUME NEW records \in Seq(RecordType), NEW wanted \in Nat, LeafHas(records, wanted)
  PROVE  \E i \in DOMAIN records : wanted \in Holds(records[i])
<1>1. PICK i \in DOMAIN records : Covers(records[i], wanted) /\ Allocated(records[i], wanted)
  BY DEF LeafHas
<1>2. records[i] \in RecordType
  BY LenProperties
<1> DEFINE r == records[i]
           k == wanted - r.start
<1>3. k \in 0 .. InodesPerChunk - 1 /\ r.start + k = wanted
  BY <1>1, <1>2, InodeAssumption DEF Covers, RecordType
<1>4. wanted \in Holds(r)
  BY <1>1, <1>3 DEF Allocated, Holds
<1>5. QED
  BY <1>4

\* And it has it when the only one of its records that covers the inode does.
LEMMA LeafMisses ==
  ASSUME NEW records \in Seq(RecordType), NEW wanted \in Nat, NEW k \in DOMAIN records,
         wanted \in Holds(records[k]),
         \A i \in DOMAIN records :
           records[i] # records[k] => wanted \notin records[i].start .. records[i].start + InodesPerChunk - 1
  PROVE  LeafHas(records, wanted)
<1>1. DOMAIN records = 1 .. Len(records) /\ Len(records) \in Nat /\ \A i \in DOMAIN records : records[i] \in RecordType
  BY LenProperties
<1> DEFINE T == {i \in DOMAIN records : Covers(records[i], wanted)}
           r == records[k]
<1>2. Covers(r, wanted) /\ Allocated(r, wanted)
  <2>1. PICK n \in 0 .. InodesPerChunk - 1 : (r.free = 0 \/ n \notin r.unused) /\ wanted = r.start + n
    BY DEF Holds
  <2>2. r.start \in Nat /\ n \in Nat /\ n < InodesPerChunk /\ wanted - r.start = n
    BY <1>1, <2>1, InodeAssumption DEF RecordType
  <2>3. QED
    BY <2>1, <2>2, InodeAssumption DEF Covers, Allocated
<1>3. k \in T /\ T \subseteq Nat
  BY <1>1, <1>2
<1>4. PICK m \in T : \A i \in T : m <= i
  BY <1>3, Least
<1>5. records[m] = r
  <2>1. records[m].start \in Nat /\ Covers(records[m], wanted)
    BY <1>1, <1>4 DEF RecordType
  <2>2. wanted \in records[m].start .. records[m].start + InodesPerChunk - 1
    BY <2>1, InodeAssumption DEF Covers
  <2>3. QED
    BY <1>4, <2>2
<1>6. \A j \in 1 .. m - 1 : ~Covers(records[j], wanted)
  <2>1. ASSUME NEW j \in 1 .. m - 1, Covers(records[j], wanted) PROVE FALSE
    <3>1. j \in T /\ j < m
      BY <1>1, <1>4, <2>1
    <3>2. QED
      BY <1>4, <3>1, <1>3
  <2>2. QED
    BY <2>1
<1>7. QED
  BY <1>2, <1>4, <1>5, <1>6 DEF LeafHas

\* In a search tree the child that the scan of the keys stops at is the one that can
\* have the record.
LEMMA ChildFound ==
  ASSUME TreeInv, NEW b \in DOMAIN tree, tree[b].kind = "branch", Ordered(b), relative \in Nat,
         NEW r \in Records(b), relative \in Holds(r)
  PROVE  LET pairs == tree[b].pairs
             passed == KeysPassed(pairs, relative)
         IN  passed # {} /\ r \in Records(pairs[Cardinality(passed)].child)
<1> DEFINE pairs == tree[b].pairs
           passed == KeysPassed(pairs, relative)
           n == Cardinality(passed)
<1>1. /\ DOMAIN pairs = 1 .. Len(pairs) /\ Len(pairs) \in Nat
      /\ \A i \in DOMAIN pairs : pairs[i].key \in Nat
  BY ChildrenInTree DEF PairType
<1>2. PICK i \in DOMAIN pairs : r \in Records(pairs[i].child)
  BY RecordsOfBranch
<1>3. r.start \in Nat /\ r.start <= relative /\ relative < r.start + InodesPerChunk
  <2>1. r \in RecordType
    BY RecordsTyped
  <2>2. QED
    BY <2>1, InodeAssumption DEF Holds, RecordType
<1>4. /\ \A j, k \in DOMAIN pairs : j < k => pairs[j].key < pairs[k].key
      /\ pairs[i].key <= r.start
      /\ i < Len(pairs) => r.start + InodesPerChunk <= pairs[i + 1].key
  BY <1>2 DEF Ordered
<1>5. i \in passed
  <2>1. ASSUME NEW j \in 1 .. i PROVE pairs[j].key <= relative
    <3>1. j \in DOMAIN pairs /\ (j = i \/ j < i)
      BY <1>1
    <3>2. QED
      BY <1>1, <1>3, <1>4, <3>1
  <2>2. QED
    BY <2>1 DEF KeysPassed
<1>6. n \in 0 .. Len(pairs) /\ passed = 1 .. n
  <2>1. passed \subseteq 1 .. Len(pairs)
    BY <1>1 DEF KeysPassed
  <2>2. \A j \in passed : \A k \in 1 .. j : k \in passed
    BY <1>1 DEF KeysPassed
  <2> HIDE DEF passed
  <2>3. QED
    BY <1>1, <2>1, <2>2, Prefix
<1>7. n = i
  <2>1. i <= n /\ n \in passed
    BY <1>1, <1>5, <1>6
  <2>2. ASSUME i < n PROVE FALSE
    <3>1. i + 1 \in DOMAIN pairs /\ i + 1 \in passed /\ i < Len(pairs)
      BY <1>1, <1>6, <2>2
    <3>2. pairs[i + 1].key <= relative
      BY <1>1, <3>1 DEF KeysPassed
    <3>3. pairs[i + 1].key \in Nat
      BY <1>1, <3>1
    <3>4. QED
      BY <1>3, <1>4, <3>1, <3>2, <3>3, InodeAssumption
  <2>3. QED
    BY <1>1, <1>6, <2>1, <2>2
<1>8. QED
  BY <1>2, <1>5, <1>7

-------------------------------------------------------------------------------
LookupInv == IInv /\ TreeInv /\ ControlInv /\ DescentInv

LEMMA InitLookup == Init => LookupInv
<1> SUFFICES ASSUME Init PROVE LookupInv
  OBVIOUS
<1>1. image \in Images /\ pc = "check" /\ answer = "none" /\ agInode = <<>>
  BY DEF Init, VolumeInit
<1>2. TreeInv
  <2>1. \A b \in DOMAIN tree :
          CASE tree[b].kind = "leaf"   -> tree[b].records \in Seq(RecordType)
            [] tree[b].kind = "branch" -> tree[b].pairs \in Seq(PairType)
            [] OTHER                   -> tree[b].kind = "bad"
    BY <1>1, BlockAssumption DEF tree, RecordType, PairType
  <2>2. agInode \in Seq(DOMAIN tree)
    BY <1>1
  <2>3. QED
    BY <2>1, <2>2 DEF TreeInv
<1>3. ControlInv /\ DescentInv
  BY <1>1 DEF ControlInv, DescentInv, FoundIsRecorded, Yes, No
<1>4. QED
  BY <1>2, <1>3, InitInv DEF LookupInv

\* While the volume is opened the roots of its groups are gathered.
LEMMA OpeningKeeps == LookupInv /\ Opening => (TreeInv /\ ControlInv /\ DescentInv)'
<1> SUFFICES ASSUME LookupInv, Opening PROVE (TreeInv /\ ControlInv /\ DescentInv)'
  OBVIOUS
<1>1. /\ pc = "check" /\ answer = "none" /\ pc' = "check" /\ answer' = "none"
      /\ image' = image /\ image \in Images
  BY DEF LookupInv, ControlInv, IInv, GeometryInv, Opening, OpenStep, ReadSuperblock, ReadGroup, Opened, OpenFails
<1>2. (ControlInv /\ DescentInv)'
  BY <1>1 DEF ControlInv, DescentInv, FoundIsRecorded, Yes, No
<1>3. agInode' \in Seq(DOMAIN tree)
  <2>1. agInode \in Seq(DOMAIN tree)
    BY DEF LookupInv, TreeInv
  <2>2. CASE agInode' = agInode
    BY <2>1, <2>2
  <2>3. CASE agInode' # agInode
    <3> DEFINE g == Len(agInode) + 1
    <3>1. Parses(Read(g).superblock) /\ agInode' = Append(agInode, Read(g).root)
      BY <2>3 DEF Opening, OpenStep, ReadSuperblock, ReadGroup, Opened, OpenFails
    <3>2. g \in DOMAIN image.groups /\ Read(g) = image.groups[g]
      BY <3>1 DEF Read, Parses
    <3>3. Read(g).root \in DOMAIN tree
      BY <1>1, <3>2, InodeAssumption DEF tree
    <3>4. QED
      BY <2>1, <3>1, <3>3, AppendProperties
  <2>4. QED
    BY <2>2, <2>3
<1>4. TreeInv'
  <2>1. tree' = tree /\ PairType' = PairType /\ RecordType' = RecordType
    BY <1>1 DEF tree, PairType, RecordType
  <2>2. QED
    BY <1>3, <2>1 DEF LookupInv, TreeInv
<1>5. QED
  BY <1>2, <1>4

\* A lookup leaves the volume as it is.
LEMMA LookupReads ==
  ASSUME LookupStep
  PROVE  /\ UNCHANGED <<image, phase, geometry, agInode, number>>
         /\ tree' = tree /\ root' = root /\ relative' = relative /\ (Addressable <=> Addressable')
<1>1. UNCHANGED <<image, phase, geometry, agInode, number>>
  BY DEF LookupStep, Check, SearchLeaf, Descend, WalkFails, ReadInode, Return, volume
<1>2. QED
  BY <1>1 DEF tree, root, group, relative, Addressable

LEMMA SameRecords ==
  ASSUME LookupStep
  PROVE  /\ Under(root)' = Under(root) /\ Records(root)' = Records(root)
         /\ (SearchTree(root) <=> SearchTree(root)')
         /\ \A r : Alone(r) <=> Alone(r)'
<1>1. tree' = tree /\ root' = root /\ relative' = relative
  BY LookupReads
<1>2. Under(root)' = Under(root)
  BY <1>1 DEF Under, Children
<1>3. Records(root)' = Records(root)
  BY <1>1 DEF Records, Under, Children
<1>4. SearchTree(root) <=> SearchTree(root)'
  BY <1>1 DEF SearchTree, Ordered, Records, Under, Children
<1>5. \A r : Alone(r) <=> Alone(r)'
  BY <1>1, <1>3 DEF Alone, Holds
<1>6. QED
  BY <1>2, <1>3, <1>4, <1>5

LEMMA StepLookup == LookupInv /\ LookupStep => (TreeInv /\ ControlInv /\ DescentInv)'
<1> SUFFICES ASSUME LookupInv, LookupStep PROVE (TreeInv /\ ControlInv /\ DescentInv)'
  OBVIOUS
<1> USE DEF LookupInv
<1>1. /\ UNCHANGED <<image, phase, geometry, agInode, number>>
      /\ tree' = tree /\ root' = root /\ relative' = relative /\ (Addressable <=> Addressable')
      /\ Under(root)' = Under(root) /\ Records(root)' = Records(root)
      /\ (SearchTree(root) <=> SearchTree(root)')
      /\ \A r : Alone(r) <=> Alone(r)'
  BY LookupReads, SameRecords
<1>2. TreeInv'
  <2>1. PairType' = PairType /\ RecordType' = RecordType
    BY <1>1 DEF PairType, RecordType
  <2>2. QED
    BY <1>1, <2>1 DEF TreeInv
<1>3. phase = "opened"
  BY DEF LookupStep, Check, SearchLeaf, Descend, WalkFails, ReadInode, ControlInv
<1>4. pc' = "walk" => Addressable
  BY DEF LookupStep, Check, SearchLeaf, Descend, WalkFails, ReadInode, Return, ControlInv
<1>5. ControlInv'
  BY <1>1, <1>3 DEF LookupStep, Check, SearchLeaf, Descend, WalkFails, ReadInode, Return, ControlInv
\* What the conjuncts of DescentInv are of in the next state.
<1> DEFINE Found == Addressable /\ \E r \in Records(root) : relative \in Holds(r)
           Missed == SearchTree(root) => \A r \in Records(root) : ~Alone(r)
           Above(b) == SearchTree(root) => \A r \in Records(root) : Alone(r) => r \in Records(b)
<1>6. SUFFICES /\ pc' = "walk" => \E b \in Under(root) : block' = b /\ Above(b)
               /\ Yes' => Found
               /\ No' => Missed
  <2>1. ASSUME NEW b \in Under(root), block' = b, Above(b)
        PROVE  /\ (block \in Under(root))'
               /\ (SearchTree(root) => \A r \in Records(root) : Alone(r) => r \in Records(block))'
    <3>1. (Records(block))' = Records(b)
      BY <1>1, <2>1 DEF Records, Under, Children
    <3>2. QED
      BY <1>1, <2>1, <3>1
  <2>2. Found => (Addressable /\ \E r \in Records(agInode[group + 1]) : relative \in Holds(r))'
    BY <1>1 DEF root, Holds
  <2>3. Missed => (SearchTree(root) => \A r \in Records(root) : ~Alone(r))'
    BY <1>1
  <2> HIDE DEF Found, Missed, Above
  <2>4. DescentInv'
    BY <1>6, <2>1, <2>2, <2>3 DEF DescentInv, FoundIsRecorded
  <2>5. QED
    BY <1>2, <1>5, <2>4
<1> HIDE DEF Found, Missed, Above
<1>7. CASE Check
  <2>1. pc' = "walk" => root \in DOMAIN tree /\ root \in Under(root) /\ block' = root
    BY <1>3, <1>4, <1>7, RootInTree, UnderItself DEF Check, Return, root
  <2>2. Above(root)
    BY DEF Above
  <2>3. ~Yes' /\ ~No'
    BY <1>7 DEF Check, Return, Yes, No, ControlInv
  <2>4. QED
    BY <2>1, <2>2, <2>3
<1>8. CASE pc = "walk" /\ (SearchLeaf \/ Descend \/ WalkFails)
  <2>1. /\ Addressable /\ answer = "none" /\ block \in Under(root) /\ Above(block)
        /\ root \in DOMAIN tree /\ relative \in Nat
    BY <1>3, <1>8, RootInTree DEF ControlInv, DescentInv, Above
  <2>2. block \in DOMAIN tree /\ Under(block) \subseteq Under(root) /\ Records(block) \subseteq Records(root)
    BY <2>1, UnderTransitive
  <2>3. CASE SearchLeaf
    <3> DEFINE records == tree[block].records
    <3>1. /\ records \in Seq(RecordType) /\ tree[block].kind = "leaf"
          /\ Records(block) = {records[i] : i \in DOMAIN records}
      BY <2>2, <2>3, RecordsOfLeaf DEF SearchLeaf, TreeInv
    <3>2. LeafHas(records, relative) => Found
      BY <2>1, <2>2, <3>1, LeafFinds DEF Found
    <3>3. ~LeafHas(records, relative) => Missed
      <4>1. ASSUME SearchTree(root), NEW r \in Records(root), Alone(r) PROVE LeafHas(records, relative)
        <5>1. PICK k \in DOMAIN records : r = records[k]
          BY <2>1, <3>1, <4>1 DEF Above
        <5>2. relative \in Holds(records[k])
          BY <4>1, <5>1 DEF Alone
        <5>3. ASSUME NEW i \in DOMAIN records, records[i] # records[k]
              PROVE  relative \notin records[i].start .. records[i].start + InodesPerChunk - 1
          <6>1. records[i] \in Records(root) \ {r}
            BY <2>2, <3>1, <5>1, <5>3
          <6>2. QED
            BY <4>1, <6>1 DEF Alone
        <5> HIDE DEF records
        <5>4. QED
          BY <2>1, <3>1, <5>2, <5>3, LeafMisses
      <4>2. QED
        BY <4>1 DEF Missed
    <3>4. IF LeafHas(records, relative) THEN ~No' ELSE ~Yes'
      BY <2>1, <2>3 DEF SearchLeaf, Return, Verdict, Yes, No
    <3>5. pc' # "walk"
      BY <2>3 DEF SearchLeaf, Return
    <3> HIDE DEF records
    <3>6. QED
      BY <3>2, <3>3, <3>4, <3>5
  <2>4. CASE Descend
    <3> DEFINE pairs == tree[block].pairs
               passed == KeysPassed(pairs, relative)
               child == pairs[Cardinality(passed)].child
    <3>1. /\ tree[block].kind = "branch"
          /\ SearchTree(root) => Ordered(block)
      BY <2>1, <2>4 DEF Descend, SearchTree
    <3>2. ASSUME SearchTree(root), NEW r \in Records(root), Alone(r)
          PROVE  passed # {} /\ r \in Records(child)
      <4>1. r \in Records(block) /\ relative \in Holds(r)
        BY <2>1, <3>2 DEF Above, Alone
      <4>2. QED
        BY <2>1, <2>2, <3>1, <3>2, <4>1, ChildFound
    <3>3. CASE passed = {}
      <4>1. pc' # "walk" /\ ~Yes'
        BY <2>4, <3>3 DEF Descend, Return, Verdict, Yes
      <4> HIDE DEF passed
      <4>2. Missed
        BY <3>2, <3>3 DEF Missed
      <4>3. QED
        BY <4>1, <4>2
    <3>4. CASE passed # {}
      <4>1. pc' = pc /\ answer' = answer /\ block' = child
        BY <2>4, <3>4 DEF Descend
      <4>2. child \in Children(block)
        <5>1. DOMAIN pairs = 1 .. Len(pairs) /\ Len(pairs) \in Nat
          BY <2>2, <3>1, ChildrenInTree
        <5>2. Cardinality(passed) \in 0 .. Len(pairs) /\ passed = 1 .. Cardinality(passed)
          <6>1. passed \subseteq 1 .. Len(pairs) /\ \A j \in passed : \A k \in 1 .. j : k \in passed
            BY <5>1 DEF KeysPassed
          <6> HIDE DEF passed
          <6>2. QED
            BY <5>1, <6>1, Prefix
        <5>3. Cardinality(passed) \in DOMAIN pairs
          BY <3>4, <5>1, <5>2
        <5>4. QED
          BY <3>1, <5>3 DEF Children
      <4>3. child \in Under(root)
        BY <2>1, <4>2, UnderChild
      <4>4. Above(child)
        BY <3>2 DEF Above
      <4>5. ~Yes' /\ ~No'
        BY <1>8, <2>1, <4>1 DEF Yes, No
      <4>6. QED
        BY <4>1, <4>3, <4>4, <4>5
    <3>5. QED
      BY <3>3, <3>4
  <2>5. CASE WalkFails
    BY <2>1, <2>5 DEF WalkFails, Return, Verdict, Yes, No
  <2>6. QED
    BY <1>8, <2>3, <2>4, <2>5
<1>9. CASE ReadInode
  <2>1. pc' # "walk" /\ ~No'
    BY <1>9 DEF ReadInode, Return, No
  <2>2. Found
    BY <1>9 DEF ReadInode, DescentInv, FoundIsRecorded, Yes, Found, root
  <2>3. QED
    BY <2>1, <2>2
<1>10. QED
  BY <1>7, <1>8, <1>9 DEF LookupStep, SearchLeaf, Descend, WalkFails

LEMMA LookupInvariance == Spec => []LookupInv
<1>1. LookupInv /\ [Next]_vars => LookupInv'
  <2> SUFFICES ASSUME LookupInv, [Next]_vars PROVE (TreeInv /\ ControlInv /\ DescentInv)'
    BY StepInv DEF LookupInv
  <2>1. CASE Opening
    BY <2>1, OpeningKeeps
  <2>2. CASE LookupStep
    BY <2>2, StepLookup
  <2>3. CASE UNCHANGED vars
    <3>1. /\ UNCHANGED <<pc, block, answer, phase, agInode>>
          /\ tree' = tree /\ root' = root /\ relative' = relative /\ (Addressable <=> Addressable')
      BY <2>3 DEF vars, volume, tree, root, group, relative, Addressable
    <3>2. PairType' = PairType /\ RecordType' = RecordType
      BY <3>1 DEF PairType, RecordType
    <3>3. (TreeInv /\ ControlInv)'
      BY <3>1, <3>2 DEF LookupInv, TreeInv, ControlInv
    <3>4. Under(root)' = Under(root) /\ Records(root)' = Records(root) /\ Records(block)' = Records(block)
      BY <3>1 DEF Records, Under, Children
    <3>5. SearchTree(root) <=> SearchTree(root)'
      BY <3>1 DEF SearchTree, Ordered, Records, Under, Children
    <3>6. \A r : Alone(r) <=> Alone(r)'
      BY <3>1, <3>4 DEF Alone, Holds
    <3>7. (Yes <=> Yes') /\ (No <=> No')
      BY <3>1 DEF Yes, No
    <3>8. FoundIsRecorded'
      BY <3>1, <3>4, <3>7 DEF LookupInv, DescentInv, FoundIsRecorded, root, Holds
    <3>9. DescentInv'
      BY <3>1, <3>4, <3>5, <3>6, <3>7, <3>8 DEF LookupInv, DescentInv
    <3>10. QED
      BY <3>3, <3>9
  <2>4. QED
    BY <2>1, <2>2, <2>3 DEF Next, Step
<1>2. QED
  BY InitLookup, <1>1, PTL DEF Spec

\* getRelativeInodeFromNode: whatever the blocks are, of any number and in any order, an
\* inode is found only where a record of its own group's tree covers it and says so.
THEOREM OnlyRecordedFound == Spec => []FoundIsRecorded
<1>1. LookupInv => FoundIsRecorded
  BY DEF LookupInv, DescentInv
<1>2. QED
  BY <1>1, LookupInvariance, PTL

\* And where the keys are in order an inode that a record has is not said to be missing:
\* the descent stays above every record that alone covers the inode.
THEOREM NothingMissed == Spec => []NoneIsMissed
<1>1. LookupInv => NoneIsMissed
  BY DEF LookupInv, DescentInv, Alone, root, NoneIsMissed
<1>2. QED
  BY <1>1, LookupInvariance, PTL

-------------------------------------------------------------------------------
(* The entries under a block *)

\* One level more.
UnderNext(levels, before) ==
  [b \in Nat |-> IF levels = 0 \/ ~Readable(b) THEN <<Missing>> ELSE EntriesOf(b, before)]

IsUnder(f, n) == f = [k \in 0 .. n |-> UnderNext(k, f[k - 1])]

LEMMA UnderNothing == ASSUME NEW x, NEW y PROVE UnderNext(0, x) = UnderNext(0, y)
BY DEF UnderNext

LEMMA UnderExists == ASSUME NEW n \in Nat PROVE \E f : IsUnder(f, n)
<1> DEFINE T == {k \in Nat : ~\E f : IsUnder(f, k)}
<1>1. SUFFICES ASSUME T # {} PROVE FALSE
  OBVIOUS
<1>2. T \subseteq Nat
  OBVIOUS
<1>3. PICK m \in T : \A k \in T : m <= k
  BY <1>1, <1>2, Least
<1>4. \E g : IsUnder(g, m)
  <2>1. CASE m = 0
    <3> DEFINE g == [k \in 0 .. 0 |-> UnderNext(0, 0)]
    <3>1. \A k \in 0 .. 0 : k = 0
      OBVIOUS
    <3>2. g = [k \in 0 .. 0 |-> UnderNext(k, g[k - 1])]
      BY <3>1, UnderNothing
    <3> HIDE DEF g
    <3>3. QED
      BY <2>1, <3>2 DEF IsUnder
  <2>2. CASE m # 0
    <3>1. m - 1 \in Nat /\ m - 1 \notin T
      BY <1>3, <2>2
    <3>2. PICK f : IsUnder(f, m - 1)
      BY <3>1
    <3> DEFINE g == [k \in 0 .. m |-> UnderNext(k, f[k - 1])]
    <3>3. \A k \in 0 .. m - 1 : g[k] = f[k]
      <4>1. TAKE k \in 0 .. m - 1
      <4>2. k \in 0 .. m
        BY <1>3
      <4>3. f[k] = UnderNext(k, f[k - 1])
        BY <3>2 DEF IsUnder
      <4>4. QED
        BY <4>2, <4>3
    <3>4. \A k \in 0 .. m : UnderNext(k, f[k - 1]) = UnderNext(k, g[k - 1])
      <4>1. TAKE k \in 0 .. m
      <4>2. CASE k = 0
        BY <4>2, UnderNothing
      <4>3. CASE k # 0
        <5>1. k - 1 \in 0 .. m - 1
          BY <1>3, <4>3
        <5> HIDE DEF g
        <5>2. QED
          BY <3>3, <5>1
      <4>4. QED
        BY <4>2, <4>3
    <3>5. g = [k \in 0 .. m |-> UnderNext(k, g[k - 1])]
      <4>1. QED
        BY <3>4
    <3> HIDE DEF g
    <3>6. QED
      BY <3>5 DEF IsUnder
  <2>3. QED
    BY <2>1, <2>2
<1>5. QED
  BY <1>3, <1>4

LEMMA EntriesUnderUnfolds ==
  ASSUME NEW k \in 0 .. MaxNodeDepth + 1
  PROVE  EntriesUnder[k] = UnderNext(k, EntriesUnder[k - 1])
<1>1. MaxNodeDepth + 1 \in Nat
  BY XattrAssumption
<1>2. EntriesUnder = CHOOSE f : IsUnder(f, MaxNodeDepth + 1)
  BY DEF EntriesUnder, IsUnder, UnderNext
<1>3. IsUnder(EntriesUnder, MaxNodeDepth + 1)
  BY <1>1, <1>2, UnderExists
<1>4. QED
  BY <1>3 DEF IsUnder

LEMMA ReadingStays ==
  ASSUME fork' = fork
  PROVE  /\ \A b : Readable(b)' = Readable(b) /\ Block(b)' = Block(b) /\ Segment(b)' = Segment(b)
                   /\ Misplaced(b)' = Misplaced(b) /\ Zeros(b)' = Zeros(b)
         /\ Blocks' = Blocks
<1>1. ASSUME NEW b PROVE Holders(b)' = Holders(b)
  BY DEF Holders
<1>2. ASSUME NEW b PROVE Physical(b)' = Physical(b)
  BY <1>1 DEF Physical, Holder
<1>3. ASSUME NEW b PROVE Zeros(b)' = Zeros(b)
  BY <1>1 DEF Zeros, Holder
<1>4. ASSUME NEW b PROVE Readable(b)' = Readable(b) /\ Block(b)' = Block(b)
  BY <1>1, <1>2 DEF Readable, Block
<1>5. ASSUME NEW b PROVE Misplaced(b)' = Misplaced(b)
  BY <1>4 DEF Misplaced
<1>6. ASSUME NEW b PROVE Segment(b)' = Segment(b)
  BY <1>2, <1>4 DEF Segment
<1>7. LeadReadable' = LeadReadable
  BY <1>3, <1>4 DEF LeadReadable
<1>8. ShortForm' = ShortForm
  BY <1>3 DEF ShortForm
<1>9. QED
  BY <1>3, <1>4, <1>5, <1>6, <1>7, <1>8 DEF Blocks

LEMMA ValuesStay ==
  ASSUME fork' = fork
  PROVE  \A e : Value(e)' = Value(e) /\ Decodable(e)' = Decodable(e) /\ Enough(e)' = Enough(e)
<1>1. ASSUME NEW a, NEW n PROVE Segments(a, n)' = Segments(a, n)
  BY ReadingStays DEF Segments
<1>2. ASSUME NEW b PROVE Gives(b)' = Gives(b)
  BY ReadingStays DEF Gives
<1>3. ASSUME NEW e PROVE Enough(e)' = Enough(e)
  BY <1>1, <1>2 DEF Enough
<1>4. ASSUME NEW e PROVE Value(e)' = Value(e)
  <2>1. PICK n : n = BlocksOf(e)
    OBVIOUS
  <2>2. BlocksOf(e)' = n
    BY <1>3, <2>1 DEF BlocksOf
  <2>3. Segments(e.start, n)' = Segments(e.start, n)
    BY <1>1
  <2>4. Segments(e.start, BlocksOf(e))' = Segments(e.start, BlocksOf(e))
    BY <2>1, <2>2, <2>3
  <2>5. QED
    BY <2>4 DEF Value
<1>5. ASSUME NEW e PROVE Decodable(e)' = Decodable(e)
  BY <1>3 DEF Decodable, Supported
<1>6. QED
  BY <1>3, <1>4, <1>5

LEMMA ListingStays ==
  ASSUME fork' = fork
  PROVE  EntriesUnder' = EntriesUnder /\ Listing' = Listing
<1>1. ASSUME NEW b, NEW u PROVE EntriesOf(b, u)' = EntriesOf(b, u)
  BY ReadingStays DEF EntriesOf
<1>2. EntriesUnder' = EntriesUnder
  BY <1>1, ReadingStays DEF EntriesUnder
<1>3. QED
  BY <1>2 DEF Listing

-------------------------------------------------------------------------------
(* Entries and bytes, as the disk has them *)

AllEntries ==
  {Missing} \cup UNION {Range(fork.blocks[b].entries) : b \in {c \in DOMAIN fork.blocks : fork.blocks[c].kind = "leaf"}}

Bytes == (DOMAIN fork.blocks) \X Nat

LEMMA EntriesTyped ==
  ASSUME fork \in Forks, NEW e \in AllEntries, "start" \in DOMAIN e
  PROVE  e.start \in Nat /\ e.start < BlockModulus /\ e.size \in Nat
<1>1. e # Missing
  BY DEF Missing
<1>2. PICK b \in DOMAIN fork.blocks : fork.blocks[b].kind = "leaf" /\ e \in Range(fork.blocks[b].entries)
  BY <1>1 DEF AllEntries
<1>3. e.start \in 0 .. BlockModulus - 1 /\ e.size \in Nat
  BY <1>2, ForkAssumption
<1>4. QED
  BY <1>3, XattrAssumption

LEMMA BlocksTyped ==
  ASSUME fork \in Forks, NEW b, Readable(b)
  PROVE  /\ Block(b).kind = "leaf" => Block(b).entries \in Seq(AllEntries)
         /\ Block(b).kind = "node" => Block(b).children \in Seq(Nat)
         /\ Block(b).kind = "value" => Block(b).offset \in Nat /\ Block(b).size \in Nat
<1>1. Physical(b) \in DOMAIN fork.blocks
  BY DEF Readable
<1>2. Block(b).kind = "leaf" => Block(b).entries \in Seq(AllEntries)
  <2>1. SUFFICES ASSUME Block(b).kind = "leaf" PROVE Block(b).entries \in Seq(AllEntries)
    OBVIOUS
  <2>2. Block(b).entries \in Seq(Range(Block(b).entries))
    BY <1>1, <2>1, ForkAssumption DEF Block
  <2>3. Range(Block(b).entries) \subseteq AllEntries
    BY <1>1, <2>1 DEF Block, AllEntries
  <2>4. QED
    BY <2>2, <2>3, SeqMonotonic
<1>3. QED
  BY <1>1, <1>2, ForkAssumption DEF Block

LEMMA UnderBlock ==
  ASSUME NEW k \in 0 .. MaxNodeDepth + 1, NEW b \in Nat
  PROVE  EntriesUnder[k][b] = IF k = 0 \/ ~Readable(b) THEN <<Missing>> ELSE EntriesOf(b, EntriesUnder[k - 1])
BY EntriesUnderUnfolds DEF UnderNext

LEMMA UnderTyped ==
  ASSUME fork \in Forks
  PROVE  \A k \in 0 .. MaxNodeDepth + 1 : \A b \in Nat : EntriesUnder[k][b] \in Seq(AllEntries)
<1> DEFINE T == {k \in 0 .. MaxNodeDepth + 1 : \E b \in Nat : EntriesUnder[k][b] \notin Seq(AllEntries)}
<1>1. SUFFICES ASSUME T # {} PROVE FALSE
  OBVIOUS
<1>2. MaxNodeDepth + 1 \in Nat
  BY XattrAssumption
<1>3. T \subseteq Nat
  BY <1>2
<1>4. PICK m \in T : \A k \in T : m <= k
  BY <1>1, <1>3, Least
<1>5. PICK b \in Nat : EntriesUnder[m][b] \notin Seq(AllEntries)
  BY <1>4
<1>6. m \in 0 .. MaxNodeDepth + 1
  BY <1>4
<1>7. <<Missing>> \in Seq(AllEntries)
  BY DEF AllEntries
<1>8. m # 0 /\ Readable(b)
  BY <1>5, <1>6, <1>7, UnderBlock
<1>9. m - 1 \in 0 .. MaxNodeDepth + 1 /\ m - 1 \notin T
  <2>1. m - 1 \in 0 .. MaxNodeDepth + 1 /\ ~(m <= m - 1)
    BY <1>2, <1>6, <1>8
  <2> HIDE DEF T
  <2>2. QED
    BY <1>4, <2>1
<1>10. \A c \in Nat : EntriesUnder[m - 1][c] \in Seq(AllEntries)
  BY <1>9
<1>11. EntriesOf(b, EntriesUnder[m - 1]) \in Seq(AllEntries)
  <2>1. CASE Block(b).kind = "node"
    <3> DEFINE s == [i \in DOMAIN Block(b).children |-> EntriesUnder[m - 1][Block(b).children[i]]]
    <3>1. Block(b).children \in Seq(Nat)
      BY <1>8, <2>1, BlocksTyped
    <3>2. s \in Seq(Seq(AllEntries))
      <4> DEFINE n == Len(Block(b).children)
      <4>1. n \in Nat /\ DOMAIN Block(b).children = 1 .. n
        BY <3>1, LenProperties
      <4>2. \A i \in 1 .. n : Block(b).children[i] \in Nat
        BY <3>1, ElementOfSeq
      <4>3. \A i \in 1 .. n : EntriesUnder[m - 1][Block(b).children[i]] \in Seq(AllEntries)
        BY <1>10, <4>2
      <4>4. s = [i \in 1 .. n |-> EntriesUnder[m - 1][Block(b).children[i]]]
        BY <4>1
      <4> HIDE DEF n, s
      <4>5. QED
        BY <4>1, <4>3, <4>4
    <3>3. EntriesOf(b, EntriesUnder[m - 1]) = FlattenSeq(s)
      BY <2>1 DEF EntriesOf
    <3> HIDE DEF s
    <3>4. QED
      BY <3>2, <3>3, Flattening
  <2>2. CASE Block(b).kind # "node"
    BY <1>7, <1>8, <2>2, BlocksTyped DEF EntriesOf
  <2>3. QED
    BY <2>1, <2>2
<1>12. QED
  BY <1>5, <1>6, <1>8, <1>11, UnderBlock

-------------------------------------------------------------------------------
(* Values *)

LEMMA SegmentTyped ==
  ASSUME fork \in Forks, NEW b, Readable(b)
  PROVE  Segment(b) \in Seq(Bytes)
<1>1. Physical(b) \in DOMAIN fork.blocks
  BY DEF Readable
<1>2. CASE Block(b).kind = "value"
  <2>1. Block(b).size \in Nat /\ Block(b).offset \in Nat
    BY <1>2, BlocksTyped
  <2>2. Segment(b) = [i \in 1 .. Block(b).size |-> <<Physical(b), Block(b).offset + i>>]
    BY <1>2 DEF Segment
  <2>3. \A i \in 1 .. Block(b).size : <<Physical(b), Block(b).offset + i>> \in Bytes
    <3>1. TAKE i \in 1 .. Block(b).size
    <3>2. Block(b).offset + i \in Nat
      BY <2>1
    <3>3. QED
      BY <1>1, <3>2 DEF Bytes
  <2>4. QED
    BY <2>1, <2>2, <2>3
<1>3. CASE Block(b).kind # "value"
  <2>1. Segment(b) = [i \in 1 .. BlockSize |-> <<Physical(b), 0 + i>>]
    BY <1>3 DEF Segment
  <2>2. \A i \in 1 .. BlockSize : <<Physical(b), 0 + i>> \in Bytes
    <3>1. TAKE i \in 1 .. BlockSize
    <3>2. 0 + i \in Nat
      BY XattrAssumption
    <3>3. QED
      BY <1>1, <3>2 DEF Bytes
  <2>3. QED
    BY <2>1, <2>2, XattrAssumption
<1>4. QED
  BY <1>2, <1>3

LEMMA Within == ASSUME NEW b \in Nat, b < BlockModulus PROVE (b + 0) % BlockModulus = b
<1>1. PICK m \in Nat \ {0} : m = BlockModulus
  BY XattrAssumption
<1>2. b = 0 * m + b /\ b + 0 = b
  OBVIOUS
<1>3. b % m = b
  BY <1>1, <1>2, DivModUnique
<1>4. QED
  BY <1>1, <1>2, <1>3

\* The number of a block after another is the next, or 0.
LEMMA NextAt ==
  ASSUME NEW a \in Nat, NEW n \in Nat
  PROVE  (BlockAt(a, n) + 1) % BlockModulus = BlockAt(a, n + 1)
<1>1. PICK m \in Nat \ {0} : m = BlockModulus
  BY XattrAssumption
<1>2. PICK x \in Nat : x = a + n
  OBVIOUS
<1>3. PICK q \in Int, r \in 0 .. m - 1 : x = q * m + r /\ r = x % m
  <2>1. x \div m \in Int /\ x % m \in 0 .. m - 1 /\ x = (x \div m) * m + (x % m)
    BY DivMod
  <2>2. QED
    BY <2>1
<1>4. (r + 1) % m = (x + 1) % m
  <2>1. CASE r + 1 < m
    <3>1. PICK s \in 0 .. m - 1 : s = r + 1
      BY <2>1
    <3>2. (q * m + s) % m = s /\ (0 * m + s) % m = s
      BY DivModUnique
    <3>3. x + 1 = q * m + s /\ 0 * m + s = s
      BY <1>3, <3>1
    <3>4. QED
      BY <3>1, <3>2, <3>3
  <2>2. CASE ~(r + 1 < m)
    <3>1. r + 1 = m
      BY <1>3, <2>2
    <3>2. PICK p \in Int : p = q + 1
      BY <1>3
    <3>3. (p * m + 0) % m = 0 /\ (1 * m + 0) % m = 0
      <4>1. 0 \in 0 .. m - 1 /\ 1 \in Int
        OBVIOUS
      <4>2. QED
        BY <4>1, DivModUnique
    <3>4. p * m = q * m + m
      BY <3>2
    <3>5. x + 1 = p * m + 0 /\ m = 1 * m + 0
      <4>1. PICK w \in Int, v \in Int : w = q * m /\ v = p * m
        BY <1>3, <3>2
      <4>2. x = w + r /\ v = w + m
        BY <1>3, <3>4, <4>1
      <4>3. x + 1 = v + 0
        BY <1>3, <3>1, <4>1, <4>2
      <4>4. m = 1 * m + 0
        OBVIOUS
      <4>5. QED
        BY <4>1, <4>3, <4>4
    <3>6. QED
      BY <3>1, <3>3, <3>5
  <2>3. QED
    BY <2>1, <2>2
<1>5. x + 1 = a + (n + 1)
  BY <1>2
<1>6. QED
  BY <1>1, <1>2, <1>3, <1>4, <1>5 DEF BlockAt

\* The first n blocks of a value give bytes.
Giving(start, n) == \A i \in 1 .. n : Gives(BlockAt(start, i - 1))

LEMMA NoSegments == ASSUME NEW start PROVE Segments(start, 0) = <<>>
<1>1. [i \in 1 .. 0 |-> Segment(BlockAt(start, i - 1))] = <<>>
  OBVIOUS
<1>2. Len(<<>>) = 0
  BY EmptySeq
<1>3. FlattenSeq(<<>>) = <<>>
  BY <1>2, FlattenNothing
<1>4. QED
  BY <1>1, <1>3 DEF Segments

LEMMA SegmentsTyped ==
  ASSUME fork \in Forks, NEW start, NEW n \in Nat, Giving(start, n)
  PROVE  /\ [i \in 1 .. n |-> Segment(BlockAt(start, i - 1))] \in Seq(Seq(Bytes))
         /\ Segments(start, n) \in Seq(Bytes)
<1> DEFINE s == [i \in 1 .. n |-> Segment(BlockAt(start, i - 1))]
<1>1. \A i \in 1 .. n : Segment(BlockAt(start, i - 1)) \in Seq(Bytes)
  BY SegmentTyped DEF Giving, Gives
<1>2. s \in Seq(Seq(Bytes))
  BY <1>1
<1>3. Segments(start, n) = FlattenSeq(s)
  BY DEF Segments
<1> HIDE DEF s
<1>4. Segments(start, n) \in Seq(Bytes)
  BY <1>2, <1>3, Flattening
<1>5. QED
  BY <1>2, <1>4 DEF s

\* A block that is read adds its segment, which is not empty.
LEMMA SegmentsGrow ==
  ASSUME fork \in Forks, NEW start \in Nat, NEW n \in Nat, Giving(start, n), Gives(BlockAt(start, n))
  PROVE  /\ Giving(start, n + 1)
         /\ Segment(BlockAt(start, n)) \in Seq(Bytes) /\ Segment(BlockAt(start, n)) # <<>>
         /\ Segments(start, n + 1) = Segments(start, n) \o Segment(BlockAt(start, n))
<1> DEFINE s == [i \in 1 .. n |-> Segment(BlockAt(start, i - 1))]
           t == [i \in 1 .. n + 1 |-> Segment(BlockAt(start, i - 1))]
           x == Segment(BlockAt(start, n))
<1>1. x \in Seq(Bytes) /\ x # <<>>
  BY SegmentTyped DEF Gives
<1>2. s \in Seq(Seq(Bytes))
  BY SegmentsTyped
<1>3. Giving(start, n + 1)
  <2>1. ASSUME NEW i \in 1 .. n + 1 PROVE Gives(BlockAt(start, i - 1))
    <3>1. CASE i \in 1 .. n
      BY <3>1 DEF Giving
    <3>2. CASE i = n + 1
      <4>1. i - 1 = n
        BY <3>2
      <4>2. QED
        BY <4>1
    <3>3. QED
      BY <3>1, <3>2
  <2>2. QED
    BY <2>1 DEF Giving
<1>4. t \in Seq(Seq(Bytes))
  <2>1. n + 1 \in Nat
    OBVIOUS
  <2>2. QED
    BY <1>3, <2>1, SegmentsTyped
<1>5. Len(t) = n + 1 /\ Len(s) = n /\ (\A i \in 1 .. n : t[i] = s[i]) /\ t[n + 1] = x
  <2>1. (n + 1) - 1 = n /\ n + 1 \in 1 .. n + 1
    OBVIOUS
  <2>2. QED
    BY <2>1
<1>6. Segments(start, n) = FlattenSeq(s) /\ Segments(start, n + 1) = FlattenSeq(t)
  BY DEF Segments
<1> HIDE DEF s, t, x
<1>7. t = Append(s, x)
  <2> DEFINE u == Append(s, x)
  <2>1. u \in Seq(Seq(Bytes)) /\ Len(u) = n + 1 /\ (\A i \in 1 .. n : u[i] = s[i]) /\ u[n + 1] = x
    BY <1>1, <1>2, <1>5, AppendProperties
  <2> HIDE DEF u
  <2>2. Len(t) = Len(u) /\ \A i \in 1 .. Len(t) : t[i] = u[i]
    BY <1>5, <2>1
  <2>3. QED
    BY <1>4, <2>1, <2>2, SeqEqual DEF u
<1>8. QED
  BY <1>1, <1>2, <1>3, <1>6, <1>7, FlattenOneMore DEF x

LEMMA SegmentsExtend ==
  ASSUME fork \in Forks, NEW start \in Nat, NEW n \in Nat, NEW m \in Nat, n <= m, Giving(start, m)
  PROVE  /\ Giving(start, n) /\ Segments(start, n) \in Seq(Bytes) /\ Segments(start, m) \in Seq(Bytes)
         /\ Len(Segments(start, n)) + (m - n) <= Len(Segments(start, m))
         /\ \A k \in 1 .. Len(Segments(start, n)) : Segments(start, m)[k] = Segments(start, n)[k]
<1>1. \A l \in 0 .. m : Giving(start, l) /\ Segments(start, l) \in Seq(Bytes) /\ Len(Segments(start, l)) \in Nat
  <2>1. ASSUME NEW l \in 0 .. m PROVE Giving(start, l)
    BY <2>1 DEF Giving
  <2>2. ASSUME NEW l \in 0 .. m PROVE Segments(start, l) \in Seq(Bytes) /\ Len(Segments(start, l)) \in Nat
    BY <2>1, SegmentsTyped
  <2>3. QED
    BY <2>1, <2>2
<1> DEFINE a == Segments(start, n)
           Fits(l) == /\ Len(a) + (l - n) <= Len(Segments(start, l))
                      /\ \A k \in 1 .. Len(a) : Segments(start, l)[k] = a[k]
           T == {l \in n .. m : ~Fits(l)}
<1>2. T = {}
  <2>1. SUFFICES ASSUME T # {} PROVE FALSE
    OBVIOUS
  <2>2. T \subseteq Nat
    OBVIOUS
  <2>3. PICK l \in T : \A k \in T : l <= k
    BY <2>1, <2>2, Least
  <2>4. l \in n .. m /\ ~Fits(l)
    BY <2>3
  <2>5. n \in 0 .. m
    OBVIOUS
  <2>6. l # n
    BY <1>1, <2>4, <2>5
  <2>7. l - 1 \in n .. m /\ l - 1 \notin T /\ l - 1 \in 0 .. m /\ l \in 0 .. m /\ l - 1 \in Nat
    <3>1. l - 1 \in n .. m /\ ~(l <= l - 1) /\ l - 1 \in 0 .. m /\ l \in 0 .. m
      BY <2>4, <2>6
    <3> HIDE DEF T
    <3>2. QED
      BY <2>3, <3>1
  <2>8. Fits(l - 1)
    BY <2>7
  <2> DEFINE b == Segments(start, l - 1)
             x == Segment(BlockAt(start, l - 1))
             c == Segments(start, l)
  <2>9. x \in Seq(Bytes) /\ x # <<>> /\ c = b \o x
    <3>1. Giving(start, l - 1) /\ (l - 1) + 1 = l
      BY <1>1, <2>7
    <3>2. Gives(BlockAt(start, l - 1))
      <4>1. l \in 1 .. l
        BY <2>4, <2>6
      <4>2. Giving(start, l)
        BY <1>1, <2>7
      <4>3. QED
        BY <4>1, <4>2 DEF Giving
    <3>3. QED
      BY <2>7, <3>1, <3>2, SegmentsGrow
  <2>10. b \in Seq(Bytes) /\ Len(b) \in Nat /\ Len(a) \in Nat
    BY <1>1, <2>5, <2>7
  <2>11. Len(a) + ((l - 1) - n) <= Len(b) /\ \A k \in 1 .. Len(a) : b[k] = a[k]
    BY <2>8
  <2> HIDE DEF a, b, c, x
  <2>12. Len(x) \in Nat \ {0}
    BY <2>9, EmptySeq
  <2>13. Len(c) = Len(b) + Len(x) /\ \A k \in 1 .. Len(b) + Len(x) : c[k] = IF k <= Len(b) THEN b[k] ELSE x[k - Len(b)]
    BY <2>9, <2>10, ConcatProperties
  <2>14. Len(a) + (l - n) <= Len(c)
    BY <2>4, <2>10, <2>11, <2>12, <2>13
  <2>15. Len(a) <= Len(b)
    BY <2>4, <2>6, <2>10, <2>11
  <2>16. ASSUME NEW k \in 1 .. Len(a) PROVE c[k] = a[k]
    <3>1. k \in 1 .. Len(b) + Len(x) /\ k <= Len(b)
      BY <2>10, <2>12, <2>15, <2>16
    <3>2. QED
      BY <2>11, <2>13, <3>1
  <2>17. QED
    BY <2>4, <2>14, <2>16 DEF a, c
<1>3. m \in n .. m /\ n \in 0 .. m /\ m \in 0 .. m
  OBVIOUS
<1> HIDE DEF Fits
<1>4. Fits(m)
  BY <1>2, <1>3
<1>5. QED
  BY <1>1, <1>3, <1>4 DEF Fits

LEMMA ValueRead ==
  ASSUME fork \in Forks, NEW e, "start" \in DOMAIN e, e.start \in Nat, e.size \in Nat \ {0},
         NEW n \in 1 .. e.size, Giving(e.start, n), Len(Segments(e.start, n)) >= e.size
  PROVE  Enough(e) # {} /\ Value(e) = SubSeq(Segments(e.start, n), 1, e.size)
<1> DEFINE a == Segments(e.start, n)
           m == BlocksOf(e)
           b == Segments(e.start, m)
<1>1. n \in Enough(e)
  BY DEF Enough, Giving
<1>2. m \in 1 .. e.size /\ Giving(e.start, m) /\ Len(b) >= e.size
  BY <1>1 DEF BlocksOf, Enough, Giving
<1>3. a \in Seq(Bytes) /\ b \in Seq(Bytes) /\ Len(a) \in Nat /\ Len(b) \in Nat
  <2>1. n \in Nat /\ m \in Nat
    BY <1>2
  <2>2. a \in Seq(Bytes) /\ b \in Seq(Bytes)
    BY <1>2, <2>1, SegmentsTyped
  <2> HIDE DEF a, b
  <2>3. QED
    BY <2>2
<1>4. \A k \in 1 .. e.size : a[k] = b[k]
  <2>1. CASE n <= m
    <3>1. n \in Nat /\ m \in Nat
      BY <1>2
    <3>2. \A k \in 1 .. Len(a) : b[k] = a[k]
      BY <1>2, <2>1, <3>1, SegmentsExtend
    <3> HIDE DEF a, b
    <3>3. QED
      BY <1>3, <3>2 DEF a
  <2>2. CASE m <= n
    <3>1. n \in Nat /\ m \in Nat
      BY <1>2
    <3>2. \A k \in 1 .. Len(b) : a[k] = b[k]
      BY <1>2, <2>2, <3>1, SegmentsExtend
    <3> HIDE DEF a, b
    <3>3. QED
      BY <1>2, <1>3, <3>2 DEF b
  <2>3. m \in Nat /\ n \in Nat
    BY <1>2
  <2> HIDE DEF m
  <2>4. QED
    BY <2>1, <2>2, <2>3
<1>5. Len(a) >= e.size
  OBVIOUS
<1> DEFINE x == SubSeq(a, 1, e.size)
           y == SubSeq(b, 1, e.size)
<1>6. /\ x \in Seq(Bytes) /\ Len(x) = e.size /\ \A k \in 1 .. e.size : x[k] = a[k]
      /\ y \in Seq(Bytes) /\ Len(y) = e.size /\ \A k \in 1 .. e.size : y[k] = b[k]
  <2>1. \A k \in 1 .. e.size : a[k] \in Bytes /\ b[k] \in Bytes
    <3> HIDE DEF a, b
    <3>1. TAKE k \in 1 .. e.size
    <3>2. k \in 1 .. Len(a) /\ k \in 1 .. Len(b)
      BY <1>2, <1>3, <1>5
    <3>3. QED
      BY <1>3, <3>2, ElementOfSeq
  <2> HIDE DEF a, b
  <2>2. e.size \in Int /\ 1 \in Int /\ 1 <= e.size /\ e.size - 1 + 1 = e.size
    OBVIOUS
  <2>3. x \in Seq(Bytes) /\ Len(x) = e.size /\ \A k \in 1 .. e.size : x[k] = a[1 + k - 1]
    BY <2>1, <2>2, SubSeqProperties
  <2>4. y \in Seq(Bytes) /\ Len(y) = e.size /\ \A k \in 1 .. e.size : y[k] = b[1 + k - 1]
    BY <2>1, <2>2, SubSeqProperties
  <2>5. \A k \in 1 .. e.size : 1 + k - 1 = k
    OBVIOUS
  <2> HIDE DEF x, y
  <2>6. QED
    BY <2>3, <2>4, <2>5
<1>7. Value(e) = y
  BY DEF Value
<1> HIDE DEF x, y, a, b, m
<1>8. x = y
  BY <1>4, <1>6, SeqEqual
<1>9. QED
  BY <1>1, <1>7, <1>8 DEF x, a

LEMMA ValueMissing ==
  ASSUME fork \in Forks, NEW e, e.start \in Nat, e.size \in Nat,
         NEW n \in Nat, Giving(e.start, n), Len(Segments(e.start, n)) < e.size, ~Gives(BlockAt(e.start, n))
  PROVE  Enough(e) = {}
<1>1. SUFFICES ASSUME NEW m \in Enough(e) PROVE FALSE
  OBVIOUS
<1>2. m \in 1 .. e.size /\ Giving(e.start, m) /\ Len(Segments(e.start, m)) >= e.size
  BY DEF Enough, Giving
<1>3. m \in Nat
  BY <1>2
<1>4. m <= n
  <2>1. SUFFICES ASSUME n < m PROVE FALSE
    BY <1>3
  <2>2. n + 1 \in 1 .. m /\ (n + 1) - 1 = n
    BY <1>3, <2>1
  <2>3. Gives(BlockAt(e.start, (n + 1) - 1))
    BY <1>2, <2>2 DEF Giving
  <2>4. QED
    BY <2>2, <2>3
<1>5. /\ Segments(e.start, m) \in Seq(Bytes) /\ Segments(e.start, n) \in Seq(Bytes)
      /\ Len(Segments(e.start, m)) + (n - m) <= Len(Segments(e.start, n))
  BY <1>3, <1>4, SegmentsExtend
<1>6. PICK p, q \in Nat : p = Len(Segments(e.start, m)) /\ q = Len(Segments(e.start, n))
  BY <1>5
<1>7. p + (n - m) <= q /\ p >= e.size /\ q < e.size
  BY <1>2, <1>5, <1>6
<1>8. QED
  BY <1>3, <1>4, <1>7

-------------------------------------------------------------------------------
(* What the stack still stands for *)

Frames == [rest : Seq(Nat), depth : 0 .. MaxNodeDepth + 1]

Lists(frame) ==
  [i \in DOMAIN frame.rest |-> EntriesUnder[MaxNodeDepth + 1 - frame.depth][frame.rest[i]]]

Pending(s) == FlattenSeq([i \in 1 .. Len(s) |-> FlattenSeq(Lists(s[Len(s) + 1 - i]))])

LEMMA LevelsLeft ==
  ASSUME NEW d \in 0 .. MaxNodeDepth + 1
  PROVE  MaxNodeDepth + 1 - d \in 0 .. MaxNodeDepth + 1
BY XattrAssumption

LEMMA ListsTyped ==
  ASSUME fork \in Forks, NEW frame \in Frames
  PROVE  /\ Lists(frame) \in Seq(Seq(AllEntries)) /\ Len(Lists(frame)) = Len(frame.rest)
         /\ \A i \in 1 .. Len(frame.rest) :
              Lists(frame)[i] = EntriesUnder[MaxNodeDepth + 1 - frame.depth][frame.rest[i]]
         /\ FlattenSeq(Lists(frame)) \in Seq(AllEntries)
<1> DEFINE s == Lists(frame)
           n == Len(frame.rest)
           k == MaxNodeDepth + 1 - frame.depth
<1>1. frame.rest \in Seq(Nat) /\ n \in Nat /\ DOMAIN frame.rest = 1 .. n /\ k \in 0 .. MaxNodeDepth + 1
  BY LevelsLeft, LenProperties DEF Frames
<1>2. \A i \in 1 .. n : EntriesUnder[k][frame.rest[i]] \in Seq(AllEntries)
  BY <1>1, UnderTyped, ElementOfSeq
<1>3. s = [i \in 1 .. n |-> EntriesUnder[k][frame.rest[i]]]
  BY <1>1 DEF Lists
<1> HIDE DEF s, n, k
<1>4. s \in Seq(Seq(AllEntries)) /\ Len(s) = n
  BY <1>1, <1>2, <1>3
<1>5. FlattenSeq(s) \in Seq(AllEntries)
  BY <1>4, Flattening
<1>6. \A i \in 1 .. n : s[i] = EntriesUnder[k][frame.rest[i]]
  BY <1>3
<1>7. QED
  BY <1>4, <1>5, <1>6 DEF s, n, k

LEMMA ListsFirst ==
  ASSUME fork \in Forks, NEW frame \in Frames, frame.rest # <<>>
  PROVE  LET k == MaxNodeDepth + 1 - frame.depth
             less == Frame(Tail(frame.rest), frame.depth)
         IN  /\ less \in Frames /\ Head(frame.rest) \in Nat /\ k \in 0 .. MaxNodeDepth + 1
             /\ EntriesUnder[k][Head(frame.rest)] \in Seq(AllEntries)
             /\ FlattenSeq(Lists(frame)) = EntriesUnder[k][Head(frame.rest)] \o FlattenSeq(Lists(less))
<1> DEFINE k == MaxNodeDepth + 1 - frame.depth
           less == Frame(Tail(frame.rest), frame.depth)
           x == EntriesUnder[k][Head(frame.rest)]
           n == Len(Tail(frame.rest))
<1>1. frame.rest \in Seq(Nat) /\ frame.depth \in 0 .. MaxNodeDepth + 1
  BY DEF Frames
<1>2. /\ Head(frame.rest) \in Nat /\ Head(frame.rest) = frame.rest[1] /\ Tail(frame.rest) \in Seq(Nat)
      /\ n \in Nat /\ Len(frame.rest) = n + 1
      /\ \A i \in 1 .. n : Tail(frame.rest)[i] = frame.rest[i + 1]
  <2>1. Len(frame.rest) \in Nat \ {0}
    BY <1>1, EmptySeq
  <2>2. Head(frame.rest) = frame.rest[1]
    BY <1>1
  <2>3. QED
    BY <1>1, <2>1, <2>2, HeadTailProperties
<1>3. less \in Frames /\ less.rest = Tail(frame.rest) /\ less.depth = frame.depth
  BY <1>1, <1>2 DEF Frames, Frame
<1>4. k \in 0 .. MaxNodeDepth + 1
  BY <1>1, LevelsLeft
<1>5. x \in Seq(AllEntries)
  BY <1>2, <1>4, UnderTyped
<1> DEFINE t == Lists(frame)
           s == Lists(less)
<1>6. /\ t \in Seq(Seq(AllEntries)) /\ Len(t) = n + 1
      /\ \A i \in 1 .. n + 1 : t[i] = EntriesUnder[k][frame.rest[i]]
  BY <1>2, ListsTyped
<1>7. /\ s \in Seq(Seq(AllEntries)) /\ Len(s) = n
      /\ \A i \in 1 .. n : s[i] = EntriesUnder[k][Tail(frame.rest)[i]]
  BY <1>3, ListsTyped
<1> HIDE DEF k, less, n, t, s
<1>8. t[1] = x /\ \A i \in 1 .. n : t[i + 1] = s[i]
  <2>1. 1 \in 1 .. n + 1 /\ \A i \in 1 .. n : i + 1 \in 1 .. n + 1
    BY <1>2
  <2>2. t[1] = x
    <3>1. t[1] = EntriesUnder[k][frame.rest[1]]
      BY <1>6, <2>1
    <3>2. QED
      BY <1>2, <3>1
  <2>3. \A i \in 1 .. n : t[i + 1] = s[i]
    <3>1. TAKE i \in 1 .. n
    <3>2. t[i + 1] = EntriesUnder[k][frame.rest[i + 1]] /\ s[i] = EntriesUnder[k][Tail(frame.rest)[i]]
      BY <1>6, <1>7, <2>1
    <3>3. Tail(frame.rest)[i] = frame.rest[i + 1]
      BY <1>2
    <3>4. QED
      BY <3>2, <3>3
  <2>4. QED
    BY <2>2, <2>3
<1> HIDE DEF x
<1>9. FlattenSeq(t) = x \o FlattenSeq(s)
  <2>1. InFront(x, s, t)
    BY <1>6, <1>7, <1>8 DEF InFront
  <2>2. QED
    BY <1>5, <1>6, <1>7, <1>8, <2>1, FlattenInFront
<1>10. QED
  BY <1>2, <1>3, <1>4, <1>5, <1>9 DEF k, less, t, s, x

LEMMA PendingNothing == Pending(<<>>) = <<>>
<1>1. Len(<<>>) = 0
  BY EmptySeq
<1>2. [i \in 1 .. 0 |-> FlattenSeq(Lists(<<>>[0 + 1 - i]))] = <<>>
  OBVIOUS
<1>3. FlattenSeq(<<>>) = <<>>
  BY <1>1, FlattenNothing
<1>4. QED
  BY <1>1, <1>2, <1>3 DEF Pending

LEMMA PendingTyped ==
  ASSUME fork \in Forks, NEW s \in Seq(Frames)
  PROVE  /\ [i \in 1 .. Len(s) |-> FlattenSeq(Lists(s[Len(s) + 1 - i]))] \in Seq(Seq(AllEntries))
         /\ Pending(s) \in Seq(AllEntries)
<1> DEFINE n == Len(s)
           t == [i \in 1 .. n |-> FlattenSeq(Lists(s[n + 1 - i]))]
<1>1. n \in Nat
  OBVIOUS
<1>2. \A i \in 1 .. n : FlattenSeq(Lists(s[n + 1 - i])) \in Seq(AllEntries)
  <2>1. TAKE i \in 1 .. n
  <2>2. n + 1 - i \in 1 .. n
    BY <1>1
  <2>3. s[n + 1 - i] \in Frames
    BY <2>2, ElementOfSeq
  <2>4. QED
    BY <2>3, ListsTyped
<1> HIDE DEF n
<1>3. t \in Seq(Seq(AllEntries))
  BY <1>1, <1>2
<1> HIDE DEF t
<1>4. FlattenSeq(t) \in Seq(AllEntries)
  BY <1>3, Flattening
<1>5. QED
  BY <1>3, <1>4 DEF Pending, t, n

LEMMA PendingPush ==
  ASSUME fork \in Forks, NEW s \in Seq(Frames), NEW frame \in Frames
  PROVE  Pending(Append(s, frame)) = FlattenSeq(Lists(frame)) \o Pending(s)
<1> DEFINE n == Len(s)
           u == Append(s, frame)
           a == [i \in 1 .. n |-> FlattenSeq(Lists(s[n + 1 - i]))]
           b == [i \in 1 .. Len(u) |-> FlattenSeq(Lists(u[Len(u) + 1 - i]))]
           x == FlattenSeq(Lists(frame))
<1>1. n \in Nat /\ u \in Seq(Frames) /\ Len(u) = n + 1 /\ u[n + 1] = frame /\ \A i \in 1 .. n : u[i] = s[i]
  BY AppendProperties
<1>2. x \in Seq(AllEntries)
  BY ListsTyped
<1>3. a \in Seq(Seq(AllEntries)) /\ b \in Seq(Seq(AllEntries))
  BY <1>1, PendingTyped
<1> HIDE DEF u, n
<1>4. Len(a) = n /\ Len(b) = n + 1
  BY <1>1
<1>5. b[1] = x
  <2>1. 1 \in 1 .. Len(u) /\ Len(u) + 1 - 1 = n + 1
    BY <1>1
  <2>2. QED
    BY <1>1, <2>1
<1>6. \A i \in 1 .. n : b[i + 1] = a[i]
  <2>1. TAKE i \in 1 .. n
  <2>2. i + 1 \in 1 .. Len(u) /\ Len(u) + 1 - (i + 1) = n + 1 - i /\ n + 1 - i \in 1 .. n
    BY <1>1
  <2>3. b[i + 1] = FlattenSeq(Lists(u[n + 1 - i])) /\ a[i] = FlattenSeq(Lists(s[n + 1 - i]))
    BY <2>2
  <2> HIDE DEF a, b
  <2>4. QED
    BY <1>1, <2>2, <2>3
<1>7. Pending(u) = FlattenSeq(b) /\ Pending(s) = FlattenSeq(a)
  BY DEF Pending, n
<1> HIDE DEF a, b, x
<1>8. FlattenSeq(b) = x \o FlattenSeq(a)
  <2>1. InFront(x, a, b)
    BY <1>4, <1>5, <1>6 DEF InFront
  <2>2. QED
    BY <1>2, <1>3, <1>5, <2>1, FlattenInFront
<1>9. QED
  BY <1>7, <1>8 DEF u, x

-------------------------------------------------------------------------------
(* The listing so far *)

Given(list) == [i \in DOMAIN list |-> Attribute(list[i], Value(list[i]))]

\* The entries that are behind, all of them decodable, and those to come are the listing.
Progress ==
  \E given \in Seq(AllEntries) :
    /\ Whole(given) /\ attributes = Given(given)
    /\ Listing = given \o (entries \o Pending(stack))

\* The bytes of a value are those of its first blocks, as far as they have been read.
ValueSoFar ==
  /\ entries # <<>> /\ Remote /\ Supported(Entry)
  /\ \E n \in Nat :
       /\ Giving(Entry.start, n)
       /\ out = Segments(Entry.start, n) /\ currentBlock = BlockAt(Entry.start, n)
       /\ remaining = Entry.size - Len(out) /\ remaining > 0

XattrInv ==
  /\ fork \in Forks /\ stage \in {"open", "walk", "value", "done"}
  /\ stage = "open" => stack = <<>> /\ entries = <<>> /\ attributes = <<>>
  /\ stage \in {"walk", "value"} => stack \in Seq(Frames) /\ entries \in Seq(AllEntries) /\ Progress
  /\ stage = "value" => ValueSoFar
  /\ WholeOrError

LEMMA Stays ==
  ASSUME fork' = fork
  PROVE  /\ Listing' = Listing /\ Whole(Listing)' = Whole(Listing) /\ Blocks' = Blocks /\ AllEntries' = AllEntries
         /\ \A s : Pending(s)' = Pending(s)
         /\ \A l : Given(l)' = Given(l) /\ Whole(l)' = Whole(l)
         /\ \A a, n : Giving(a, n)' = Giving(a, n) /\ Segments(a, n)' = Segments(a, n)
<1>1. AllEntries' = AllEntries
  BY DEF AllEntries
<1>2. ASSUME NEW f PROVE Lists(f)' = Lists(f)
  BY ListingStays DEF Lists
<1>3. ASSUME NEW s PROVE Pending(s)' = Pending(s)
  BY <1>2 DEF Pending
<1>4. ASSUME NEW l PROVE Given(l)' = Given(l)
  BY ValuesStay DEF Given, Attribute
<1>5. ASSUME NEW l PROVE Whole(l)' = Whole(l)
  BY ValuesStay DEF Whole
<1>6. ASSUME NEW a, NEW n PROVE Segments(a, n)' = Segments(a, n)
  BY ReadingStays DEF Segments
<1>7. ASSUME NEW b PROVE Gives(b)' = Gives(b)
  BY ReadingStays DEF Gives
<1>8. ASSUME NEW a, NEW n PROVE Giving(a, n)' = Giving(a, n)
  BY <1>7 DEF Giving
<1>9. PICK l : l = Listing
  OBVIOUS
<1>10. Whole(Listing)' = Whole(Listing)
  BY <1>5, <1>9, ListingStays
<1>11. QED
  BY <1>1, <1>3, <1>4, <1>5, <1>6, <1>8, <1>10, ListingStays, ReadingStays

\* An entry that cannot be decoded, anywhere in the listing.
LEMMA NotWhole ==
  ASSUME NEW S, NEW a \in Seq(S), NEW b \in Seq(S), b # <<>>, ~Decodable(b[1])
  PROVE  ~Whole(a \o b)
<1>1. Len(b) \in Nat \ {0} /\ Len(a) \in Nat
  BY EmptySeq
<1> DEFINE k == Len(a) + 1
           c == a \o b
<1>2. k \in 1 .. Len(a) + Len(b) /\ ~(k <= Len(a)) /\ k - Len(a) = 1
  BY <1>1
<1>3. c \in Seq(S) /\ Len(c) = Len(a) + Len(b) /\ c[k] = b[k - Len(a)]
  BY <1>2, ConcatProperties
<1> HIDE DEF c, k
<1>4. k \in DOMAIN c /\ c[k] = b[1]
  BY <1>2, <1>3, LenProperties
<1>5. QED
  BY <1>4 DEF Whole, c

\* An entry that cannot be decoded, between what is given and what is to come.
LEMMA NotWholeAfter ==
  ASSUME NEW S, NEW a \in Seq(S), NEW h \in S, NEW t \in Seq(S), NEW p \in Seq(S), ~Decodable(h)
  PROVE  ~Whole(Append(a, h) \o (t \o p))
<1>1. PICK n \in Nat : n = Len(a)
  OBVIOUS
<1>2. PICK u \in Seq(S) : u = Append(a, h) /\ Len(u) = n + 1 /\ u[n + 1] = h
  BY <1>1, AppendProperties
<1>3. PICK v \in Seq(S) : v = t \o p
  BY ConcatProperties
<1>4. PICK m \in Nat : m = Len(v)
  OBVIOUS
<1>5. n + 1 \in 1 .. Len(u) + Len(v) /\ n + 1 <= Len(u)
  BY <1>2, <1>4
<1>6. (u \o v) \in Seq(S) /\ (u \o v)[n + 1] = h /\ Len(u \o v) = Len(u) + Len(v)
  BY <1>2, <1>5, ConcatProperties
<1>7. PICK w \in Seq(S) : w = u \o v /\ w[n + 1] = h /\ Len(w) = Len(u) + Len(v)
  BY <1>6
<1>8. n + 1 \in DOMAIN w
  BY <1>5, <1>7, LenProperties
<1>9. ~Whole(w)
  BY <1>7, <1>8 DEF Whole
<1>10. QED
  BY <1>2, <1>3, <1>7, <1>9

LEMMA GivenMore ==
  ASSUME NEW given \in Seq(AllEntries), NEW e \in AllEntries, Whole(given), Decodable(e)
  PROVE  /\ Append(given, e) \in Seq(AllEntries) /\ Whole(Append(given, e))
         /\ Given(Append(given, e)) = Append(Given(given), Attribute(e, Value(e)))
<1> DEFINE S == {Attribute(d, Value(d)) : d \in AllEntries}
           n == Len(given)
           t == Append(given, e)
           a == Given(given)
           x == Attribute(e, Value(e))
<1>1. /\ n \in Nat /\ DOMAIN given = 1 .. n /\ (\A i \in 1 .. n : given[i] \in AllEntries)
      /\ t \in Seq(AllEntries) /\ Len(t) = n + 1 /\ t[n + 1] = e /\ \A i \in 1 .. n : t[i] = given[i]
  BY LenProperties, ElementOfSeq, AppendProperties
<1>2. DOMAIN t = 1 .. n + 1
  BY <1>1, LenProperties
<1> HIDE DEF t, n
<1>3. Whole(t)
  <2>1. ASSUME NEW i \in 1 .. n + 1 PROVE Decodable(t[i])
    <3>1. i \in 1 .. n \/ i = n + 1
      BY <1>1
    <3>2. QED
      BY <1>1, <3>1 DEF Whole
  <2>2. QED
    BY <1>2, <2>1 DEF Whole
<1>4. a = [i \in 1 .. n |-> Attribute(given[i], Value(given[i]))]
  BY <1>1 DEF Given
<1>5. Given(t) = [i \in 1 .. n + 1 |-> Attribute(t[i], Value(t[i]))]
  BY <1>2 DEF Given
<1>6. x \in S /\ \A i \in 1 .. n : Attribute(given[i], Value(given[i])) \in S
  BY <1>1
<1>7. \A i \in 1 .. n + 1 : Attribute(t[i], Value(t[i])) \in S
  <2>1. ASSUME NEW i \in 1 .. n + 1 PROVE t[i] \in AllEntries
    BY <1>1, <1>2, <2>1
  <2>2. QED
    BY <2>1
<1> HIDE DEF S, a, x
<1>8. a \in Seq(S) /\ Len(a) = n /\ Given(t) \in Seq(S) /\ Len(Given(t)) = n + 1
  BY <1>1, <1>4, <1>5, <1>6, <1>7
<1> DEFINE u == Append(a, x)
<1>9. u \in Seq(S) /\ Len(u) = n + 1 /\ u[n + 1] = x /\ \A i \in 1 .. n : u[i] = a[i]
  BY <1>6, <1>8, AppendProperties
<1> HIDE DEF u
<1>10. \A i \in 1 .. n + 1 : Given(t)[i] = u[i]
  <2>1. TAKE i \in 1 .. n + 1
  <2>2. Given(t)[i] = Attribute(t[i], Value(t[i]))
    BY <1>5
  <2>3. CASE i \in 1 .. n
    BY <1>1, <1>4, <1>9, <2>2, <2>3
  <2>4. CASE i = n + 1
    BY <1>1, <1>9, <2>2, <2>4 DEF x
  <2>5. QED
    BY <1>1, <2>3, <2>4
<1>11. Given(t) = u
  BY <1>8, <1>9, <1>10, SeqEqual
<1>12. QED
  BY <1>1, <1>3, <1>11 DEF t, u, a, x

LEMMA GivenNothing == Given(<<>>) = <<>> /\ Whole(<<>>)
BY DEF Given, Whole

LEMMA MissingIsNot == ~Decodable(Missing) /\ Missing \in AllEntries
<1>1. Missing.flags = {"missing"}
  BY DEF Missing
<1>2. DOMAIN Namespaces = {{}, {"root"}, {"secure"}}
  BY DEF Namespaces
<1>3. {"missing"} \notin {{}, {"root"}, {"secure"}}
  OBVIOUS
<1>4. QED
  BY <1>1, <1>2, <1>3 DEF Decodable, Supported, AllEntries

LEMMA ListsNothing ==
  ASSUME fork \in Forks, NEW frame \in Frames, frame.rest = <<>>
  PROVE  FlattenSeq(Lists(frame)) = <<>>
<1>1. Len(<<>>) = 0
  BY EmptySeq
<1>2. Len(Lists(frame)) = 0 /\ Lists(frame) \in Seq(Seq(AllEntries))
  BY <1>1, ListsTyped
<1>3. Lists(frame) = <<>>
  BY <1>2, EmptySeq
<1>4. QED
  BY <1>1, <1>3, FlattenNothing

\* The next block of the top of the stack, and the rest.
LEMMA TopPending ==
  ASSUME fork \in Forks, stack \in Seq(Frames), stack # <<>>, Top.rest # <<>>
  PROVE  LET k == MaxNodeDepth + 1 - Top.depth
             x == EntriesUnder[k][Child]
         IN  /\ Top.depth \in 0 .. MaxNodeDepth + 1 /\ k \in 0 .. MaxNodeDepth + 1 /\ Child \in Nat
             /\ x \in Seq(AllEntries) /\ Advanced \in Seq(Frames)
             /\ Pending(Advanced) \in Seq(AllEntries)
             /\ Pending(stack) = x \o Pending(Advanced)
<1> DEFINE k == MaxNodeDepth + 1 - Top.depth
           x == EntriesUnder[k][Child]
           f == Front(stack)
           less == Frame(Tail(Top.rest), Top.depth)
           l == FlattenSeq(Lists(less))
           p == Pending(f)
<1>1. Top \in Frames /\ f \in Seq(Frames) /\ stack = Append(f, Top)
  BY TopOf DEF Top
<1>2. /\ less \in Frames /\ Child \in Nat /\ k \in 0 .. MaxNodeDepth + 1 /\ x \in Seq(AllEntries)
      /\ FlattenSeq(Lists(Top)) = x \o l
  BY <1>1, ListsFirst DEF Child
<1>3. Advanced = Append(f, less)
  BY DEF Advanced
<1> HIDE DEF less, x, k, f
<1>4. Pending(stack) = (x \o l) \o p /\ Pending(Advanced) = l \o p
  BY <1>1, <1>2, <1>3, PendingPush
<1>5. l \in Seq(AllEntries) /\ p \in Seq(AllEntries) /\ Advanced \in Seq(Frames)
  <2>1. l \in Seq(AllEntries)
    BY <1>2, ListsTyped
  <2>2. p \in Seq(AllEntries)
    BY <1>1, PendingTyped
  <2>3. Advanced \in Seq(Frames)
    BY <1>1, <1>2, <1>3, AppendProperties
  <2>4. QED
    BY <2>1, <2>2, <2>3
<1> HIDE DEF l, p
<1>6. (x \o l) \o p = x \o (l \o p) /\ l \o p \in Seq(AllEntries)
  BY <1>2, <1>5, ConcatAssociative, ConcatProperties
<1>7. Top.depth \in 0 .. MaxNodeDepth + 1
  BY <1>1 DEF Frames
<1>8. QED
  BY <1>2, <1>4, <1>5, <1>6, <1>7 DEF x, k

-------------------------------------------------------------------------------
(* Steps *)

LEMMA FailsRightly ==
  ASSUME XattrInv, Fails, Blocks => ~Whole(Listing)
  PROVE  XattrInv'
BY Stays DEF XattrInv, Fails, WholeOrError

LEMMA NotInBlocks ==
  ASSUME XattrInv, stage' = "done", fork' = fork, ~Blocks
  PROVE  XattrInv'
BY Stays DEF XattrInv, WholeOrError

LEMMA GoesOn ==
  ASSUME XattrInv, fork' = fork, stage' = "walk", NEW s \in Seq(Frames), stack' = s,
         NEW e \in Seq(AllEntries), entries' = e, NEW given \in Seq(AllEntries),
         Whole(given), attributes' = Given(given), Listing = given \o (e \o Pending(s))
  PROVE  XattrInv'
<1>1. Progress'
  BY Stays DEF Progress
<1>2. QED
  BY <1>1, Stays DEF XattrInv, WholeOrError

LEMMA OpenRight == ASSUME XattrInv, Open PROVE XattrInv'
<1>1. stage = "open" /\ stack = <<>> /\ entries = <<>> /\ attributes = <<>> /\ fork \in Forks /\ fork' = fork
  BY DEF XattrInv, Open, Fails, Returns
<1>2. CASE ~Blocks
  <2>1. CASE stage' = "done"
    BY <1>1, <1>2, <2>1, NotInBlocks
  <2>2. CASE stage' # "done"
    BY <1>1, <1>2, <2>2, ForkAssumption DEF Blocks, Open, Fails, Returns
  <2>3. QED
    BY <2>1, <2>2
<1>3. CASE stage' = "walk" /\ stack' = <<Frame(<<0>>, 0)>> /\ UNCHANGED <<entries, attributes>>
  <2> DEFINE frame == Frame(<<0>>, 0)
             less == Frame(Tail(frame.rest), frame.depth)
             x == EntriesUnder[MaxNodeDepth + 1 - frame.depth][Head(frame.rest)]
             e == <<>>
  <2>1. e \in Seq(Frames) /\ e \in Seq(AllEntries) /\ e \in Seq(Nat)
    BY EmptySeq
  <2>2. frame.rest = <<0>> /\ frame.depth = 0 /\ frame \in Frames /\ frame.rest # <<>>
    BY XattrAssumption DEF Frames, Frame
  <2>3. Head(frame.rest) = 0 /\ Tail(frame.rest) = <<>>
    <3>1. <<0>> \in Seq(Nat) /\ <<0>> # <<>> /\ Len(<<0>>) = 1
      OBVIOUS
    <3>2. Tail(<<0>>) \in Seq(Nat) /\ Len(Tail(<<0>>)) = 0
      BY <3>1, HeadTailProperties
    <3>3. Tail(<<0>>) = <<>>
      BY <3>2, EmptySeq
    <3>4. Head(<<0>>) = 0
      OBVIOUS
    <3>5. QED
      BY <2>2, <3>3, <3>4
  <2>4. less.rest = <<>>
    BY <2>3 DEF Frame
  <2>5. less \in Frames /\ x \in Seq(AllEntries) /\ FlattenSeq(Lists(frame)) = x \o FlattenSeq(Lists(less))
    BY <1>1, <2>2, ListsFirst
  <2>6. x = Listing
    <3>1. MaxNodeDepth + 1 - 0 = MaxNodeDepth + 1
      BY XattrAssumption
    <3>2. QED
      BY <2>2, <2>3, <3>1 DEF Listing
  <2> HIDE DEF frame, less, x
  <2>7. FlattenSeq(Lists(less)) = e
    BY <1>1, <2>4, <2>5, ListsNothing
  <2>8. Pending(Append(e, frame)) = FlattenSeq(Lists(frame)) \o Pending(e) /\ Pending(e) = e
    BY <1>1, <2>1, <2>2, PendingPush, PendingNothing
  <2>9. Append(e, frame) = <<frame>> /\ <<frame>> \in Seq(Frames)
    BY <2>2
  <2>10. x \o e = x /\ e \o x = x
    BY <2>5, ConcatEmptySeq
  <2>11. Pending(<<frame>>) = x
    BY <2>5, <2>7, <2>8, <2>9, <2>10
  <2>12. Listing = e \o (e \o Pending(<<frame>>))
    BY <2>6, <2>10, <2>11
  <2>13. Whole(e) /\ Given(e) = e
    BY GivenNothing
  <2>14. stack' = <<frame>> /\ entries' = e /\ attributes' = e
    BY <1>1, <1>3 DEF frame
  <2> HIDE DEF e
  <2>15. QED
    BY <1>1, <1>3, <2>1, <2>9, <2>12, <2>13, <2>14, GoesOn
<1>4. CASE Blocks
  <2>1. stage' = "walk" /\ stack' = <<Frame(<<0>>, 0)>> /\ UNCHANGED <<entries, attributes>>
    BY <1>4 DEF Blocks, Open, value
  <2>2. QED
    BY <1>3, <2>1
<1>5. QED
  BY <1>2, <1>4

LEMMA WalkingOn ==
  ASSUME XattrInv, Walking
  PROVE  /\ fork \in Forks /\ stack \in Seq(Frames) /\ stack # <<>>
         /\ Pending(stack) \in Seq(AllEntries)
         /\ \E given \in Seq(AllEntries) :
              Whole(given) /\ attributes = Given(given) /\ Listing = given \o Pending(stack)
<1>1. fork \in Forks /\ stack \in Seq(Frames) /\ stack # <<>> /\ entries = <<>> /\ Progress
  BY DEF XattrInv, Walking
<1>2. Pending(stack) \in Seq(AllEntries)
  BY <1>1, PendingTyped
<1>3. <<>> \o Pending(stack) = Pending(stack)
  BY <1>2, ConcatEmptySeq
<1>4. QED
  BY <1>1, <1>2, <1>3 DEF Progress

LEMMA ReadBlockRight == ASSUME XattrInv, ReadBlock PROVE XattrInv'
<1> DEFINE k == MaxNodeDepth + 1 - Top.depth
           x == EntriesUnder[k][Child]
           p == Pending(Advanced)
<1>1. /\ fork \in Forks /\ stack \in Seq(Frames) /\ stack # <<>> /\ Top.rest # <<>>
      /\ Pending(stack) \in Seq(AllEntries)
  BY WalkingOn DEF ReadBlock
<1>2. PICK given \in Seq(AllEntries) :
        Whole(given) /\ attributes = Given(given) /\ Listing = given \o Pending(stack)
  BY WalkingOn DEF ReadBlock
<1>3. /\ Top.depth \in 0 .. MaxNodeDepth + 1 /\ k \in 0 .. MaxNodeDepth + 1 /\ Child \in Nat
      /\ x \in Seq(AllEntries) /\ Advanced \in Seq(Frames)
      /\ p \in Seq(AllEntries) /\ Pending(stack) = x \o p
  BY <1>1, TopPending
<1>4. x = IF k = 0 \/ ~Readable(Child) THEN <<Missing>> ELSE EntriesOf(Child, EntriesUnder[k - 1])
  BY <1>3, UnderBlock
<1>5. TooDeep <=> k = 0
  BY <1>3, XattrAssumption DEF TooDeep
<1> HIDE DEF x, p
<1>6. ASSUME x = <<Missing>> PROVE ~Whole(Listing)
  <2> DEFINE b == x \o p
  <2>1. b \in Seq(AllEntries) /\ Len(b) = Len(x) + Len(p) /\ Len(x) = 1 /\ Len(p) \in Nat /\ b[1] = Missing
    <3>1. Len(x) = 1 /\ x[1] = Missing /\ Len(p) \in Nat
      BY <1>3, <1>6
    <3>2. 1 \in 1 .. Len(x) + Len(p) /\ 1 <= Len(x)
      BY <3>1
    <3>3. b \in Seq(AllEntries) /\ Len(b) = Len(x) + Len(p) /\ b[1] = x[1]
      BY <1>3, <3>2, ConcatProperties
    <3>4. QED
      BY <3>1, <3>3
  <2> HIDE DEF b
  <2>2. b # <<>>
    BY <2>1, EmptySeq
  <2>3. ~Decodable(b[1])
    BY <2>1, MissingIsNot
  <2>4. Listing = given \o b
    BY <1>2, <1>3 DEF b
  <2>5. QED
    BY <2>1, <2>2, <2>3, <2>4, NotWhole
<1>7. CASE TooDeep \/ ~Readable(Child)
  <2>1. Fails
    BY <1>7 DEF ReadBlock
  <2>2. x = <<Missing>>
    BY <1>4, <1>5, <1>7
  <2>3. QED
    BY <1>6, <2>1, <2>2, FailsRightly
<1>8. CASE ~TooDeep /\ Readable(Child)
  <2>1. x = EntriesOf(Child, EntriesUnder[k - 1])
    BY <1>4, <1>5, <1>8
  <2>2. stage = "walk" /\ entries = <<>>
    BY DEF ReadBlock, Walking
  <2>3. CASE Block(Child).kind = "leaf"
    <3>1. /\ x = Block(Child).entries /\ entries' = x /\ stack' = Advanced
          /\ fork' = fork /\ stage' = "walk" /\ attributes' = Given(given)
      BY <1>2, <1>8, <2>1, <2>2, <2>3 DEF EntriesOf, ReadBlock
    <3>2. Listing = given \o (x \o Pending(Advanced))
      BY <1>2, <1>3 DEF p
    <3>3. QED
      BY <1>2, <1>3, <3>1, <3>2, GoesOn
  <2>4. CASE Block(Child).kind = "node"
    <3> DEFINE frame == Frame(Block(Child).children, Top.depth + 1)
               s == Append(Advanced, frame)
               e == <<>>
    <3>1. /\ entries' = e /\ stack' = s
          /\ fork' = fork /\ stage' = "walk" /\ attributes' = Given(given)
      BY <1>2, <1>8, <2>2, <2>4 DEF ReadBlock
    <3>2. frame \in Frames /\ frame.rest = Block(Child).children /\ MaxNodeDepth + 1 - frame.depth = k - 1
      <4>1. Block(Child).children \in Seq(Nat)
        BY <1>1, <1>8, <2>4, BlocksTyped
      <4>2. Top.depth + 1 \in 0 .. MaxNodeDepth + 1 /\ MaxNodeDepth + 1 - (Top.depth + 1) = k - 1
        <5>1. PICK d : d = Top.depth
          OBVIOUS
        <5>2. d \in 0 .. MaxNodeDepth + 1 /\ ~(d > MaxNodeDepth)
          BY <1>3, <1>8, <5>1 DEF TooDeep
        <5>3. d + 1 \in 0 .. MaxNodeDepth + 1 /\ MaxNodeDepth + 1 - (d + 1) = (MaxNodeDepth + 1 - d) - 1
          BY <5>2, XattrAssumption
        <5>4. QED
          BY <5>1, <5>3
      <4>3. QED
        BY <4>1, <4>2 DEF Frames, Frame
    <3>3. FlattenSeq(Lists(frame)) = x
      BY <2>1, <2>4, <3>2 DEF EntriesOf, Lists
    <3> HIDE DEF frame
    <3>4. Pending(s) = x \o p
      BY <1>1, <1>3, <3>2, <3>3, PendingPush DEF p
    <3>5. s \in Seq(Frames) /\ e \in Seq(AllEntries) /\ Pending(s) \in Seq(AllEntries)
      <4>1. s \in Seq(Frames)
        BY <1>3, <3>2, AppendProperties
      <4>2. e \in Seq(AllEntries)
        BY EmptySeq
      <4> HIDE DEF s
      <4>3. QED
        BY <1>1, <4>1, <4>2, PendingTyped
    <3>6. Listing = given \o (e \o Pending(s))
      <4>1. e \o Pending(s) = Pending(s)
        BY <3>5, ConcatEmptySeq
      <4>2. QED
        BY <1>2, <1>3, <3>4, <4>1
    <3> HIDE DEF s, e
    <3>7. QED
      BY <1>1, <1>2, <3>1, <3>5, <3>6, GoesOn
  <2>5. CASE Block(Child).kind \notin {"leaf", "node"}
    <3>1. Fails
      BY <1>8, <2>5 DEF ReadBlock
    <3>2. x = <<Missing>>
      BY <2>1, <2>5 DEF EntriesOf
    <3>3. QED
      BY <1>6, <3>1, <3>2, FailsRightly
  <2>6. QED
    BY <2>3, <2>4, <2>5
<1>9. QED
  BY <1>7, <1>8

LEMMA NodeEndsRight == ASSUME XattrInv, NodeEnds PROVE XattrInv'
<1> DEFINE f == Front(stack)
           e == <<>>
<1>1. /\ fork \in Forks /\ stack \in Seq(Frames) /\ stack # <<>>
  BY WalkingOn DEF NodeEnds
<1>2. PICK given \in Seq(AllEntries) :
        Whole(given) /\ attributes = Given(given) /\ Listing = given \o Pending(stack)
  BY WalkingOn DEF NodeEnds
<1>3. Top \in Frames /\ f \in Seq(Frames) /\ stack = Append(f, Top) /\ Top.rest = <<>>
  BY <1>1, TopOf DEF Top, NodeEnds
<1>4. stack' = f /\ entries' = e /\ fork' = fork /\ stage' = "walk" /\ attributes' = Given(given)
  BY <1>2 DEF NodeEnds, Walking
<1>5. FlattenSeq(Lists(Top)) = e
  BY <1>1, <1>3, ListsNothing
<1> HIDE DEF f
<1>6. Pending(stack) = e \o Pending(f)
  BY <1>1, <1>3, <1>5, PendingPush
<1>7. e \in Seq(AllEntries)
  BY EmptySeq
<1> HIDE DEF e
<1>8. QED
  BY <1>1, <1>2, <1>3, <1>4, <1>6, <1>7, GoesOn

LEMMA WalkEndsRight == ASSUME XattrInv, WalkEnds PROVE XattrInv'
<1>1. fork \in Forks /\ stack = <<>> /\ entries = <<>> /\ Progress /\ fork' = fork /\ stage' = "done"
      /\ result' = "ok" /\ attributes' = attributes
  BY DEF XattrInv, WalkEnds, Returns
<1>2. PICK given \in Seq(AllEntries) :
        /\ Whole(given) /\ attributes = Given(given)
        /\ Listing = given \o (<<>> \o Pending(<<>>))
  BY <1>1 DEF Progress
<1>3. PICK e \in Seq(AllEntries) : e = <<>>
  BY EmptySeq
<1>4. e \o e = e /\ given \o e = given
  BY <1>3, ConcatEmptySeq
<1>5. Listing = given
  BY <1>2, <1>3, <1>4, PendingNothing
<1>6. Given(Listing)' = Given(Listing)
  <2>1. PICK l : l = Listing
    OBVIOUS
  <2>2. Given(l)' = Given(l) /\ Listing' = Listing
    BY <1>1, Stays
  <2>3. QED
    BY <2>1, <2>2
<1>7. attributes' = Given(Listing)'
  BY <1>1, <1>2, <1>5, <1>6
<1>8. Whole(Listing)'
  BY <1>1, <1>2, <1>5, Stays
<1>9. WholeOrError'
  BY <1>1, <1>7, <1>8 DEF WholeOrError, Given
<1>10. QED
  BY <1>1, <1>9 DEF XattrInv

\* There is an entry in hand.
InHand == stage \in {"walk", "value"} /\ entries # <<>>

\* The entry in hand, and how the listing goes on when its value is known.
LEMMA EntryInHand ==
  ASSUME XattrInv, InHand
  PROVE  /\ fork \in Forks /\ stack \in Seq(Frames) /\ Entry \in AllEntries /\ Tail(entries) \in Seq(AllEntries)
         /\ ~Decodable(Entry) => ~Whole(Listing)
         /\ Remote => Entry.start \in Nat /\ Entry.start < BlockModulus /\ Entry.size \in Nat
         /\ \E given \in Seq(AllEntries) :
              /\ Whole(given) /\ attributes = Given(given)
              /\ Listing = Append(given, Entry) \o (Tail(entries) \o Pending(stack))
<1>1. fork \in Forks /\ stack \in Seq(Frames) /\ entries \in Seq(AllEntries) /\ Progress
  BY DEF XattrInv, InHand
<1>2. PICK s \in Seq(AllEntries) : s = entries
  BY <1>1
<1>3. Len(s) > 0
  <2>1. s # <<>>
    BY <1>2 DEF InHand
  <2>2. QED
    BY <2>1, EmptySeq
<1>4. PICK h \in AllEntries, t \in Seq(AllEntries) : h = Head(s) /\ t = Tail(s)
  <2>1. Head(s) \in AllEntries /\ Tail(s) \in Seq(AllEntries)
    BY <1>3, Halves
  <2>2. QED
    BY <2>1
<1>5. PICK given \in Seq(AllEntries) :
        Whole(given) /\ attributes = Given(given) /\ Listing = given \o (entries \o Pending(stack))
  BY <1>1 DEF Progress
<1>6. PICK p \in Seq(AllEntries) : p = Pending(stack)
  BY <1>1, PendingTyped
<1>7. given \o (s \o p) = Append(given, h) \o (t \o p)
  <2>1. Shifted(given, s, p)
    BY <1>3, Shift
  <2>2. QED
    BY <1>4, <2>1 DEF Shifted
<1>8. Listing = Append(given, h) \o (t \o p)
  BY <1>2, <1>4, <1>5, <1>6, <1>7
<1>9. ASSUME ~Decodable(h) PROVE ~Whole(Listing)
  BY <1>8, <1>9, NotWholeAfter
<1>10. Entry = h /\ Tail(entries) = t
  BY <1>2, <1>4 DEF Entry
<1>11. Remote => h.start \in Nat /\ h.start < BlockModulus /\ h.size \in Nat
  BY <1>1, <1>10, EntriesTyped DEF Remote
<1>12. Listing = Append(given, Entry) \o (Tail(entries) \o Pending(stack))
  BY <1>6, <1>8, <1>10
<1>13. QED
  BY <1>1, <1>5, <1>9, <1>10, <1>11, <1>12

LEMMA EntryDone ==
  ASSUME XattrInv, InHand, Decodable(Entry),
         fork' = fork, stage' = "walk", stack' = stack, entries' = Tail(entries),
         attributes' = Append(attributes, Attribute(Entry, Value(Entry)))
  PROVE  XattrInv'
<1>1. /\ fork \in Forks /\ stack \in Seq(Frames) /\ Entry \in AllEntries /\ Tail(entries) \in Seq(AllEntries)
  BY EntryInHand
<1>2. PICK given \in Seq(AllEntries) :
        /\ Whole(given) /\ attributes = Given(given)
        /\ Listing = Append(given, Entry) \o (Tail(entries) \o Pending(stack))
  BY EntryInHand
<1>3. /\ Append(given, Entry) \in Seq(AllEntries) /\ Whole(Append(given, Entry))
      /\ Given(Append(given, Entry)) = Append(Given(given), Attribute(Entry, Value(Entry)))
  BY <1>1, <1>2, GivenMore
<1>4. PICK g \in Seq(AllEntries) : g = Append(given, Entry)
  BY <1>3
<1>5. PICK t \in Seq(AllEntries), s \in Seq(Frames) : t = Tail(entries) /\ s = stack
  BY <1>1
<1>6. Whole(g) /\ attributes' = Given(g) /\ Listing = g \o (t \o Pending(s)) /\ entries' = t /\ stack' = s
  BY <1>2, <1>3, <1>4, <1>5
<1>7. QED
  BY <1>6, GoesOn

LEMMA TakeEntryRight == ASSUME XattrInv, TakeEntry PROVE XattrInv'
<1>1. stage = "walk" /\ entries # <<>>
  BY DEF TakeEntry
<1>22. InHand
  BY <1>1 DEF InHand
<1>2. /\ fork \in Forks /\ stack \in Seq(Frames) /\ Entry \in AllEntries
      /\ ~Decodable(Entry) => ~Whole(Listing)
      /\ Remote => Entry.start \in Nat /\ Entry.start < BlockModulus /\ Entry.size \in Nat
  BY <1>22, EntryInHand
<1>3. CASE ~Supported(Entry)
  <2>1. Fails
    BY <1>3 DEF TakeEntry
  <2>2. ~Decodable(Entry)
    BY <1>3 DEF Decodable
  <2>3. QED
    BY <1>2, <2>1, <2>2, FailsRightly
<1>4. CASE Supported(Entry) /\ Remote /\ Entry.size > 0
  <2>1. /\ stage' = "value" /\ remaining' = Entry.size /\ currentBlock' = Entry.start /\ out' = <<>>
        /\ UNCHANGED <<fork, stack, entries, attributes, result>>
    BY <1>4 DEF TakeEntry
  <2>2. PICK h : h = Entry /\ h.start \in Nat /\ h.size \in Nat /\ h.size > 0
    BY <1>2, <1>4
  <2>3. Entry' = h
    BY <2>1, <2>2 DEF Entry
  <2>4. Segments(h.start, 0)' = <<>> /\ Giving(h.start, 0)'
    <3>1. Segments(h.start, 0) = <<>> /\ Giving(h.start, 0)
      BY NoSegments DEF Giving
    <3>2. QED
      BY <2>1, <3>1, Stays
  <2>5. Len(<<>>) = 0
    BY EmptySeq
  <2>6. BlockAt(h.start, 0) = h.start /\ h.size - 0 = h.size /\ 0 \in Nat
    BY <1>2, <1>4, <2>2, Within DEF BlockAt
  <2>7. Remote' /\ Supported(Entry)'
    BY <1>4, <2>1 DEF Remote, Entry, Supported
  <2>8. out' = Segments(h.start, 0)' /\ remaining' = h.size - Len(out') /\ remaining' > 0 /\ currentBlock' = BlockAt(h.start, 0)
    BY <2>1, <2>2, <2>4, <2>5, <2>6
  <2>9. ValueSoFar'
    BY <1>1, <2>1, <2>3, <2>4, <2>6, <2>7, <2>8 DEF ValueSoFar
  <2>10. Progress'
    <3>1. PICK s : s = stack
      OBVIOUS
    <3>2. Pending(s)' = Pending(s)
      BY <2>1, Stays
    <3>3. Progress
      BY <1>1 DEF XattrInv
    <3>4. PICK given \in Seq(AllEntries) :
        Whole(given) /\ attributes = Given(given) /\ Listing = given \o (entries \o Pending(stack))
      BY <3>3 DEF Progress
    <3>5. QED
      BY <2>1, <3>1, <3>2, <3>4, Stays DEF Progress
  <2>11. (entries \in Seq(AllEntries))'
    BY <1>1, <2>1, Stays DEF XattrInv
  <2>12. QED
    BY <1>2, <2>1, <2>9, <2>10, <2>11 DEF XattrInv, WholeOrError
<1>5. CASE Supported(Entry) /\ ~(Remote /\ Entry.size > 0)
  <2>1. Value(Entry) = IF Remote THEN <<>> ELSE Entry.value
    <3>1. Remote => Entry.size = 0
      BY <1>2, <1>5
    <3>2. QED
      BY <3>1 DEF Value, Remote
  <2>2. Decodable(Entry)
    BY <1>5 DEF Decodable, Remote
  <2>3. /\ fork' = fork /\ stage' = "walk" /\ stack' = stack /\ entries' = Tail(entries)
        /\ attributes' = Append(attributes, Attribute(Entry, Value(Entry)))
    BY <1>1, <1>5, <2>1 DEF TakeEntry
  <2>4. QED
    BY <1>22, <2>2, <2>3, EntryDone
<1>6. QED
  BY <1>3, <1>4, <1>5

\* Each block of a value gives it at least a byte.
LEMMA OneByteEach ==
  ASSUME fork \in Forks, NEW start \in Nat, NEW n \in Nat, Giving(start, n)
  PROVE  /\ Segments(start, n) \in Seq(Bytes) /\ Len(Segments(start, n)) \in Nat
         /\ n <= Len(Segments(start, n))
<1>1. PICK z \in Nat : z = 0
  OBVIOUS
<1>2. z <= n
  BY <1>1
<1>3. /\ Segments(start, n) \in Seq(Bytes)
      /\ Len(Segments(start, z)) + (n - z) <= Len(Segments(start, n))
  BY <1>2, SegmentsExtend
<1>4. Len(<<>>) = 0
  BY EmptySeq
<1>5. Len(Segments(start, z)) = 0
  BY <1>1, <1>4, NoSegments
<1>6. PICK m \in Nat : m = Len(Segments(start, n))
  BY <1>3
<1>7. QED
  BY <1>1, <1>3, <1>5, <1>6

LEMMA ProgressStays ==
  ASSUME Progress, fork' = fork, stack' = stack, entries' = entries, attributes' = attributes
  PROVE  Progress' /\ AllEntries' = AllEntries
<1>1. PICK s : s = stack
  OBVIOUS
<1>2. Pending(s)' = Pending(s) /\ Listing' = Listing /\ AllEntries' = AllEntries
  BY Stays
<1>3. PICK given \in Seq(AllEntries) :
        Whole(given) /\ attributes = Given(given) /\ Listing = given \o (entries \o Pending(stack))
  BY DEF Progress
<1>4. QED
  BY <1>1, <1>2, <1>3, Stays DEF Progress

\* A segment that is not the last of its value, or is.
LEMMA ReadSegmentRight ==
  ASSUME XattrInv, ReadSegment
  PROVE  XattrInv'
<1>1. stage = "value" /\ entries # <<>> /\ Remote /\ Supported(Entry) /\ ValueSoFar
  BY DEF ReadSegment, XattrInv, ValueSoFar
<1>22. InHand
  BY <1>1 DEF InHand
<1>23. Remote
  BY <1>1
<1>2. /\ fork \in Forks /\ stack \in Seq(Frames) /\ Entry \in AllEntries
      /\ ~Decodable(Entry) => ~Whole(Listing)
      /\ Entry.start \in Nat /\ Entry.start < BlockModulus /\ Entry.size \in Nat
  BY <1>22, <1>23, EntryInHand
<1>3. PICK h : h = Entry
  OBVIOUS
<1>4. h.start \in Nat /\ h.size \in Nat /\ "start" \in DOMAIN h
  BY <1>1, <1>2, <1>3 DEF Remote
<1>5. PICK n \in Nat :
        /\ Giving(h.start, n) /\ out = Segments(h.start, n) /\ currentBlock = BlockAt(h.start, n)
        /\ remaining = h.size - Len(out) /\ remaining > 0
  BY <1>1, <1>3 DEF ValueSoFar
<1>6. out \in Seq(Bytes) /\ Len(out) \in Nat /\ n <= Len(out) /\ Len(out) < h.size
  <2>1. out \in Seq(Bytes) /\ Len(out) \in Nat /\ n <= Len(out)
    BY <1>2, <1>4, <1>5, OneByteEach
  <2>2. QED
    BY <1>4, <1>5, <2>1
<1>7. CASE ~Gives(currentBlock)
  <2>1. Fails
    BY <1>7 DEF ReadSegment, Gives, Stuck
  <2>2. Enough(h) = {}
    BY <1>2, <1>4, <1>5, <1>6, <1>7, ValueMissing
  <2>3. h.size > 0
    BY <1>4, <1>6
  <2>4. ~Decodable(Entry)
    BY <1>3, <1>4, <2>2, <2>3 DEF Decodable
  <2>5. QED
    BY <1>2, <2>1, <2>4, FailsRightly
<1>8. CASE Gives(currentBlock)
  <2> DEFINE x == Segment(currentBlock)
             copied == IF Len(x) > remaining THEN remaining ELSE Len(x)
             longer == out \o SubSeq(x, 1, copied)
  <2>1. /\ out' = longer /\ remaining' = remaining - copied /\ currentBlock' = NextBlock
        /\ copied = remaining =>
             attributes' = Append(attributes, Attribute(Entry, longer)) /\ entries' = Tail(entries) /\ stage' = "walk"
        /\ copied # remaining => UNCHANGED <<attributes, entries, stage>>
        /\ UNCHANGED <<fork, stack, result>>
    BY <1>8 DEF ReadSegment, Gives, Stuck
  <2>2. Giving(h.start, n + 1) /\ x \in Seq(Bytes) /\ x # <<>> /\ Segments(h.start, n + 1) = out \o x
    BY <1>2, <1>4, <1>5, <1>8, SegmentsGrow
  <2>3. PICK y \in Seq(Bytes) : y = x /\ Len(y) \in Nat \ {0}
    BY <2>2, EmptySeq
  <2>4. PICK r \in Nat : r = remaining /\ r > 0 /\ r + Len(out) = h.size
    <3>1. PICK l \in Nat, z \in Nat : l = Len(out) /\ z = h.size
      BY <1>4, <1>6
    <3>2. z - l \in Nat /\ z - l > 0 /\ (z - l) + l = z /\ remaining = z - l
      BY <1>5, <1>6, <3>1
    <3>3. QED
      BY <3>1, <3>2
  <2>5. PICK o \in Seq(Bytes) : o = out
    BY <1>6
  <2>6. PICK a \in Seq(Bytes) : a = Segments(h.start, n + 1) /\ a = o \o y
    BY <2>2, <2>3, <2>5, ConcatProperties
  <2>7. Len(a) = Len(o) + Len(y)
    BY <2>6, ConcatProperties
  <2>8. n + 1 \in 1 .. h.size
    BY <1>4, <1>6
  <2> HIDE DEF x
  <2>9. CASE Len(y) >= r
    <3>1. copied = remaining
      BY <2>3, <2>4, <2>9
    <3>2. longer = SubSeq(a, 1, h.size)
      <4>1. o \o SubSeq(y, 1, r) = SubSeq(o \o y, 1, Len(o) + r)
        BY <2>9, CutInSecond
      <4>2. Len(o) + r = h.size
        BY <1>6, <2>4, <2>5
      <4>3. QED
        BY <2>3, <2>4, <2>5, <2>6, <3>1, <4>1, <4>2
    <3>3. Len(a) >= h.size
      BY <1>6, <2>3, <2>4, <2>5, <2>7, <2>9
    <3>4. Enough(h) # {} /\ Value(h) = SubSeq(a, 1, h.size)
      <4>1. h.start \in Nat /\ h.size \in Nat \ {0} /\ "start" \in DOMAIN h
        BY <1>4, <1>6
      <4>2. Giving(h.start, n + 1) /\ Len(Segments(h.start, n + 1)) >= h.size
        BY <2>2, <2>6, <3>3
      <4>3. Enough(h) # {} /\ Value(h) = SubSeq(Segments(h.start, n + 1), 1, h.size)
        BY <1>2, <2>8, <4>1, <4>2, ValueRead
      <4>4. QED
        BY <2>6, <4>3
    <3>5. Decodable(Entry)
      BY <1>1, <1>3, <3>4 DEF Decodable
    <3>6. /\ fork' = fork /\ stage' = "walk" /\ stack' = stack /\ entries' = Tail(entries)
          /\ attributes' = Append(attributes, Attribute(Entry, Value(Entry)))
      BY <1>3, <2>1, <3>1, <3>2, <3>4
    <3>7. QED
      BY <1>22, <3>5, <3>6, EntryDone
  <2>10. CASE Len(y) < r
    <3>1. copied = Len(y) /\ copied # remaining
      BY <2>3, <2>4, <2>10
    <3>2. SubSeq(y, 1, Len(y)) = y
      BY SubSeqFull
    <3>3. out' = a
      BY <2>1, <2>3, <2>5, <2>6, <3>1, <3>2
    <3>4. remaining' = h.size - Len(a) /\ remaining' > 0
      BY <1>4, <1>6, <2>1, <2>3, <2>4, <2>5, <2>7, <2>10, <3>1
    <3>5. currentBlock' = BlockAt(h.start, n + 1)
      BY <1>4, <1>5, <2>1, NextAt DEF NextBlock
    <3>6. UNCHANGED <<attributes, entries, stage, fork, stack>>
      BY <2>1, <3>1
    <3>7. Segments(h.start, n + 1)' = a /\ Giving(h.start, n + 1)'
      BY <2>2, <2>6, <3>6, Stays
    <3>8. entries' # <<>> /\ Remote' /\ Supported(Entry)' /\ Entry' = h
      BY <1>1, <1>3, <3>6 DEF Remote, Entry, Supported
    <3>9. ValueSoFar'
      <4>1. n + 1 \in Nat
        OBVIOUS
      <4>2. QED
        BY <3>3, <3>4, <3>5, <3>7, <3>8, <4>1 DEF ValueSoFar
    <3>10. QED
      BY <1>1, <1>2, <3>6, <3>9, ProgressStays DEF XattrInv, WholeOrError
  <2>11. QED
    BY <2>3, <2>4, <2>9, <2>10
<1>9. QED
  BY <1>7, <1>8

LEMMA Stutters == ASSUME XattrInv, UNCHANGED xattrVars PROVE XattrInv'
<1>1. fork' = fork /\ stage' = stage /\ stack' = stack /\ entries' = entries /\ attributes' = attributes /\ result' = result
      /\ remaining' = remaining /\ currentBlock' = currentBlock /\ out' = out
  BY DEF xattrVars, value
<1>2. stage = "value" => ValueSoFar'
  <2>1. SUFFICES ASSUME stage = "value" PROVE ValueSoFar'
    OBVIOUS
  <2>2. entries # <<>> /\ Remote /\ Supported(Entry)
    BY <2>1 DEF XattrInv, ValueSoFar
  <2>3. PICK h : h = Entry
    OBVIOUS
  <2>4. PICK n \in Nat :
          /\ Giving(h.start, n) /\ out = Segments(h.start, n) /\ currentBlock = BlockAt(h.start, n)
          /\ remaining = h.size - Len(out) /\ remaining > 0
    BY <2>1, <2>3 DEF XattrInv, ValueSoFar
  <2>5. Giving(h.start, n)' /\ Segments(h.start, n)' = Segments(h.start, n)
    BY <1>1, <2>4, Stays
  <2>6. entries' # <<>> /\ Remote' /\ Supported(Entry)' /\ Entry' = h
    BY <1>1, <2>2, <2>3 DEF Remote, Entry, Supported
  <2>7. QED
    BY <1>1, <2>4, <2>5, <2>6 DEF ValueSoFar
<1>3. WholeOrError'
  <2>1. PICK l : l = Listing
    OBVIOUS
  <2>2. Given(l)' = Given(l) /\ Listing' = Listing /\ Whole(Listing)' = Whole(Listing) /\ Blocks' = Blocks
    BY <1>1, Stays
  <2>3. QED
    BY <1>1, <2>1, <2>2 DEF XattrInv, WholeOrError, Given
<1>4. QED
  BY <1>1, <1>2, <1>3, ProgressStays, Stays DEF XattrInv

\* Whatever the blocks of the fork are and wherever its extents map them, the
\* listing is all the tree holds, in order, or an error: no damaged block or value
\* leaves a list that is taken for the whole (xattr.go:87-126, :298-346).  A value has
\* the blocks that numbers of 32 bits name: behind the last of them it goes on at block
\* 0, as the code does (xattr.go:342).
THEOREM XattrListsAllOrNothing == XattrSpec => []WholeOrError
<1>1. XattrInit => XattrInv
  BY DEF XattrInit, XattrInv, WholeOrError
<1>2. XattrInv /\ [XattrNext]_xattrVars => XattrInv'
  <2>1. SUFFICES ASSUME XattrInv, [XattrNext]_xattrVars PROVE XattrInv'
    OBVIOUS
  <2>2. CASE Open
    BY <2>1, <2>2, OpenRight
  <2>3. CASE ReadBlock
    BY <2>1, <2>3, ReadBlockRight
  <2>4. CASE NodeEnds
    BY <2>1, <2>4, NodeEndsRight
  <2>5. CASE WalkEnds
    BY <2>1, <2>5, WalkEndsRight
  <2>6. CASE TakeEntry
    BY <2>1, <2>6, TakeEntryRight
  <2>7. CASE ReadSegment
    BY <2>1, <2>7, ReadSegmentRight
  <2>8. CASE UNCHANGED xattrVars
    BY <2>1, <2>8, Stutters
  <2>9. QED
    BY <2>1, <2>2, <2>3, <2>4, <2>5, <2>6, <2>7, <2>8 DEF XattrNext, XattrStep
<1>3. XattrInv => WholeOrError
  BY DEF XattrInv
<1>4. QED
  BY <1>1, <1>2, <1>3, PTL DEF XattrSpec
===============================================================================
