------------------------------- MODULE InodeFormat -------------------------------
(***************************************************************************)
(* What parseInode makes of the bytes of an inode: where its two forks     *)
(* lie, and its timestamps, which are eight bytes in one of two encodings. *)
(***************************************************************************)
EXTENDS Integers

CONSTANTS
  HeaderSizeV2, HeaderSizeV3,  \* inodeHeaderSizeV2, inodeHeaderSizeV3
  ShiftUnit,                   \* inodeAttributeForkShiftUnit
  DeviceSize,                  \* deviceIdentifierSize
  Word,                        \* 2^32
  Second,                      \* 1_000_000_000
  MaxInt                       \* 2^63 - 1: the range of an int64 is -MaxInt - 1 .. MaxInt

ASSUME SizesAssumption ==
  HeaderSizeV2 \in Nat /\ HeaderSizeV3 \in Nat /\ ShiftUnit \in Nat \ {0} /\ DeviceSize \in Nat
\* An int64 has room for every legacy time.
ASSUME TimeAssumption ==
  /\ Word \in Nat \ {0} /\ Second \in Nat \ {0} /\ MaxInt \in Nat
  /\ (Word \div 2) * Second + Word <= MaxInt

-------------------------------------------------------------------------------
(* parseInode: the forks *)

HeaderSize(version) == IF version = 3 THEN HeaderSizeV3 ELSE HeaderSizeV2

AttributeOffset(raw) == raw.shift * ShiftUnit

\* The check of the offset, one byte too lax.
AttributesFitLax(raw, length) == AttributeOffset(raw) <= length

AttributesFit(raw, length) == AttributeOffset(raw) < length - HeaderSize(raw.version)

DataSize(raw, length) ==
  IF raw.shift = 0 THEN length - HeaderSize(raw.version) ELSE AttributeOffset(raw)

\* An inode that parseInode does not refuse: length is that of the buffer.
Acceptable(raw, length) ==
  /\ raw.magic /\ raw.version \in 1 .. 3 /\ HeaderSize(raw.version) <= length
  /\ raw.shift > 0 => AttributesFit(raw, length)
  /\ raw.format = "local"  => raw.size <= DataSize(raw, length)
  /\ raw.format = "device" => HeaderSize(raw.version) + DeviceSize <= length

-------------------------------------------------------------------------------
(* readInodeTimestamp; a raw time is two words *)

Signed(word) == IF word < Word \div 2 THEN word ELSE word - Word

\* What an int64 makes of an integer.
Wrapped(n) == ((n + MaxInt + 1) % (2 * (MaxInt + 1))) - (MaxInt + 1)

LegacyNanos(high, low) ==
  LET base == Signed(high) * Second IN IF base > 0 THEN base + low ELSE base - low

BigTimeOffset == Word \div 2

\* The epoch is not taken into account.
NoOffset == 0

Offset == BigTimeOffset

\* Go divides towards zero, and so is -(1 << 63) / 1_000_000_000.
MaxSeconds == MaxInt \div Second
MinSeconds == -((MaxInt + 1) \div Second)

BigTimeNanos(high, low) ==
  LET raw     == high * Word + low
      seconds == (raw \div Second) - Offset
      nanos   == raw % Second
  IN  IF seconds > MaxSeconds THEN MaxInt
      ELSE IF seconds < MinSeconds THEN -MaxInt - 1
      ELSE Wrapped(seconds * Second + nanos)

\* Bigtime is for inodes of version 3 only.
BigTime(raw, feature) == feature /\ raw.version = 3

Time(raw, feature) ==
  IF BigTime(raw, feature) THEN BigTimeNanos(raw.time[1], raw.time[2])
  ELSE LegacyNanos(raw.time[1], raw.time[2])

Parsed(raw, length, feature) ==
  [header |-> HeaderSize(raw.version), dataSize |-> DataSize(raw, length),
   attributesSize |-> IF raw.shift = 0 THEN 0
                      ELSE length - HeaderSize(raw.version) - AttributeOffset(raw),
   time |-> Time(raw, feature)]

-------------------------------------------------------------------------------
\* What the times stand for.
LegacyTime(high, low) == Signed(high) * Second + low
BigTimeTime(high, low) == high * Word + low - BigTimeOffset * Second

\* A time the decoder gets right: not one of the legacy encoding with a fraction of a
\* second in or before 1970's first second, nor one in the very last second an int64 has
\* room for a part of.
Exact(raw, feature) ==
  LET high == raw.time[1] low == raw.time[2]
  IN  IF BigTime(raw, feature)
      THEN BigTimeTime(high, low) > MaxInt => BigTimeTime(high, low) >= (MaxSeconds + 1) * Second
      ELSE Signed(high) > 0 \/ low = 0

\* The two encodings agree on what a time is, up to the clamp.
Meant(raw, feature) ==
  LET exact == IF BigTime(raw, feature) THEN BigTimeTime(raw.time[1], raw.time[2])
               ELSE LegacyTime(raw.time[1], raw.time[2])
  IN  IF exact > MaxInt THEN MaxInt ELSE exact
===============================================================================
