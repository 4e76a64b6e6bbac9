--------------------------------- MODULE Xattr ---------------------------------
(***************************************************************************)
(* ListInodeExtendedAttributes: the fork's bytes tried as a short-form     *)
(* list, then the tree of attribute blocks, depth first, and the values    *)
(* that are kept in blocks of their own.  On a damaged image the blocks    *)
(* are any graph, and the lists of extents may map them anywhere.          *)
(***************************************************************************)
EXTENDS Integers, SequencesExt

CONSTANTS
  Forks,          \* the attribute forks an inode may have, see below
  BlockSize,      \* in bytes
  BlockHeaderSize,  \* xattrBlockHeaderSizeV5
  BlockModulus,   \* 2^32
  MaxNodeDepth        \* maxBtreeRecursionDepth

ASSUME XattrAssumption ==
  BlockSize \in Nat \ {0} /\ BlockHeaderSize \in Nat /\ BlockModulus \in Nat \ {0} /\ MaxNodeDepth \in Nat

\* A fork has a type, "none" if its size is 0; short, what its first bytes are as a
\* short-form list: [parses, entries]; lead, the blocks those bytes lie in; extents, a
\* list in the order of the inode; and blocks, a function from the numbers of the
\* blocks that can be read.  A block is a leaf with entries, a node with children, or
\* neither; a v5 value block says where in it its segment is, any other is all value.
\* An entry is [name, flags, value] or, remote, [name, flags, start, size].
ASSUME ForkAssumption ==
  \A f \in Forks :
    /\ f.type \in {"none", "local", "device", "extents", "btree"}
    /\ \A b \in DOMAIN f.blocks :
         /\ f.blocks[b].kind = "value" => f.blocks[b].offset \in Nat /\ f.blocks[b].size \in Nat
         /\ f.blocks[b].kind = "node" => f.blocks[b].children \in Seq(Nat)
         /\ f.blocks[b].kind = "leaf" =>
              /\ f.blocks[b].entries \in Seq(Range(f.blocks[b].entries))
              /\ \A entry \in Range(f.blocks[b].entries) :
                   "start" \in DOMAIN entry => entry.start \in 0 .. BlockModulus - 1 /\ entry.size \in Nat

VARIABLES
  fork,
  stage,
  stack,        \* the blocks to come of each node being read, and their depth
  entries,      \* of the leaf being read, those to come
  remaining,
  currentBlock,
  out,          \* the value read so far: each byte a block and a place in it
  attributes,
  result        \* "none", "error" or "ok"

value == <<remaining, currentBlock, out>>
xattrVars == <<fork, stage, stack, entries, value, attributes, result>>

XattrInit ==
  /\ fork \in Forks
  /\ stage = "open" /\ stack = <<>> /\ entries = <<>> /\ attributes = <<>>
  /\ remaining = 0 /\ currentBlock = 0 /\ out = <<>> /\ result = "none"

Frame(blocks, depth) == [rest |-> blocks, depth |-> depth]

Fails ==
  /\ stage' = "done" /\ result' = "error"
  /\ UNCHANGED <<fork, stack, entries, value, attributes>>

Returns(list) ==
  /\ stage' = "done" /\ result' = "ok" /\ attributes' = list
  /\ UNCHANGED <<fork, stack, entries, value>>

-------------------------------------------------------------------------------
(* xattrNamespaceFromFlags, findAttributeExtentForLogicalBlock *)

Namespaces ==
  [flags \in {{}, {"root"}, {"secure"}} |->
     CASE "root" \in flags -> "trusted" [] "secure" \in flags -> "security" [] OTHER -> "user"]

Supported(entry) == entry.flags \in DOMAIN Namespaces

Attribute(entry, bytes) ==
  [name |-> entry.name, namespace |-> Namespaces[entry.flags], value |-> bytes]

Holders(block) ==
  {i \in DOMAIN fork.extents :
     /\ fork.extents[i].l <= block /\ block < fork.extents[i].l + fork.extents[i].n}

\* The extent that maps a block is the first that holds it.
Holder(block) == CHOOSE i \in Holders(block) : \A j \in Holders(block) : i <= j

Physical(block) == fork.extents[Holder(block)].p + (block - fork.extents[Holder(block)].l)

\* A block of the fork that is mapped and can be read.
Readable(block) == Holders(block) # {} /\ Physical(block) \in DOMAIN fork.blocks

Block(block) == fork.blocks[Physical(block)]

\* readFromExtents takes a block that nothing maps, or that is unwritten, for zeros.
Zeros(block) == Holders(block) = {} \/ fork.extents[Holder(block)].sparse

LeadReadable == \A b \in 0 .. fork.lead - 1 : Zeros(b) \/ Readable(b)

\* Zeros are no short-form list.
ShortForm ==
  /\ fork.short.parses /\ (fork.type = "local" \/ ~Zeros(0))
  /\ \A i \in DOMAIN fork.short.entries : Supported(fork.short.entries[i])

ShortList ==
  [i \in DOMAIN fork.short.entries |-> Attribute(fork.short.entries[i], fork.short.entries[i].value)]

Open ==
  /\ stage = "open"
  /\ CASE fork.type = "none"   -> Returns(<<>>)
       [] fork.type = "local"  -> IF ShortForm THEN Returns(ShortList) ELSE Fails
       [] fork.type = "device" -> Fails
       [] OTHER -> IF ~LeadReadable THEN Fails
                   ELSE IF ShortForm THEN Returns(ShortList)
                   ELSE IF fork.extents = <<>> THEN Returns(<<>>)
                   ELSE /\ stage' = "walk" /\ stack' = <<Frame(<<0>>, 0)>>
                        /\ UNCHANGED <<fork, entries, value, attributes, result>>

-------------------------------------------------------------------------------
(* parseAttributesFromBlockNumber *)

Top == Last(stack)
Child == Head(Top.rest)
Advanced == Append(Front(stack), Frame(Tail(Top.rest), Top.depth))

\* One level too few.
TooDeepEarly == Top.depth >= MaxNodeDepth

TooDeep == Top.depth > MaxNodeDepth

Walking == stage = "walk" /\ entries = <<>> /\ stack # <<>>

ReadBlock ==
  /\ Walking /\ Top.rest # <<>>
  /\ IF TooDeep \/ ~Readable(Child) THEN Fails
     ELSE CASE Block(Child).kind = "leaf" ->
                 /\ entries' = Block(Child).entries /\ stack' = Advanced
                 /\ UNCHANGED <<fork, stage, value, attributes, result>>
            [] Block(Child).kind = "node" ->
                 /\ stack' = Append(Advanced, Frame(Block(Child).children, Top.depth + 1))
                 /\ UNCHANGED <<fork, stage, entries, value, attributes, result>>
            [] OTHER -> Fails

NodeEnds ==
  /\ Walking /\ Top.rest = <<>>
  /\ stack' = Front(stack)
  /\ UNCHANGED <<fork, stage, entries, value, attributes, result>>

WalkEnds ==
  /\ stage = "walk" /\ entries = <<>> /\ stack = <<>>
  /\ Returns(attributes)

-------------------------------------------------------------------------------
(* parseLeafBlockAttributes, readRemoteAttributeValue *)

Entry == Head(entries)
Remote == "start" \in DOMAIN Entry

TakeEntry ==
  /\ stage = "walk" /\ entries # <<>>
  /\ IF ~Supported(Entry) THEN Fails
     ELSE IF Remote /\ Entry.size > 0
     THEN /\ stage' = "value"
          /\ remaining' = Entry.size /\ currentBlock' = Entry.start /\ out' = <<>>
          /\ UNCHANGED <<fork, stack, entries, attributes, result>>
     ELSE /\ attributes' = Append(attributes, Attribute(Entry, IF Remote THEN <<>> ELSE Entry.value))
          /\ entries' = Tail(entries)
          /\ UNCHANGED <<fork, stage, stack, value, result>>

\* The bytes a block gives to a value, from the place its header says or all of it.
Segment(block) ==
  LET offset == IF Block(block).kind = "value" THEN Block(block).offset ELSE 0
      size   == IF Block(block).kind = "value" THEN Block(block).size ELSE BlockSize
  IN  [i \in 1 .. size |-> <<Physical(block), offset + i>>]

\* A header that names bytes that the block does not have.
Misplaced(block) ==
  /\ Block(block).kind = "value"
  /\ \/ Block(block).offset < BlockHeaderSize
     \/ Block(block).offset + Block(block).size > BlockSize

\* A value that is read from one block.
SameBlock == currentBlock

NextBlock == (currentBlock + 1) % BlockModulus

Stuck(segment) == segment = <<>>

ReadSegment ==
  /\ stage = "value"
  /\ IF ~Readable(currentBlock) \/ Misplaced(currentBlock) THEN Fails
     ELSE LET segment == Segment(currentBlock)
              copied  == IF Len(segment) > remaining THEN remaining ELSE Len(segment)
              longer  == out \o SubSeq(segment, 1, copied)
          IN  IF Stuck(segment) THEN Fails
              ELSE /\ out' = longer /\ remaining' = remaining - copied
                   /\ currentBlock' = NextBlock
                   /\ IF copied = remaining
                      THEN /\ attributes' = Append(attributes, Attribute(Entry, longer))
                           /\ entries' = Tail(entries) /\ stage' = "walk"
                      ELSE UNCHANGED <<attributes, entries, stage>>
                   /\ UNCHANGED <<fork, stack, result>>

XattrStep == Open \/ ReadBlock \/ NodeEnds \/ WalkEnds \/ TakeEntry \/ ReadSegment

XattrNext == XattrStep \/ (stage = "done" /\ UNCHANGED xattrVars)

XattrSpec == XattrInit /\ [][XattrNext]_xattrVars

-------------------------------------------------------------------------------
(* What a reader of the blocks takes them for. *)

\* The attributes are looked for in blocks.
Blocks ==
  /\ fork.type \in {"extents", "btree"} /\ fork.extents # <<>>
  /\ LeadReadable /\ ~ShortForm

\* A value: that many bytes of the segments of the blocks from its first on.
Gives(block) == Readable(block) /\ ~Misplaced(block) /\ Segment(block) # <<>>

\* The number of the block so many places on, in 32 bits: after the last number comes 0.
BlockAt(start, n) == (start + n) % BlockModulus

Segments(start, n) == FlattenSeq([i \in 1 .. n |-> Segment(BlockAt(start, i - 1))])

Enough(entry) ==
  {n \in 1 .. entry.size :
     /\ \A i \in 1 .. n : Gives(BlockAt(entry.start, i - 1))
     /\ Len(Segments(entry.start, n)) >= entry.size}

BlocksOf(entry) == CHOOSE n \in Enough(entry) : TRUE

Value(entry) ==
  IF "start" \notin DOMAIN entry THEN entry.value
  ELSE IF entry.size = 0 THEN <<>>
  ELSE SubSeq(Segments(entry.start, BlocksOf(entry)), 1, entry.size)

Decodable(entry) ==
  Supported(entry) /\ ("start" \in DOMAIN entry /\ entry.size > 0 => Enough(entry) # {})

\* What is where a block should be that is too deep, cannot be read or is neither leaf nor node.
Missing == [name |-> "missing", flags |-> {"missing"}]

\* The entries of a leaf, or those under a node from left to right, given those under any block.
EntriesOf(block, under) ==
  CASE Block(block).kind = "leaf" -> Block(block).entries
    [] Block(block).kind = "node" ->
         FlattenSeq([i \in DOMAIN Block(block).children |-> under[Block(block).children[i]]])
    [] OTHER -> <<Missing>>

\* The entries under a block that has so many levels left.
EntriesUnder ==
  LET under[levels \in 0 .. MaxNodeDepth + 1] ==
        [block \in Nat |-> IF levels = 0 \/ ~Readable(block) THEN <<Missing>>
                           ELSE EntriesOf(block, under[levels - 1])]
  IN  under

Listing == EntriesUnder[MaxNodeDepth + 1][0]

Whole(list) == \A i \in DOMAIN list : Decodable(list[i])

\* The list is all that the blocks hold, in the order of the tree, with duplicates, and
\* there is an error exactly when a block or a value of it is missing: what was read
\* before a damaged block is never given for the whole (xattr.go:87-126, :298-346, and
\* the comment volume.go:201-205 on order and duplicates).  A value has the blocks that
\* their numbers of 32 bits name, which begin again at 0 (xattr.go:342), see NoValueWraps.
WholeOrError ==
  stage = "done" /\ Blocks =>
    IF Whole(Listing)
    THEN result = "ok" /\ attributes = [i \in DOMAIN Listing |-> Attribute(Listing[i], Value(Listing[i]))]
    ELSE result = "error"

\* Not so: a value that has read the last block that 32 bits can number goes on at block 0,
\* and what is there ends up in it without an error (xattr.go:342).
NoValueWraps ==
  stage = "done" /\ Blocks /\ result = "ok" =>
    \A i \in DOMAIN Listing :
      "start" \in DOMAIN Listing[i] /\ Listing[i].size > 0 =>
        \E n \in Enough(Listing[i]) : Listing[i].start + n <= BlockModulus

\* Not so: a block whose first bytes happen to be a short-form list is taken for one.
BlocksAreRead ==
  stage = "done" /\ fork.type \in {"extents", "btree"} /\ fork.extents # <<>> /\ Whole(Listing) =>
    result = "ok" /\ Len(attributes) = Len(Listing)
===============================================================================
