------------------------------ MODULE PathResolve ------------------------------
(***************************************************************************)
(* The calls that take a path: its resolution name by name                 *)
(* (ResolveInodeByPath), each name by the hash index and then by a listing *)
(* of what can be read (lookupDirectoryEntry), and what is done with the   *)
(* inode it leads to.  Directories may have lost blocks, an index may be   *)
(* missing, partial or stale, inodes may be unreadable, and another        *)
(* goroutine may close the volume at any point.                            *)
(*                                                                         *)
(* What an index lookup and a listing promise is that of DirectoryIndex    *)
(* and DirectoryScan: an index answers or says nothing, and a listing      *)
(* returns no error only when nothing of it is missing but the blocks that *)
(* it passes over, those that a damaged size puts out of an int's reach.   *)
(***************************************************************************)
EXTENDS Integers, SequencesExt

CONSTANTS
  Filesystems,  \* functions from inode numbers to inodes
  RootInode,    \* sb.RootDirectoryInodeNumber
  Paths,        \* [absolute |-> BOOLEAN, parts |-> the strings between the slashes]
  MaxDepth      \* maxPathTraversalDepth

ASSUME PathAssumption ==
  /\ RootInode \in Nat \ {0} /\ MaxDepth \in Nat
  /\ \A i \in Filesystems : RootInode \in DOMAIN i
  /\ \A p \in Paths : p.parts \in Seq(STRING)
ASSUME EntryAssumption ==
  \A i \in Filesystems : \A d \in DOMAIN i :
    i[d].kind = "directory" =>
      i[d].entries \in Seq([name : STRING, number : Nat, block : {"readable", "lost", "passed"}])

\* An inode is [kind |-> "file"], [kind |-> "unreadable"], or a directory: its
\* entries, [name, number, block], in the order of a listing, where a lost block is one
\* that cannot be read or decoded and a passed one is as in DirectoryScan; index, a
\* function from the names its index resolves; and up, the number its ".." has, in the
\* header of an inline directory or in the first block, which may be lost or passed: a
\* set of one or none.

Operations == {"ResolveInodeByPath", "OpenInodeByPath", "ListDirectoryEntriesByPath",
               "DirectoryParentInodeByPath", "ReadFileDataByPath"}

VARIABLES
  image, path, operation,
  stage,
  at,         \* the parts that are behind
  current,
  entered,    \* visited
  closed,
  result      \* "none", "invalid", "loop", "notFound", "error" or "ok"

request == <<image, path, operation>>
pathVars == <<request, stage, at, current, entered, closed, result>>

PathInit ==
  /\ image \in Filesystems /\ path \in Paths /\ operation \in Operations
  /\ stage = "check" /\ at = 0 /\ current = RootInode /\ entered = {RootInode}
  /\ closed = FALSE /\ result = "none"

Inode == IF current \in DOMAIN image THEN image[current] ELSE [kind |-> "unreadable"]
IsDirectory == Inode.kind = "directory"
Name == path.parts[at + 1]

Return(verdict) ==
  /\ stage' = "done" /\ result' = verdict
  /\ UNCHANGED <<request, at, current, entered, closed>>

\* The slashes at both ends are trimmed, so "/" and "//" have no parts.
Check ==
  /\ stage = "check"
  /\ IF ~path.absolute \/ Len(path.parts) > MaxDepth
     THEN Return("invalid")
     ELSE stage' = "walk" /\ UNCHANGED <<request, at, current, entered, closed, result>>

Skip ==
  /\ stage = "walk" /\ at < Len(path.parts) /\ Name \in {"", "."}
  /\ at' = at + 1
  /\ UNCHANGED <<request, stage, current, entered, closed, result>>

-------------------------------------------------------------------------------
(* lookupDirectoryEntry *)

\* What the loop makes of a number: 0 is a name that is not there.
Enter(number) ==
  \/ number = 0 /\ Return("notFound")
  \/ number # 0 /\ number \in entered /\ Return("loop")
  \/ /\ number \notin entered \cup {0}
     /\ stage' = "walk" /\ at' = at + 1
     /\ current' = number /\ entered' = entered \cup {number}
     /\ UNCHANGED <<request, closed, result>>

Resolvable == IsDirectory /\ Name \in DOMAIN Inode.index

LookupByHash ==
  /\ stage = "walk" /\ at < Len(path.parts) /\ Name \notin {"", "."}
  /\ \/ ~closed /\ Resolvable /\ Enter(Inode.index[Name])
     \/ /\ closed \/ ~Resolvable
        /\ stage' = "list"
        /\ UNCHANGED <<request, at, current, entered, closed, result>>

\* The places of a listing that could be read.
Recovered == {i \in DOMAIN Inode.entries : Inode.entries[i].block = "readable"}

\* A listing without an error: a block that is passed over is none.
Complete == \A i \in DOMAIN Inode.entries : Inode.entries[i].block # "lost"

Named(places) == {i \in places : Inode.entries[i].name = Name}

\* The loop over what was recovered ends at the first entry of the name.
EnterFirst(places) == Enter(Inode.entries[Min(Named(places))].number)

\* A lookup that asks for the error of the listing first.
SearchListingComplete(places, complete) ==
  IF ~complete THEN Return("error")
  ELSE IF Named(places) # {} THEN EnterFirst(places) ELSE Return("notFound")

\* A lookup that takes a listing for complete when it holds anything.
SearchListingTrusting(places, complete) ==
  IF Named(places) # {} THEN EnterFirst(places)
  ELSE Return(IF complete \/ places # {} THEN "notFound" ELSE "error")

\* What was recovered is searched before the error is looked at.
SearchListing(places, complete) ==
  IF Named(places) # {} THEN EnterFirst(places)
  ELSE Return(IF complete THEN "notFound" ELSE "error")

ListEntries ==
  /\ stage = "list"
  /\ IF closed \/ ~IsDirectory THEN Return("error")
     ELSE stage' = "listing" /\ UNCHANGED <<request, at, current, entered, closed, result>>

\* A volume that is closed in the middle of a listing cuts it short.
LookupByListing ==
  /\ stage = "listing"
  /\ \/ ~closed /\ SearchListing(Recovered, Complete)
     \/ /\ closed
        /\ \E n \in 0 .. Len(Inode.entries) :
             SearchListing({i \in Recovered : i <= n}, FALSE)

-------------------------------------------------------------------------------
(* What is done with the inode. *)

(* DirectoryParentInode *)

\* The number of "." for that of "..".
ParentSelf == {current}

Parent == Inode.up

ReturnParent ==
  \/ \E number \in Parent :
       /\ stage' = "done" /\ result' = "ok" /\ current' = number
       /\ UNCHANGED <<request, at, entered, closed>>
  \* The block cannot be decoded, or holds no "..".
  \/ Parent = {} /\ (Return("error") \/ Return("notFound"))

Finish ==
  /\ stage = "walk" /\ at = Len(path.parts)
  /\ \/ operation = "ResolveInodeByPath" /\ Return("ok")
     \/ /\ operation # "ResolveInodeByPath"
        /\ closed \/ Inode.kind = "unreadable"
        /\ Return("error")
     \/ /\ ~closed /\ Inode.kind # "unreadable"
        /\ \/ operation = "OpenInodeByPath" /\ Return("ok")
           \/ /\ operation = "ReadFileDataByPath"   \* a read may fail, see module Extents
              /\ (~IsDirectory /\ Return("ok")) \/ Return("error")
           \/ /\ operation = "ListDirectoryEntriesByPath"
              /\ Return(IF IsDirectory /\ Complete THEN "ok" ELSE "error")
           \/ /\ operation = "DirectoryParentInodeByPath"
              /\ (IsDirectory /\ ReturnParent) \/ (~IsDirectory /\ Return("error"))

Close ==
  /\ ~closed /\ closed' = TRUE
  /\ UNCHANGED <<request, stage, at, current, entered, result>>

PathNext ==
  \/ Check \/ Skip \/ LookupByHash \/ ListEntries \/ LookupByListing \/ Finish \/ Close
  \/ stage = "done" /\ UNCHANGED pathVars

PathSpec == PathInit /\ [][PathNext]_pathVars

-------------------------------------------------------------------------------
(* What the image says. *)

Entries(number) ==
  IF number \notin DOMAIN image \/ image[number].kind # "directory" THEN {}
  ELSE ToSet(image[number].entries)

Held(number, name) == {e.number : e \in {e \in Entries(number) : e.name = name}}

HeldReadably(number, name) ==
  {e.number : e \in {e \in Entries(number) : e.name = name /\ e.block = "readable"}}

HeldInReach(number, name) ==
  {e.number : e \in {e \in Entries(number) : e.name = name /\ e.block # "passed"}}

\* A tree that was sound before parts of it were lost: a directory has one entry for a
\* name, and is named once, by its parent; an index agrees with the entries, and may
\* resolve ".." too.
Sound ==
  \A d \in DOMAIN image :
    /\ \A e \in Entries(d) :
         /\ e.number \in DOMAIN image \ {0, RootInode}
         /\ \A other \in Entries(d) : other.name = e.name => other = e
         /\ image[e.number].kind = "directory" =>
              /\ image[e.number].up \subseteq {d}
              /\ \A c \in DOMAIN image : \A other \in Entries(c) :
                   other.number = e.number => c = d /\ other = e
    /\ image[d].kind = "directory" =>
         \A name \in DOMAIN image[d].index :
           {image[d].index[name]} = IF name = ".." THEN image[d].up ELSE Held(d, name)

\* Where names lead to from the root by what directories hold, a set of one inode or none.
Leads(parts, Holds(_, _)) ==
  LET found[n \in 0 .. Len(parts)] ==
        IF n = 0 THEN {RootInode}
        ELSE IF parts[n] \in {"", "."} THEN found[n - 1]
        ELSE UNION {Holds(number, parts[n]) : number \in found[n - 1]}
  IN  found[Len(parts)]

Downward == ".." \notin ToSet(path.parts)

\* However much of a sound tree is lost, and whenever the volume is closed, a path leads
\* to its inode or to an error: no other inode is returned, the path is not said to be a
\* loop, and a name is said not to be there only when that is so, or when it is in a block
\* that listings pass over (directory.go:216-234, :244-265, directory_scan.go:435-437).
DamageNeverMisleads ==
  Sound /\ Downward /\ operation # "DirectoryParentInodeByPath" =>
    /\ result = "ok"       => Leads(path.parts, Held) = {current}
    /\ result = "notFound" => Leads(path.parts, HeldInReach) = {}
    /\ result # "loop"

\* Not so: a name in a block that listings pass over is said not to be there.
AbsentIsAbsent ==
  Sound /\ Downward /\ operation # "DirectoryParentInodeByPath" /\ result = "notFound" =>
    Leads(path.parts, Held) = {}

\* A path each name of which is held in a block that can be read resolves, whatever else
\* of the directories is lost: one unreadable block strands nothing (directory.go:251-254).
ReadableNamesResolve ==
  stage = "done" /\ Sound /\ Downward /\ operation = "ResolveInodeByPath" /\ ~closed
      /\ Leads(path.parts, HeldReadably) # {} =>
    result \in {"ok", "invalid"}

\* The parent of what a path names is what the path without that name leads to: the link
\* up and the links down agree (directory.go:83-117).
ParentUndoesPath ==
  operation = "DirectoryParentInodeByPath" /\ result = "ok" /\ Sound /\ Downward
      /\ path.parts # <<>> /\ Last(path.parts) \notin {"", "."} =>
    Leads(Front(path.parts), Held) = {current}

\* Not so: a ".." that an index resolves leads to a directory the path has passed.
LoopsAreLoops == Sound => result # "loop"
===============================================================================
