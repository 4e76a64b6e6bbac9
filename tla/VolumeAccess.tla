----------------------------- MODULE VolumeAccess -----------------------------
(***************************************************************************)
(* The concurrency layer of a Volume: its lifetime (closed flag, backing   *)
(* reader, source closer) under stateMu, its inode cache under             *)
(* inodeCacheMu, and the goroutines that call it.                          *)
(*                                                                         *)
(* Every exported read API begins with OpenInode and goes on with zero or  *)
(* more reads of the source through readAt.  "OpenInode" and "ReadData"    *)
(* stand for those; "IsClosed", "ResolveRoot" (the path "/", and           *)
(* Superblock: answered from the parsed superblock alone) and "Close" are  *)
(* the other shapes a call takes.  Two steps are distinct here when        *)
(* another goroutine can act between them.                                 *)
(***************************************************************************)
EXTENDS GoRWMutex, Naturals, FiniteSets

CONSTANTS Inodes,      \* inode numbers a caller may open
          NoInode,     \* not an inode number
          Ops,         \* the operations callers use in this instance
          FetchReads,  \* how many reads parsing one inode may take
          DataReads    \* how many reads follow once the inode is open

AllOps == {"OpenInode", "ReadData", "IsClosed", "ResolveRoot", "Close"}

ASSUME NoInodeAssumption == NoInode \notin Inodes
ASSUME OpsAssumption == Ops \subseteq AllOps
ASSUME ReadsAssumption == /\ FetchReads \subseteq Nat \ {0}
                          /\ DataReads \subseteq Nat

\* The inode cache after Close: a nil map, which is no set of inodes.
NilCache == {NoInode}

VARIABLES
  pc,           \* where each goroutine is
  op, ino,      \* the call it is in, and the inode it asked for
  reads,        \* the source reads its present phase has left
  phase,        \* "fetch" while parsing the inode, "data" afterwards
  res,          \* the outcome of its last call
  began,        \* was the volume open, closing or closed when that call began?
  stateMu, inodeCacheMu,
  closed,       \* Volume.closed
  inodeCache,   \* the cached inode numbers, or NilCache
  source,       \* the backing handle: "open" or "released"
  sourceCloser  \* does the volume own the handle?

progress == <<reads, phase, res>>
locals == <<op, ino, began, progress>>
shared == <<stateMu, inodeCacheMu, closed, inodeCache, source, sourceCloser>>
vars == <<pc, locals, shared>>

Results == {"none", "ok", "closed", "failed"}

PCs == {"idle", "resolveRoot",
        "isClosed", "inIsClosed",
        "lookup", "inLookup",
        "readAt", "inReadAt", "inSource",
        "store", "waitStore", "inStore",
        "close", "waitClose", "clear", "waitClear", "inClear", "release"}

Init ==
  /\ pc = [t \in Threads |-> "idle"]
  /\ op = [t \in Threads |-> "OpenInode"]
  /\ ino = [t \in Threads |-> NoInode]
  /\ reads = [t \in Threads |-> 0]
  /\ phase = [t \in Threads |-> "fetch"]
  /\ res = [t \in Threads |-> "none"]
  /\ began = [t \in Threads |-> "open"]
  /\ stateMu = NewMutex
  /\ inodeCacheMu = NewMutex
  /\ closed = FALSE
  /\ inodeCache = {}
  /\ source = "open"
  /\ sourceCloser \in BOOLEAN   \* OpenVolumeFromPath sets it, Open does not

-------------------------------------------------------------------------------
Goto(t, from, to) == pc[t] = from /\ pc' = [pc EXCEPT ![t] = to]

Finish(t, r) == /\ pc' = [pc EXCEPT ![t] = "idle"]
                /\ res' = [res EXCEPT ![t] = r]
                /\ reads' = [reads EXCEPT ![t] = 0]
                /\ phase' = [phase EXCEPT ![t] = "fetch"]

\* The first step of each operation.
Entry(o) == CASE o = "ResolveRoot" -> "resolveRoot"
              [] o = "Close"       -> "close"
              [] OTHER             -> "isClosed"

\* A goroutine in the part of Close that only the call that closes reaches.
Clearing(t) == pc[t] \in {"clear", "waitClear", "inClear"}
Closing(t) == Clearing(t) \/ pc[t] = "release"

Moment == IF ~closed THEN "open"
          ELSE IF \E t \in Threads : Closing(t) THEN "closing" ELSE "closed"

Begin(t) ==
  /\ pc[t] = "idle"
  /\ \E o \in Ops, i \in Inodes :
       /\ op' = [op EXCEPT ![t] = o]
       /\ ino' = [ino EXCEPT ![t] = i]
       /\ pc' = [pc EXCEPT ![t] = Entry(o)]
  /\ res' = [res EXCEPT ![t] = "none"]
  /\ began' = [began EXCEPT ![t] = Moment]
  /\ UNCHANGED <<reads, phase, shared>>

\* ResolveInodeByPath("/") consults neither the closed flag nor the source.
ResolveRoot(t) ==
  /\ pc[t] = "resolveRoot"
  /\ Finish(t, "ok")
  /\ UNCHANGED <<op, ino, began, shared>>

-------------------------------------------------------------------------------
(* IsClosed, by itself or as the first thing OpenInode does *)

IsClosedLock(t) ==
  /\ Goto(t, "isClosed", "inIsClosed")
  /\ stateMu' = RLock(stateMu, t)
  /\ UNCHANGED <<locals, inodeCacheMu, closed, inodeCache, source, sourceCloser>>

\* IsClosed whose deferred RUnlock is forgotten.
IsClosedLeaky(t) ==
  /\ pc[t] = "inIsClosed" /\ HoldsRead(stateMu, t)
  /\ IF op[t] = "IsClosed" \/ closed
     THEN Finish(t, IF closed THEN "closed" ELSE "ok")
     ELSE pc' = [pc EXCEPT ![t] = "lookup"] /\ UNCHANGED progress
  /\ UNCHANGED <<op, ino, began, shared>>

\* OpenInode goes on to the cache when the volume is open; out-of-range inode
\* numbers are refused after this check.
IsClosed(t) ==
  /\ pc[t] = "inIsClosed" /\ HoldsRead(stateMu, t)
  /\ stateMu' = RUnlock(stateMu, t)
  /\ \/ /\ op[t] = "IsClosed" \/ closed
        /\ Finish(t, IF closed THEN "closed" ELSE "ok")
     \/ /\ op[t] # "IsClosed" /\ ~closed
        /\ \/ pc' = [pc EXCEPT ![t] = "lookup"] /\ UNCHANGED progress
           \/ Finish(t, "failed")
  /\ UNCHANGED <<op, ino, began, inodeCacheMu, closed, inodeCache, source, sourceCloser>>

-------------------------------------------------------------------------------
(* lookupCachedInode, and what OpenInode and its callers do next *)

LookupLock(t) ==
  /\ Goto(t, "lookup", "inLookup")
  /\ inodeCacheMu' = RLock(inodeCacheMu, t)
  /\ UNCHANGED <<locals, stateMu, closed, inodeCache, source, sourceCloser>>

CacheHit(i) == inodeCache # NilCache /\ i \in inodeCache

\* The inode is open: return it, or read what it maps.
Opened(t) ==
  \/ (op[t] = "OpenInode" \/ 0 \in DataReads) /\ Finish(t, "ok")
  \/ /\ op[t] = "ReadData"
     /\ phase' = [phase EXCEPT ![t] = "data"]
     /\ \E n \in DataReads \ {0} : reads' = [reads EXCEPT ![t] = n]
     /\ pc' = [pc EXCEPT ![t] = "readAt"]
     /\ UNCHANGED res

LookupCached(t) ==
  /\ pc[t] = "inLookup" /\ HoldsRead(inodeCacheMu, t)
  /\ inodeCacheMu' = RUnlock(inodeCacheMu, t)
  /\ IF CacheHit(ino[t])
     THEN Opened(t)
     ELSE /\ \E n \in FetchReads : reads' = [reads EXCEPT ![t] = n]
          /\ phase' = [phase EXCEPT ![t] = "fetch"]
          /\ pc' = [pc EXCEPT ![t] = "readAt"]
          /\ UNCHANGED res
  /\ UNCHANGED <<op, ino, began, stateMu, closed, inodeCache, source, sourceCloser>>

-------------------------------------------------------------------------------
(* readAt: the only way to the source *)

ReadAtLock(t) ==
  /\ Goto(t, "readAt", "inReadAt")
  /\ stateMu' = RLock(stateMu, t)
  /\ UNCHANGED <<locals, inodeCacheMu, closed, inodeCache, source, sourceCloser>>

\* readAt that gives the lock back before it reads.
ReadAtEarlyUnlock(t) ==
  /\ pc[t] = "inReadAt" /\ HoldsRead(stateMu, t)
  /\ stateMu' = RUnlock(stateMu, t)
  /\ IF closed THEN Finish(t, "closed")
               ELSE pc' = [pc EXCEPT ![t] = "inSource"] /\ UNCHANGED progress
  /\ UNCHANGED <<op, ino, began, inodeCacheMu, closed, inodeCache, source, sourceCloser>>

ReadAtCheck(t) ==
  /\ pc[t] = "inReadAt" /\ HoldsRead(stateMu, t)
  /\ IF closed
     THEN Finish(t, "closed") /\ stateMu' = RUnlock(stateMu, t)
     ELSE /\ pc' = [pc EXCEPT ![t] = "inSource"]
          /\ UNCHANGED <<progress, stateMu>>
  /\ UNCHANGED <<op, ino, began, inodeCacheMu, closed, inodeCache, source, sourceCloser>>

\* What follows a read that succeeded: another one, the parse of the inode
\* (which may reject it), or the end of the call.
AfterRead(t) ==
  \/ /\ reads[t] > 1
     /\ reads' = [reads EXCEPT ![t] = @ - 1]
     /\ pc' = [pc EXCEPT ![t] = "readAt"]
     /\ UNCHANGED <<phase, res>>
  \/ /\ reads[t] = 1 /\ phase[t] = "fetch"
     /\ \/ /\ reads' = [reads EXCEPT ![t] = 0]
           /\ pc' = [pc EXCEPT ![t] = "store"]
           /\ UNCHANGED <<phase, res>>
        \/ Finish(t, "failed")
  \/ /\ reads[t] = 1 /\ phase[t] = "data"
     /\ Finish(t, "ok")

ReadAtReturn(t) ==
  /\ pc[t] = "inSource"
  /\ stateMu' = RUnlock(stateMu, t)
  /\ \/ AfterRead(t)
     \/ Finish(t, "failed")   \* the source reports an error
  /\ UNCHANGED <<op, ino, began, inodeCacheMu, closed, inodeCache, source, sourceCloser>>

-------------------------------------------------------------------------------
(* cacheInode *)

StoreLock(t) ==
  /\ Goto(t, "store", "waitStore")
  /\ CanAnnounce(inodeCacheMu)
  /\ inodeCacheMu' = Announce(inodeCacheMu, t)
  /\ UNCHANGED <<locals, stateMu, closed, inodeCache, source, sourceCloser>>

\* cacheInode that takes the lock for reading only.
StoreSharedLock(t) ==
  /\ pc[t] = "waitStore"
  /\ pc' = [pc EXCEPT ![t] = "inStore"]
  /\ UNCHANGED <<locals, shared>>

\* cacheInode that makes a fresh map when it finds none.
StoreReviving(t) ==
  /\ pc[t] = "waitStore" /\ HoldsWrite(inodeCacheMu, t)
  /\ inodeCache' = (IF inodeCache = NilCache THEN {} ELSE inodeCache)
  /\ pc' = [pc EXCEPT ![t] = "inStore"]
  /\ UNCHANGED <<locals, stateMu, inodeCacheMu, closed, source, sourceCloser>>

\* A nil map means the volume was closed during the parse: drop the result.
StoreCheck(t) ==
  /\ pc[t] = "waitStore" /\ HoldsWrite(inodeCacheMu, t)
  /\ IF inodeCache = NilCache
     THEN Opened(t) /\ inodeCacheMu' = Unlock(inodeCacheMu)
     ELSE /\ pc' = [pc EXCEPT ![t] = "inStore"]
          /\ UNCHANGED <<progress, inodeCacheMu>>
  /\ UNCHANGED <<op, ino, began, stateMu, closed, inodeCache, source, sourceCloser>>

StoreWrite(t) ==
  /\ pc[t] = "inStore"
  /\ inodeCache' = inodeCache \cup {ino[t]}
  /\ inodeCacheMu' = Unlock(inodeCacheMu)
  /\ Opened(t)
  /\ UNCHANGED <<op, ino, began, stateMu, closed, source, sourceCloser>>

-------------------------------------------------------------------------------
(* Close *)

CloseLock(t) ==
  /\ Goto(t, "close", "waitClose")
  /\ CanAnnounce(stateMu)
  /\ stateMu' = Announce(stateMu, t)
  /\ UNCHANGED <<locals, inodeCacheMu, closed, inodeCache, source, sourceCloser>>

\* Close that does not look whether the volume is closed already.
CloseAgain(t) ==
  /\ pc[t] = "waitClose" /\ HoldsWrite(stateMu, t)
  /\ closed' = TRUE
  /\ pc' = [pc EXCEPT ![t] = "clear"]
  /\ UNCHANGED <<locals, stateMu, inodeCacheMu, inodeCache, source, sourceCloser>>

CloseCheck(t) ==
  /\ pc[t] = "waitClose" /\ HoldsWrite(stateMu, t)
  /\ IF closed
     THEN Finish(t, "closed") /\ stateMu' = Unlock(stateMu) /\ UNCHANGED closed
     ELSE /\ closed' = TRUE
          /\ pc' = [pc EXCEPT ![t] = "clear"]
          /\ UNCHANGED <<progress, stateMu>>
  /\ UNCHANGED <<op, ino, began, inodeCacheMu, inodeCache, source, sourceCloser>>

ClearLock(t) ==
  /\ Goto(t, "clear", "waitClear")
  /\ CanAnnounce(inodeCacheMu)
  /\ inodeCacheMu' = Announce(inodeCacheMu, t)
  /\ UNCHANGED <<locals, stateMu, closed, inodeCache, source, sourceCloser>>

ClearEnter(t) ==
  /\ HoldsWrite(inodeCacheMu, t)
  /\ Goto(t, "waitClear", "inClear")
  /\ UNCHANGED <<locals, shared>>

ClearInodeCache(t) ==
  /\ Goto(t, "inClear", "release")
  /\ inodeCache' = NilCache
  /\ inodeCacheMu' = Unlock(inodeCacheMu)
  /\ UNCHANGED <<locals, stateMu, closed, source, sourceCloser>>

\* A source that fails to close may or may not be gone; the volume keeps the
\* closer, but no later call reaches it.
ReleaseSource(t) ==
  /\ pc[t] = "release"
  /\ stateMu' = Unlock(stateMu)
  /\ \/ ~sourceCloser /\ Finish(t, "ok") /\ UNCHANGED <<source, sourceCloser>>
     \/ /\ sourceCloser
        /\ source' = "released" /\ sourceCloser' = FALSE
        /\ Finish(t, "ok")
     \/ /\ sourceCloser
        /\ source' \in {source, "released"}
        /\ Finish(t, "failed")
        /\ UNCHANGED sourceCloser
  /\ UNCHANGED <<op, ino, began, inodeCacheMu, closed, inodeCache>>

-------------------------------------------------------------------------------
\* What a goroutine does inside a call; whether it makes one is its choice.
Announcing(t) == StoreLock(t) \/ CloseLock(t) \/ ClearLock(t)

Working(t) ==
  \/ ResolveRoot(t) \/ IsClosedLock(t) \/ IsClosed(t)
  \/ LookupLock(t) \/ LookupCached(t)
  \/ ReadAtLock(t) \/ ReadAtCheck(t) \/ ReadAtReturn(t)
  \/ StoreCheck(t) \/ StoreWrite(t)
  \/ CloseCheck(t) \/ ClearEnter(t) \/ ClearInodeCache(t) \/ ReleaseSource(t)

Next == \E t \in Threads : Begin(t) \/ Announcing(t) \/ Working(t)

Spec == Init /\ [][Next]_vars

(***************************************************************************)
(* A goroutine inside a call is scheduled, and its reads of the source     *)
(* return.  sync.Mutex hands itself over to a waiter it has starved, which *)
(* is the strong fairness of a writer's announcement.                      *)
(***************************************************************************)
Fairness == \A t \in Threads : WF_vars(Working(t)) /\ SF_vars(Announcing(t))

FairSpec == Spec /\ Fairness

-------------------------------------------------------------------------------
TypeOK ==
  /\ pc \in [Threads -> PCs]
  /\ op \in [Threads -> AllOps]
  /\ ino \in [Threads -> Inodes \cup {NoInode}]
  /\ reads \in [Threads -> Nat]
  /\ phase \in [Threads -> {"fetch", "data"}]
  /\ res \in [Threads -> Results]
  /\ began \in [Threads -> {"open", "closing", "closed"}]
  /\ stateMu \in Mutex
  /\ inodeCacheMu \in Mutex
  /\ closed \in BOOLEAN
  /\ inodeCache \in (SUBSET Inodes) \cup {NilCache}
  /\ source \in {"open", "released"}
  /\ sourceCloser \in BOOLEAN

\* No goroutine is inside the source's ReadAt once its handle is released:
\* what readAt holds stateMu for (volume_access.go, Close).
NoReadAfterRelease ==
  \A t \in Threads : pc[t] = "inSource" => source = "open"

\* While one goroutine writes the inode cache no other goroutine reads or
\* writes it: the map is free of data races.
CacheRaceFree ==
  \A t, u \in Threads :
    t # u /\ pc[t] \in {"inStore", "inClear"}
      => ~(\/ pc[u] \in {"inStore", "inClear"}
           \/ pc[u] = "inLookup" /\ HoldsRead(inodeCacheMu, u))

\* No goroutine writes to the nil map that Close leaves behind, wherever Close
\* lands between its closed check and its cache write: it would panic.
NoNilMapWrite ==
  \A t \in Threads : pc[t] = "inStore" => inodeCache # NilCache

\* Once the volume is closed and the Close that closed it is past the cache,
\* nothing is cached ever after: no parse that was in flight brings it back.
CacheStaysDead ==
  closed /\ (\A t \in Threads : ~Clearing(t)) => inodeCache = NilCache

\* A call that began on a volume with its closed flag set, even while Close was
\* still at work, reports ErrVolumeClosed, whatever is cached and whichever
\* locks are free.  The root path is the exception.
LateCallsFail ==
  \A t \in Threads :
    pc[t] = "idle" /\ began[t] # "open" /\ op[t] # "ResolveRoot" => res[t] = "closed"

\* The comment of Close: "Subsequent operations return ErrVolumeClosed".
SubsequentCallsFail ==
  \A t \in Threads : pc[t] = "idle" /\ began[t] = "closed" => res[t] = "closed"

\* No goroutine asks for the cache lock while it holds the state lock: the "no
\* lock ordering to observe" of volume_access.go.
NoNestedLocks ==
  \A t \in Threads :
    HoldsRead(stateMu, t) \/ HoldsWrite(stateMu, t)
      => /\ t \notin inodeCacheMu.readers \cup inodeCacheMu.waiting
         /\ inodeCacheMu.owner # t

\* Every call returns: no lock is kept, no two goroutines wait on each other,
\* and no stream of readers holds Close back for ever.
CallsReturn == \A t \in Threads : pc[t] # "idle" ~> pc[t] = "idle"

(***************************************************************************)
(* The volume as its callers see it.                                       *)
(***************************************************************************)
CallView(t) ==
  CASE pc[t] = "idle" -> "none"
    [] pc[t] = "resolveRoot" -> "exempt"
    [] Closing(t) -> "closing"
    [] OTHER -> IF began[t] = "open" THEN "early" ELSE "late"

Lifetime == INSTANCE VolumeLifetime WITH
  open    <- ~closed,
  reading <- {t \in Threads : pc[t] = "inSource"},
  call    <- [t \in Threads |-> CallView(t)],
  outcome <- res

\* Locks, cache and retries included, a Volume is a VolumeLifetime.
ImplementsLifetime == Lifetime!Spec
===============================================================================
