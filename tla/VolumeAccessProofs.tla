--------------------------- MODULE VolumeAccessProofs ---------------------------
(***************************************************************************)
(* Proofs about the concurrency layer of a Volume, for any number of       *)
(* goroutines and inodes.                                                  *)
(***************************************************************************)
EXTENDS VolumeAccess, TLAPS

(***************************************************************************)
(* What each operation on a lock does to its fields, so that the proofs    *)
(* below need not look into the lock's record.                             *)
(***************************************************************************)
LEMMA MutexFacts ==
  ASSUME NEW m \in Mutex, NEW t \in Threads
  PROVE  /\ RLock(m, t) \in Mutex
         /\ RLock(m, t).owner = m.owner
         /\ m.readers \subseteq RLock(m, t).readers
         /\ m.owner # NoThread => RLock(m, t).readers = m.readers
         /\ RUnlock(m, t) \in Mutex
         /\ RUnlock(m, t).owner = m.owner
         /\ RUnlock(m, t).readers = m.readers \ {t}
         /\ Announce(m, t) \in Mutex
         /\ Announce(m, t).owner = t
         /\ Announce(m, t).readers = m.readers
         /\ Unlock(m) \in Mutex
         /\ Unlock(m).owner = NoThread
  BY DEF Mutex, RLock, RUnlock, Announce, Unlock

LEMMA NewMutexType == NewMutex \in Mutex /\ NewMutex.readers = {}
  BY DEF NewMutex, Mutex


LEMMA TypeInit == Init => TypeOK
<1> SUFFICES ASSUME Init PROVE TypeOK
  OBVIOUS
<1> QED
  BY NewMutexType DEF Init, TypeOK, PCs, AllOps, Results

\* The map a goroutine is about to write exists, and its key is an inode number.
Storable ==
  /\ NoNilMapWrite
  /\ \A t \in Threads : pc[t] # "idle" => ino[t] \in Inodes

LEMMA TypeStep == TypeOK /\ Storable /\ [Next]_vars => TypeOK'
<1> SUFFICES ASSUME TypeOK, Storable, [Next]_vars PROVE TypeOK'
  OBVIOUS
<1> DEFINE LocalsOK == /\ pc \in [Threads -> PCs]
                       /\ reads \in [Threads -> Nat]
                       /\ phase \in [Threads -> {"fetch", "data"}]
                       /\ res \in [Threads -> Results]
<1> DEFINE LocksOK == stateMu \in Mutex /\ inodeCacheMu \in Mutex
<1> USE DEF TypeOK, PCs, Results
<1>1. CASE UNCHANGED vars
  BY <1>1 DEF vars, locals, progress, shared
<1>2. ASSUME NEW t \in Threads, Begin(t) PROVE TypeOK'
  <2>1. LocksOK'
    BY <1>2, MutexFacts DEF Begin, shared
  <2>2. QED
    BY <1>2, <2>1, OpsAssumption DEF Begin, Entry, Moment, shared, AllOps
<1>3. ASSUME NEW t \in Threads, ResolveRoot(t) PROVE TypeOK'
  <2>1. LocksOK'
    BY <1>3, MutexFacts DEF ResolveRoot, shared
  <2>2. QED
    BY <1>3, <2>1 DEF ResolveRoot, Finish, shared
<1>4. ASSUME NEW t \in Threads, IsClosedLock(t) PROVE TypeOK'
  <2>1. LocksOK'
    BY <1>4, MutexFacts DEF IsClosedLock
  <2>2. QED
    BY <1>4, <2>1 DEF IsClosedLock, Goto, locals, progress
<1>5. ASSUME NEW t \in Threads, IsClosed(t) PROVE TypeOK'
  <2>1. LocksOK'
    BY <1>5, MutexFacts DEF IsClosed
  <2>2. QED
    BY <1>5, <2>1 DEF IsClosed, Finish, progress
<1>6. ASSUME NEW t \in Threads, LookupLock(t) PROVE TypeOK'
  <2>1. LocksOK'
    BY <1>6, MutexFacts DEF LookupLock
  <2>2. QED
    BY <1>6, <2>1 DEF LookupLock, Goto, locals, progress
<1>7. ASSUME NEW t \in Threads, LookupCached(t) PROVE TypeOK'
  <2>1. LocksOK'
    BY <1>7, MutexFacts DEF LookupCached
  <2>2. QED
    BY <1>7, <2>1, ReadsAssumption DEF LookupCached, Opened, Finish
<1>8. ASSUME NEW t \in Threads, ReadAtLock(t) PROVE TypeOK'
  <2>1. LocksOK'
    BY <1>8, MutexFacts DEF ReadAtLock
  <2>2. QED
    BY <1>8, <2>1 DEF ReadAtLock, Goto, locals, progress
<1>9. ASSUME NEW t \in Threads, ReadAtCheck(t) PROVE TypeOK'
  <2>a. RUnlock(stateMu, t) \in Mutex
    BY MutexFacts
  <2>b. stateMu' \in {stateMu, RUnlock(stateMu, t)} /\ inodeCacheMu' = inodeCacheMu
    BY <1>9 DEF ReadAtCheck
  <2>1. LocksOK'
    BY <2>a, <2>b
  <2>2. LocalsOK'
    <3>1. CASE closed
      BY <1>9, <3>1 DEF ReadAtCheck, Finish
    <3>2. CASE ~closed
      BY <1>9, <3>2 DEF ReadAtCheck, progress
    <3>3. QED
      BY <3>1, <3>2
  <2>3. QED
    BY <1>9, <2>1, <2>2 DEF ReadAtCheck
<1>10. ASSUME NEW t \in Threads, ReadAtReturn(t) PROVE TypeOK'
  <2>1. LocksOK'
    BY <1>10, MutexFacts DEF ReadAtReturn
  <2>2. QED
    BY <1>10, <2>1 DEF ReadAtReturn, AfterRead, Finish
<1>11. ASSUME NEW t \in Threads, StoreLock(t) PROVE TypeOK'
  <2>1. LocksOK'
    BY <1>11, MutexFacts DEF StoreLock
  <2>2. QED
    BY <1>11, <2>1 DEF StoreLock, Goto, locals, progress
<1>12. ASSUME NEW t \in Threads, StoreCheck(t) PROVE TypeOK'
  <2>1. LocksOK'
    BY <1>12, MutexFacts DEF StoreCheck
  <2>2. LocalsOK'
    BY <1>12, ReadsAssumption DEF StoreCheck, Opened, Finish, progress
  <2>3. QED
    BY <1>12, <2>1, <2>2 DEF StoreCheck
<1>13. ASSUME NEW t \in Threads, StoreWrite(t) PROVE TypeOK'
  <2>1. LocksOK'
    BY <1>13, MutexFacts DEF StoreWrite
  <2>2. LocalsOK'
    BY <1>13, ReadsAssumption DEF StoreWrite, Opened, Finish
  <2>3. inodeCache' \in SUBSET Inodes
    BY <1>13 DEF StoreWrite, Storable, NoNilMapWrite
  <2>4. QED
    BY <1>13, <2>1, <2>2, <2>3 DEF StoreWrite
<1>14. ASSUME NEW t \in Threads, CloseLock(t) PROVE TypeOK'
  <2>1. LocksOK'
    BY <1>14, MutexFacts DEF CloseLock
  <2>2. QED
    BY <1>14, <2>1 DEF CloseLock, Goto, locals, progress
<1>15. ASSUME NEW t \in Threads, CloseCheck(t) PROVE TypeOK'
  <2>1. LocksOK'
    BY <1>15, MutexFacts DEF CloseCheck, progress
  <2>2. LocalsOK'
    BY <1>15 DEF CloseCheck, Finish, progress
  <2>3. QED
    BY <1>15, <2>1, <2>2 DEF CloseCheck
<1>16. ASSUME NEW t \in Threads, ClearLock(t) PROVE TypeOK'
  <2>1. LocksOK'
    BY <1>16, MutexFacts DEF ClearLock
  <2>2. QED
    BY <1>16, <2>1 DEF ClearLock, Goto, locals, progress
<1>17. ASSUME NEW t \in Threads, ClearEnter(t) PROVE TypeOK'
  <2>1. LocksOK'
    BY <1>17, MutexFacts DEF ClearEnter, shared
  <2>2. QED
    BY <1>17, <2>1 DEF ClearEnter, Goto, locals, progress, shared
<1>18. ASSUME NEW t \in Threads, ClearInodeCache(t) PROVE TypeOK'
  <2>1. LocksOK'
    BY <1>18, MutexFacts DEF ClearInodeCache
  <2>2. QED
    BY <1>18, <2>1 DEF ClearInodeCache, Goto, locals, progress
<1>19. ASSUME NEW t \in Threads, ReleaseSource(t) PROVE TypeOK'
  <2>1. LocksOK'
    BY <1>19, MutexFacts DEF ReleaseSource
  <2>2. LocalsOK'
    BY <1>19 DEF ReleaseSource, Finish
  <2>3. QED
    BY <1>19, <2>1, <2>2 DEF ReleaseSource
<1>20. QED
  BY <1>1, <1>2, <1>3, <1>4, <1>5, <1>6, <1>7, <1>8, <1>9, <1>10, <1>11, <1>12,
     <1>13, <1>14, <1>15, <1>16, <1>17, <1>18, <1>19
     DEF Next, Announcing, Working

--------------------------------------------------------------------------------
(***************************************************************************)
(* The inductive invariant.  Who holds which lock is not a variable of its *)
(* own: it follows from where each goroutine is, and that is what lets     *)
(* one goroutine's step say something about all the others.                *)
(***************************************************************************)
LockInv ==
  /\ \A t \in Threads : pc[t] = "waitClose" \/ Closing(t) => stateMu.owner = t
  /\ \A t \in Threads : Closing(t) => stateMu.readers = {}
  /\ \A t \in Threads : pc[t] = "inSource" => t \in stateMu.readers
  /\ \A t \in Threads : pc[t] \in {"waitStore", "inStore", "waitClear", "inClear"}
                        => inodeCacheMu.owner = t
  /\ \A t \in Threads : pc[t] \in {"inStore", "inClear"} => inodeCacheMu.readers = {}

LEMMA LockStep == TypeOK /\ LockInv /\ [Next]_vars => LockInv'
<1> SUFFICES ASSUME TypeOK, LockInv, [Next]_vars PROVE LockInv'
  OBVIOUS
<1> USE NoThreadAssumption DEF TypeOK, PCs, LockInv, Closing, Clearing, Mutex, RLock, RUnlock,
           Announce, Unlock, HoldsRead, HoldsWrite, CanAnnounce
<1>1. CASE UNCHANGED vars
  BY <1>1 DEF vars, locals, progress, shared
<1>2. ASSUME NEW t \in Threads, Begin(t) PROVE LockInv'
  BY <1>2 DEF Begin, Entry, shared
<1>3. ASSUME NEW t \in Threads, ResolveRoot(t) PROVE LockInv'
  BY <1>3 DEF ResolveRoot, Finish, shared
<1>4. ASSUME NEW t \in Threads, IsClosedLock(t) PROVE LockInv'
  BY <1>4 DEF IsClosedLock, Goto, locals, progress
<1>5. ASSUME NEW t \in Threads, IsClosed(t) PROVE LockInv'
  BY <1>5 DEF IsClosed, Finish, progress
<1>6. ASSUME NEW t \in Threads, LookupLock(t) PROVE LockInv'
  BY <1>6 DEF LookupLock, Goto, locals, progress
<1>7. ASSUME NEW t \in Threads, LookupCached(t) PROVE LockInv'
  BY <1>7 DEF LookupCached, Opened, Finish
<1>8. ASSUME NEW t \in Threads, ReadAtLock(t) PROVE LockInv'
  BY <1>8 DEF ReadAtLock, Goto, locals, progress
<1>9. ASSUME NEW t \in Threads, ReadAtCheck(t) PROVE LockInv'
  BY <1>9 DEF ReadAtCheck, Finish, progress
<1>10. ASSUME NEW t \in Threads, ReadAtReturn(t) PROVE LockInv'
  BY <1>10 DEF ReadAtReturn, AfterRead, Finish
<1>11. ASSUME NEW t \in Threads, StoreLock(t) PROVE LockInv'
  BY <1>11 DEF StoreLock, Goto, locals, progress
<1>12. ASSUME NEW t \in Threads, StoreCheck(t) PROVE LockInv'
  BY <1>12 DEF StoreCheck, Opened, Finish, progress
<1>13. ASSUME NEW t \in Threads, StoreWrite(t) PROVE LockInv'
  BY <1>13 DEF StoreWrite, Opened, Finish
<1>14. ASSUME NEW t \in Threads, CloseLock(t) PROVE LockInv'
  BY <1>14 DEF CloseLock, Goto, locals, progress
<1>15. ASSUME NEW t \in Threads, CloseCheck(t) PROVE LockInv'
  BY <1>15 DEF CloseCheck, Finish, progress
<1>16. ASSUME NEW t \in Threads, ClearLock(t) PROVE LockInv'
  BY <1>16 DEF ClearLock, Goto, locals, progress
<1>17. ASSUME NEW t \in Threads, ClearEnter(t) PROVE LockInv'
  BY <1>17 DEF ClearEnter, Goto, locals, progress, shared
<1>18. ASSUME NEW t \in Threads, ClearInodeCache(t) PROVE LockInv'
  BY <1>18 DEF ClearInodeCache, Goto, locals, progress
<1>19. ASSUME NEW t \in Threads, ReleaseSource(t) PROVE LockInv'
  BY <1>19 DEF ReleaseSource, Finish
<1>20. QED
  BY <1>1, <1>2, <1>3, <1>4, <1>5, <1>6, <1>7, <1>8, <1>9, <1>10, <1>11, <1>12,
     <1>13, <1>14, <1>15, <1>16, <1>17, <1>18, <1>19
     DEF Next, Announcing, Working

(***************************************************************************)
(* The source: no goroutine is inside it once the volume is closed.        *)
(***************************************************************************)
SourceInv ==
  /\ closed => \A t \in Threads : pc[t] # "inSource"
  /\ source = "released" => closed
  /\ \A t \in Threads : Closing(t) => closed

LEMMA SourceStep == TypeOK /\ LockInv /\ SourceInv /\ [Next]_vars => SourceInv'
<1> SUFFICES ASSUME TypeOK, LockInv, SourceInv, [Next]_vars PROVE SourceInv'
  OBVIOUS
<1> USE NoThreadAssumption DEF TypeOK, PCs, LockInv, SourceInv, Closing, Clearing, HoldsRead, HoldsWrite, CanAnnounce
<1>1. CASE UNCHANGED vars
  BY <1>1 DEF vars, locals, progress, shared
<1>2. ASSUME NEW t \in Threads, Begin(t) PROVE SourceInv'
  BY <1>2 DEF Begin, Entry, shared
<1>3. ASSUME NEW t \in Threads, ResolveRoot(t) PROVE SourceInv'
  BY <1>3 DEF ResolveRoot, Finish, shared
<1>4. ASSUME NEW t \in Threads, IsClosedLock(t) PROVE SourceInv'
  BY <1>4 DEF IsClosedLock, Goto, locals, progress
<1>5. ASSUME NEW t \in Threads, IsClosed(t) PROVE SourceInv'
  BY <1>5 DEF IsClosed, Finish, progress
<1>6. ASSUME NEW t \in Threads, LookupLock(t) PROVE SourceInv'
  BY <1>6 DEF LookupLock, Goto, locals, progress
<1>7. ASSUME NEW t \in Threads, LookupCached(t) PROVE SourceInv'
  BY <1>7 DEF LookupCached, Opened, Finish
<1>8. ASSUME NEW t \in Threads, ReadAtLock(t) PROVE SourceInv'
  BY <1>8 DEF ReadAtLock, Goto, locals, progress
<1>9. ASSUME NEW t \in Threads, ReadAtCheck(t) PROVE SourceInv'
  BY <1>9 DEF ReadAtCheck, Finish, progress
<1>10. ASSUME NEW t \in Threads, ReadAtReturn(t) PROVE SourceInv'
  BY <1>10 DEF ReadAtReturn, AfterRead, Finish
<1>11. ASSUME NEW t \in Threads, StoreLock(t) PROVE SourceInv'
  BY <1>11 DEF StoreLock, Goto, locals, progress
<1>12. ASSUME NEW t \in Threads, StoreCheck(t) PROVE SourceInv'
  BY <1>12 DEF StoreCheck, Opened, Finish, progress
<1>13. ASSUME NEW t \in Threads, StoreWrite(t) PROVE SourceInv'
  BY <1>13 DEF StoreWrite, Opened, Finish
<1>14. ASSUME NEW t \in Threads, CloseLock(t) PROVE SourceInv'
  BY <1>14 DEF CloseLock, Goto, locals, progress
<1>15. ASSUME NEW t \in Threads, CloseCheck(t) PROVE SourceInv'
  BY <1>15 DEF CloseCheck, Finish, progress
<1>16. ASSUME NEW t \in Threads, ClearLock(t) PROVE SourceInv'
  BY <1>16 DEF ClearLock, Goto, locals, progress
<1>17. ASSUME NEW t \in Threads, ClearEnter(t) PROVE SourceInv'
  BY <1>17 DEF ClearEnter, Goto, locals, progress, shared
<1>18. ASSUME NEW t \in Threads, ClearInodeCache(t) PROVE SourceInv'
  BY <1>18 DEF ClearInodeCache, Goto, locals, progress
<1>19. ASSUME NEW t \in Threads, ReleaseSource(t) PROVE SourceInv'
  BY <1>19 DEF ReleaseSource, Finish
<1>20. QED
  BY <1>1, <1>2, <1>3, <1>4, <1>5, <1>6, <1>7, <1>8, <1>9, <1>10, <1>11, <1>12,
     <1>13, <1>14, <1>15, <1>16, <1>17, <1>18, <1>19
     DEF Next, Announcing, Working

(***************************************************************************)
(* The cache: a goroutine that writes it has it to itself and has found    *)
(* a map, and a closed volume has one only while Close is on its way to    *)
(* drop it.                                                                *)
(***************************************************************************)
CacheInv == Storable /\ CacheStaysDead

LEMMA CacheStep == TypeOK /\ LockInv /\ SourceInv /\ CacheInv /\ [Next]_vars => CacheInv'
<1> SUFFICES ASSUME TypeOK, LockInv, SourceInv, CacheInv, [Next]_vars PROVE CacheInv'
  OBVIOUS
<1> USE NoThreadAssumption, NoInodeAssumption DEF TypeOK, PCs, LockInv, SourceInv, CacheInv, Storable, NoNilMapWrite, CacheStaysDead, NilCache, Closing,
           Clearing, HoldsRead, HoldsWrite, CanAnnounce
<1>1. CASE UNCHANGED vars
  BY <1>1 DEF vars, locals, progress, shared
<1>2. ASSUME NEW t \in Threads, Begin(t) PROVE CacheInv'
  BY <1>2 DEF Begin, Entry, shared
<1>3. ASSUME NEW t \in Threads, ResolveRoot(t) PROVE CacheInv'
  BY <1>3 DEF ResolveRoot, Finish, shared
<1>4. ASSUME NEW t \in Threads, IsClosedLock(t) PROVE CacheInv'
  BY <1>4 DEF IsClosedLock, Goto, locals, progress
<1>5. ASSUME NEW t \in Threads, IsClosed(t) PROVE CacheInv'
  BY <1>5 DEF IsClosed, Finish, progress
<1>6. ASSUME NEW t \in Threads, LookupLock(t) PROVE CacheInv'
  BY <1>6 DEF LookupLock, Goto, locals, progress
<1>7. ASSUME NEW t \in Threads, LookupCached(t) PROVE CacheInv'
  BY <1>7 DEF LookupCached, Opened, Finish
<1>8. ASSUME NEW t \in Threads, ReadAtLock(t) PROVE CacheInv'
  BY <1>8 DEF ReadAtLock, Goto, locals, progress
<1>9. ASSUME NEW t \in Threads, ReadAtCheck(t) PROVE CacheInv'
  BY <1>9 DEF ReadAtCheck, Finish, progress
<1>10. ASSUME NEW t \in Threads, ReadAtReturn(t) PROVE CacheInv'
  BY <1>10 DEF ReadAtReturn, AfterRead, Finish
<1>11. ASSUME NEW t \in Threads, StoreLock(t) PROVE CacheInv'
  BY <1>11 DEF StoreLock, Goto, locals, progress
<1>12. ASSUME NEW t \in Threads, StoreCheck(t) PROVE CacheInv'
  BY <1>12 DEF StoreCheck, Opened, Finish, progress
<1>13. ASSUME NEW t \in Threads, StoreWrite(t) PROVE CacheInv'
  BY <1>13 DEF StoreWrite, Opened, Finish
<1>14. ASSUME NEW t \in Threads, CloseLock(t) PROVE CacheInv'
  BY <1>14 DEF CloseLock, Goto, locals, progress
<1>15. ASSUME NEW t \in Threads, CloseCheck(t) PROVE CacheInv'
  BY <1>15 DEF CloseCheck, Finish, progress
<1>16. ASSUME NEW t \in Threads, ClearLock(t) PROVE CacheInv'
  BY <1>16 DEF ClearLock, Goto, locals, progress
<1>17. ASSUME NEW t \in Threads, ClearEnter(t) PROVE CacheInv'
  BY <1>17 DEF ClearEnter, Goto, locals, progress, shared
<1>18. ASSUME NEW t \in Threads, ClearInodeCache(t) PROVE CacheInv'
  BY <1>18 DEF ClearInodeCache, Goto, locals, progress
<1>19. ASSUME NEW t \in Threads, ReleaseSource(t) PROVE CacheInv'
  BY <1>19 DEF ReleaseSource, Finish
<1>20. QED
  BY <1>1, <1>2, <1>3, <1>4, <1>5, <1>6, <1>7, <1>8, <1>9, <1>10, <1>11, <1>12,
     <1>13, <1>14, <1>15, <1>16, <1>17, <1>18, <1>19
     DEF Next, Announcing, Working

(***************************************************************************)
(* Late calls: they get no further than the first look at the flag.        *)
(***************************************************************************)
LateInv ==
  /\ \A t \in Threads : began[t] # "open" => closed
  /\ \A t \in Threads : pc[t] # "idle" => (pc[t] = "resolveRoot" <=> op[t] = "ResolveRoot")
  /\ \A t \in Threads :
       began[t] # "open" /\ op[t] # "ResolveRoot"
         => \/ pc[t] \in {"isClosed", "inIsClosed", "close", "waitClose"}
            \/ pc[t] = "idle" /\ res[t] = "closed"

LEMMA LateStep == TypeOK /\ LateInv /\ [Next]_vars => LateInv'
<1> SUFFICES ASSUME TypeOK, LateInv, [Next]_vars PROVE LateInv'
  OBVIOUS
<1> USE OpsAssumption DEF TypeOK, PCs, LateInv, AllOps, Results
<1>1. CASE UNCHANGED vars
  BY <1>1 DEF vars, locals, progress, shared
<1>2. ASSUME NEW t \in Threads, Begin(t) PROVE LateInv'
  BY <1>2 DEF Begin, Entry, Moment, shared
<1>3. ASSUME NEW t \in Threads, ResolveRoot(t) PROVE LateInv'
  BY <1>3 DEF ResolveRoot, Finish, shared
<1>4. ASSUME NEW t \in Threads, IsClosedLock(t) PROVE LateInv'
  BY <1>4 DEF IsClosedLock, Goto, locals, progress
<1>5. ASSUME NEW t \in Threads, IsClosed(t) PROVE LateInv'
  BY <1>5 DEF IsClosed, Finish, progress
<1>6. ASSUME NEW t \in Threads, LookupLock(t) PROVE LateInv'
  BY <1>6 DEF LookupLock, Goto, locals, progress
<1>7. ASSUME NEW t \in Threads, LookupCached(t) PROVE LateInv'
  BY <1>7 DEF LookupCached, Opened, Finish
<1>8. ASSUME NEW t \in Threads, ReadAtLock(t) PROVE LateInv'
  BY <1>8 DEF ReadAtLock, Goto, locals, progress
<1>9. ASSUME NEW t \in Threads, ReadAtCheck(t) PROVE LateInv'
  BY <1>9 DEF ReadAtCheck, Finish, progress
<1>10. ASSUME NEW t \in Threads, ReadAtReturn(t) PROVE LateInv'
  BY <1>10 DEF ReadAtReturn, AfterRead, Finish
<1>11. ASSUME NEW t \in Threads, StoreLock(t) PROVE LateInv'
  BY <1>11 DEF StoreLock, Goto, locals, progress
<1>12. ASSUME NEW t \in Threads, StoreCheck(t) PROVE LateInv'
  BY <1>12 DEF StoreCheck, Opened, Finish, progress
<1>13. ASSUME NEW t \in Threads, StoreWrite(t) PROVE LateInv'
  BY <1>13 DEF StoreWrite, Opened, Finish
<1>14. ASSUME NEW t \in Threads, CloseLock(t) PROVE LateInv'
  BY <1>14 DEF CloseLock, Goto, locals, progress
<1>15. ASSUME NEW t \in Threads, CloseCheck(t) PROVE LateInv'
  BY <1>15 DEF CloseCheck, Finish, progress
<1>16. ASSUME NEW t \in Threads, ClearLock(t) PROVE LateInv'
  BY <1>16 DEF ClearLock, Goto, locals, progress
<1>17. ASSUME NEW t \in Threads, ClearEnter(t) PROVE LateInv'
  BY <1>17 DEF ClearEnter, Goto, locals, progress, shared
<1>18. ASSUME NEW t \in Threads, ClearInodeCache(t) PROVE LateInv'
  BY <1>18 DEF ClearInodeCache, Goto, locals, progress
<1>19. ASSUME NEW t \in Threads, ReleaseSource(t) PROVE LateInv'
  BY <1>19 DEF ReleaseSource, Finish
<1>20. QED
  BY <1>1, <1>2, <1>3, <1>4, <1>5, <1>6, <1>7, <1>8, <1>9, <1>10, <1>11, <1>12,
     <1>13, <1>14, <1>15, <1>16, <1>17, <1>18, <1>19
     DEF Next, Announcing, Working

--------------------------------------------------------------------------------
IInv == TypeOK /\ LockInv /\ SourceInv /\ CacheInv /\ LateInv

LEMMA InitIInv == Init => IInv
<1> SUFFICES ASSUME Init PROVE IInv
  OBVIOUS
<1>1. TypeOK
  BY TypeInit
<1>2. LockInv /\ SourceInv /\ CacheInv /\ LateInv
  BY DEF Init, LockInv, SourceInv, CacheInv, LateInv, Storable, NoNilMapWrite,
         CacheStaysDead, Closing, Clearing
<1>3. QED
  BY <1>1, <1>2 DEF IInv

LEMMA StepIInv == IInv /\ [Next]_vars => IInv'
  BY TypeStep, LockStep, SourceStep, CacheStep, LateStep DEF IInv, CacheInv

THEOREM Invariance == Spec => []IInv
  BY InitIInv, StepIInv, PTL DEF Spec

\* Every variable of the concurrency layer keeps its type.
THEOREM TypeCorrect == Spec => []TypeOK
  BY Invariance, PTL DEF IInv

\* No goroutine is inside the source's ReadAt when its handle has been released,
\* however many goroutines read and close the volume (readAt, Close).
THEOREM ReadSafety == Spec => []NoReadAfterRelease
<1>1. IInv => NoReadAfterRelease
  BY DEF IInv, SourceInv, TypeOK, NoReadAfterRelease
<1>2. QED
  BY <1>1, Invariance, PTL

\* The inode cache is free of data races: whoever writes it is alone in it
\* (cacheInode, clearInodeCache, lookupCachedInode).
THEOREM CacheSafety == Spec => []CacheRaceFree
<1>1. IInv => CacheRaceFree
  BY DEF IInv, LockInv, CacheRaceFree, HoldsRead
<1>2. QED
  BY <1>1, Invariance, PTL

\* No goroutine writes to the nil map that Close leaves behind (cacheInode).
THEOREM NilMapSafety == Spec => []NoNilMapWrite
  BY Invariance, PTL DEF IInv, CacheInv, Storable

\* Nothing is cached any more once Close is past the cache (clearInodeCache).
THEOREM CacheDeath == Spec => []CacheStaysDead
  BY Invariance, PTL DEF IInv, CacheInv

\* A call that began on a closed volume reports ErrVolumeClosed (OpenInode,
\* IsClosed, Close).
THEOREM LateCallSafety == Spec => []LateCallsFail
<1>1. IInv => LateCallsFail
  BY DEF IInv, LateInv, LateCallsFail
<1>2. QED
  BY <1>1, Invariance, PTL

-------------------------------------------------------------------------------
(* The locks and the cache implement the lifetime of VolumeLifetime. *)

View == [t \in Threads |-> CallView(t)]
InSource == {t \in Threads : pc[t] = "inSource"}

\* Only calls that began early get past the first look at the closed flag.
LEMMA EarlyView ==
  ASSUME IInv, NEW t \in Threads,
         pc[t] \in {"lookup", "inLookup", "readAt", "inReadAt", "inSource",
                    "store", "waitStore", "inStore"}
  PROVE  CallView(t) = "early"
  BY DEF IInv, LateInv, CallView, Closing, Clearing, TypeOK

\* A step within the call of one goroutine that callers cannot see.
LEMMA HiddenStep ==
  ASSUME TypeOK, NEW t \in Threads,
         \A u \in Threads \ {t} : pc'[u] = pc[u],
         CallView(t)' = CallView(t),
         pc[t] # "inSource", pc'[t] # "inSource",
         UNCHANGED <<began, res, closed, source>>
  PROVE  UNCHANGED Lifetime!vars
<1>1. View' = View
  BY DEF View, CallView, Closing, Clearing
<1>2. InSource' = InSource
  BY DEF InSource
<1>3. QED
  BY <1>1, <1>2 DEF Lifetime!vars, View, InSource

\* A call that ends with a report the lifetime allows.
LEMMA ReturnStep ==
  ASSUME TypeOK, NEW t \in Threads, NEW r \in {"ok", "failed", "closed"}, Finish(t, r),
         CallView(t) # "none",
         CallView(t) = "early" => (r = "closed" => closed),
         CallView(t) = "late" => r = "closed",
         CallView(t) = "closing" => r # "closed",
         CallView(t) = "exempt" => r = "ok",
         CallView(t) \in {"early", "late", "closing", "exempt"},
         source' \in (IF CallView(t) = "closing" THEN {source, "released"} ELSE {source}),
         UNCHANGED <<began, closed>>
  PROVE  Lifetime!Next
<1>1. \A u \in Threads \ {t} : pc'[u] = pc[u]
  BY DEF Finish, TypeOK
<1>2. View' = [View EXCEPT ![t] = "none"]
  BY <1>1 DEF View, CallView, Closing, Clearing, Finish, TypeOK
<1>3. InSource' = InSource \ {t}
  BY <1>1 DEF InSource, Finish, TypeOK
<1>4. View[t] = CallView(t) /\ res' = [res EXCEPT ![t] = r]
  BY DEF View, Finish
<1>5. Lifetime!MayReport(t, r)
  BY <1>4 DEF Lifetime!MayReport, View
<1>6. Lifetime!Return(t)
  BY <1>2, <1>3, <1>4, <1>5 DEF Lifetime!Return, View, InSource
<1>7. QED
  BY <1>6 DEF Lifetime!Next

\* An inode that has been opened is returned, or read from; either way the call
\* began while the volume was open.
LEMMA OpenedStep ==
  ASSUME TypeOK, NEW t \in Threads, Opened(t), CallView(t) = "early",
         pc[t] \in {"inLookup", "waitStore", "inStore"},
         UNCHANGED <<began, closed, source>>
  PROVE  Lifetime!Next \/ UNCHANGED Lifetime!vars
<1>1. CASE Finish(t, "ok")
  BY <1>1, ReturnStep
<1>2. CASE pc' = [pc EXCEPT ![t] = "readAt"] /\ UNCHANGED res
  <2>1. CallView(t)' = CallView(t)
    BY <1>2 DEF CallView, Closing, Clearing, TypeOK
  <2>2. QED
    BY <1>2, <2>1, HiddenStep DEF TypeOK
<1>3. QED
  BY <1>1, <1>2 DEF Opened

LEMMA Simulation ==
  IInv /\ [Next]_vars => Lifetime!Next \/ UNCHANGED Lifetime!vars
<1> SUFFICES ASSUME IInv, [Next]_vars
             PROVE  Lifetime!Next \/ UNCHANGED Lifetime!vars
  OBVIOUS
<1> DEFINE Simulated == Lifetime!Next \/ UNCHANGED Lifetime!vars
<1>a. TypeOK /\ LockInv /\ SourceInv /\ LateInv
  BY DEF IInv
<1>1. CASE UNCHANGED vars
  BY <1>1 DEF vars, locals, progress, shared, Lifetime!vars, CallView, Closing, Clearing
<1>2. ASSUME NEW t \in Threads, Begin(t) PROVE Simulated
  <2>1. \A u \in Threads \ {t} : pc'[u] = pc[u] /\ began'[u] = began[u]
    BY <1>a, <1>2 DEF Begin, TypeOK
  <2>2. CallView(t)' \in {IF ~closed THEN "early" ELSE "late", "exempt"}
    BY <1>a, <1>2 DEF Begin, Entry, Moment, CallView, Closing, Clearing, TypeOK
  <2>3. View' = [View EXCEPT ![t] = CallView(t)']
    BY <2>1, <2>2 DEF View, CallView, Closing, Clearing
  <2>4. InSource' = InSource
    BY <1>a, <1>2, <2>1 DEF InSource, Begin, Entry, TypeOK
  <2>5. View[t] = "none"
    BY <1>2 DEF View, CallView, Closing, Clearing, Begin
  <2>6. Lifetime!Invoke(t)
    BY <1>2, <2>2, <2>3, <2>4, <2>5 DEF Lifetime!Invoke, View, InSource, Begin, shared
  <2>7. QED
    BY <2>6 DEF Lifetime!Next
<1>3. ASSUME NEW t \in Threads, ResolveRoot(t) PROVE Simulated
  <2>1. UNCHANGED <<began, closed, source>> /\ pc[t] = "resolveRoot" /\ Finish(t, "ok")
    BY <1>3 DEF ResolveRoot, shared
  <2>2. CallView(t) = "exempt"
    BY <2>1 DEF CallView, Closing, Clearing
  <2>3. QED
    BY <1>a, <2>1, <2>2, ReturnStep
<1>4. ASSUME NEW t \in Threads,
             \/ IsClosedLock(t) \/ LookupLock(t) \/ ReadAtLock(t) \/ StoreLock(t)
             \/ CloseLock(t) \/ ClearLock(t) \/ ClearEnter(t) \/ ClearInodeCache(t)
      PROVE  Simulated
  <2>1. \E a, b \in PCs : Goto(t, a, b) /\ a # "inSource" /\ b # "inSource"
                          /\ CallView(t)' = CallView(t)
    BY <1>a, <1>4 DEF IsClosedLock, LookupLock, ReadAtLock, StoreLock, CloseLock, ClearLock,
       ClearEnter, ClearInodeCache, Goto, PCs, CallView, Closing, Clearing, TypeOK, locals
  <2>2. UNCHANGED <<began, res, closed, source>>
    BY <1>4 DEF IsClosedLock, LookupLock, ReadAtLock, StoreLock, CloseLock, ClearLock,
       ClearEnter, ClearInodeCache, locals, progress, shared
  <2>3. QED
    BY <1>a, <2>1, <2>2, HiddenStep DEF Goto, TypeOK
<1>5. ASSUME NEW t \in Threads, IsClosed(t) PROVE Simulated
  <2>1. UNCHANGED <<began, closed, source>> /\ pc[t] = "inIsClosed"
    BY <1>5 DEF IsClosed
  <2>2. CallView(t) \in {"early", "late"} /\ (CallView(t) = "late" => closed)
    BY <1>a, <2>1 DEF CallView, Closing, Clearing, LateInv
  <2>3. CASE closed /\ Finish(t, "closed")
    BY <1>a, <2>1, <2>2, <2>3, ReturnStep
  <2>4. CASE ~closed /\ Finish(t, "ok")
    BY <1>a, <2>1, <2>2, <2>4, ReturnStep
  <2>5. CASE ~closed /\ Finish(t, "failed")
    BY <1>a, <2>1, <2>2, <2>5, ReturnStep
  <2>6. CASE pc' = [pc EXCEPT ![t] = "lookup"] /\ UNCHANGED progress
    <3>1. CallView(t)' = CallView(t)
      BY <1>a, <2>1, <2>6 DEF CallView, Closing, Clearing, TypeOK
    <3>2. QED
      BY <1>a, <2>1, <2>6, <3>1, HiddenStep DEF TypeOK, progress
  <2>7. QED
    BY <1>5, <2>3, <2>4, <2>5, <2>6 DEF IsClosed
<1>6. ASSUME NEW t \in Threads, LookupCached(t) PROVE Simulated
  <2>1. UNCHANGED <<began, closed, source>> /\ pc[t] = "inLookup" /\ CallView(t) = "early"
    BY <1>6, EarlyView DEF LookupCached
  <2>2. CASE Opened(t)
    BY <1>a, <2>1, <2>2, OpenedStep
  <2>3. CASE pc' = [pc EXCEPT ![t] = "readAt"] /\ UNCHANGED res
    <3>1. CallView(t)' = CallView(t)
      BY <1>a, <2>1, <2>3 DEF CallView, Closing, Clearing, TypeOK
    <3>2. QED
      BY <1>a, <2>1, <2>3, <3>1, HiddenStep DEF TypeOK
  <2>4. QED
    BY <1>6, <2>2, <2>3 DEF LookupCached
<1>7. ASSUME NEW t \in Threads, ReadAtCheck(t) PROVE Simulated
  <2>1. UNCHANGED <<began, closed, source>> /\ pc[t] = "inReadAt" /\ CallView(t) = "early"
    BY <1>7, EarlyView DEF ReadAtCheck
  <2>2. CASE closed /\ Finish(t, "closed")
    BY <1>a, <2>1, <2>2, ReturnStep
  <2>3. CASE ~closed /\ pc' = [pc EXCEPT ![t] = "inSource"] /\ UNCHANGED progress
    <3>1. \A u \in Threads \ {t} : pc'[u] = pc[u]
      BY <1>a, <2>3 DEF TypeOK
    <3>2. pc'[t] = "inSource" /\ CallView(t)' = "early"
      BY <1>a, <2>1, <2>3 DEF CallView, Closing, Clearing, TypeOK
    <3>3. View' = View
      BY <2>1, <3>1, <3>2 DEF View, CallView, Closing, Clearing
    <3>4. InSource' = InSource \cup {t}
      BY <3>1, <3>2 DEF InSource
    <3>5. source = "open" /\ View[t] = "early"
      BY <1>a, <2>1, <2>3 DEF SourceInv, TypeOK, View
    <3>6. Lifetime!StartRead(t)
      BY <2>1, <2>3, <3>3, <3>4, <3>5 DEF Lifetime!StartRead, View, InSource, progress
    <3>7. QED
      BY <3>6 DEF Lifetime!Next
  <2>4. QED
    BY <1>7, <2>2, <2>3 DEF ReadAtCheck
<1>8. ASSUME NEW t \in Threads, ReadAtReturn(t) PROVE Simulated
  <2>1. UNCHANGED <<began, closed, source>> /\ pc[t] = "inSource" /\ CallView(t) = "early"
    BY <1>8, EarlyView DEF ReadAtReturn
  <2>2. CASE Finish(t, "ok")
    BY <1>a, <2>1, <2>2, ReturnStep
  <2>3. CASE Finish(t, "failed")
    BY <1>a, <2>1, <2>3, ReturnStep
  <2>4. CASE /\ UNCHANGED res
             /\ \E b \in {"readAt", "store"} : pc' = [pc EXCEPT ![t] = b]
    <3>1. \A u \in Threads \ {t} : pc'[u] = pc[u]
      BY <1>a, <2>4 DEF TypeOK
    <3>2. pc'[t] \in {"readAt", "store"} /\ CallView(t)' = "early"
      BY <1>a, <2>1, <2>4 DEF CallView, Closing, Clearing, TypeOK
    <3>3. View' = View
      BY <2>1, <3>1, <3>2 DEF View, CallView, Closing, Clearing
    <3>4. InSource' = InSource \ {t}
      BY <3>1, <3>2 DEF InSource
    <3>5. Lifetime!EndRead(t)
      BY <2>1, <2>4, <3>3, <3>4 DEF Lifetime!EndRead, View, InSource
    <3>6. QED
      BY <3>5 DEF Lifetime!Next
  <2>5. QED
    BY <1>8, <2>2, <2>3, <2>4 DEF ReadAtReturn, AfterRead
<1>9. ASSUME NEW t \in Threads, StoreCheck(t) PROVE Simulated
  <2>1. UNCHANGED <<began, closed, source>> /\ pc[t] = "waitStore" /\ CallView(t) = "early"
    BY <1>9, EarlyView DEF StoreCheck
  <2>2. CASE Opened(t)
    BY <1>a, <2>1, <2>2, OpenedStep
  <2>3. CASE pc' = [pc EXCEPT ![t] = "inStore"] /\ UNCHANGED progress
    <3>1. CallView(t)' = CallView(t)
      BY <1>a, <2>1, <2>3 DEF CallView, Closing, Clearing, TypeOK
    <3>2. QED
      BY <1>a, <2>1, <2>3, <3>1, HiddenStep DEF TypeOK, progress
  <2>4. QED
    BY <1>9, <2>2, <2>3 DEF StoreCheck
<1>10. ASSUME NEW t \in Threads, StoreWrite(t) PROVE Simulated
  <2>1. UNCHANGED <<began, closed, source>> /\ pc[t] = "inStore" /\ CallView(t) = "early"
    BY <1>10, EarlyView DEF StoreWrite
  <2>2. QED
    BY <1>a, <1>10, <2>1, OpenedStep DEF StoreWrite
<1>11. ASSUME NEW t \in Threads, CloseCheck(t) PROVE Simulated
  <2>1. UNCHANGED <<began, source>> /\ pc[t] = "waitClose" /\ HoldsWrite(stateMu, t)
    BY <1>11 DEF CloseCheck
  <2>2. CallView(t) \in {"early", "late"} /\ (CallView(t) = "late" => closed)
    BY <1>a, <2>1 DEF CallView, Closing, Clearing, LateInv
  <2>3. CASE closed /\ UNCHANGED closed /\ Finish(t, "closed")
    BY <1>a, <2>1, <2>2, <2>3, ReturnStep
  <2>4. CASE ~closed /\ closed' = TRUE /\ pc' = [pc EXCEPT ![t] = "clear"] /\ UNCHANGED progress
    <3>1. \A u \in Threads \ {t} : pc'[u] = pc[u]
      BY <1>a, <2>4 DEF TypeOK
    <3>2. pc'[t] = "clear"
      BY <1>a, <2>4 DEF TypeOK
    <3>3. View' = [View EXCEPT ![t] = "closing"]
      BY <2>1, <3>1, <3>2 DEF View, CallView, Closing, Clearing
    <3>4. InSource' = {} /\ InSource = {}
      BY <1>a, <2>1, <3>1, <3>2 DEF InSource, LockInv, HoldsWrite
    <3>5. View[t] = "early"
      BY <2>2, <2>4 DEF View
    <3>6. Lifetime!CloseVolume(t)
      BY <2>1, <2>4, <3>3, <3>4, <3>5 DEF Lifetime!CloseVolume, View, InSource, progress
    <3>7. QED
      BY <3>6 DEF Lifetime!Next
  <2>5. QED
    BY <1>11, <2>3, <2>4 DEF CloseCheck
<1>12. ASSUME NEW t \in Threads, ReleaseSource(t) PROVE Simulated
  <2>1. UNCHANGED <<began, closed>> /\ source' \in {source, "released"}
    BY <1>12 DEF ReleaseSource
  <2>2. CallView(t) = "closing"
    BY <1>12 DEF ReleaseSource, CallView, Closing, Clearing
  <2>3. CASE Finish(t, "ok")
    BY <1>a, <2>1, <2>2, <2>3, ReturnStep
  <2>4. CASE Finish(t, "failed")
    BY <1>a, <2>1, <2>2, <2>4, ReturnStep
  <2>5. QED
    BY <1>12, <2>3, <2>4 DEF ReleaseSource
<1>13. QED
  BY <1>1, <1>2, <1>3, <1>4, <1>5, <1>6, <1>7, <1>8, <1>9, <1>10, <1>11, <1>12
     DEF Next, Announcing, Working

\* A Volume, with its two locks, its cache and its source, is a VolumeLifetime.
THEOREM Refinement == Spec => ImplementsLifetime
<1>1. Init => Lifetime!Init
  <2> SUFFICES ASSUME Init PROVE Lifetime!Init
    OBVIOUS
  <2>1. \A t \in Threads : pc[t] = "idle" /\ CallView(t) = "none"
    BY DEF Init, CallView, Closing, Clearing
  <2>2. QED
    BY <2>1 DEF Init, Lifetime!Init
<1>2. IInv /\ [Next]_vars => [Lifetime!Next]_(Lifetime!vars)
  BY Simulation
<1>3. QED
  BY <1>1, <1>2, Invariance, PTL
     DEF Spec, ImplementsLifetime, Lifetime!Spec
===============================================================================
