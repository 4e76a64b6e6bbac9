-------------------------------- MODULE Report --------------------------------
(***************************************************************************)
(* ReportWithContext of report.go: the inodes below a root are discovered  *)
(* by a sequential walk, analysed by the pool of runBounded, and collected *)
(* in discovery order.  Meanwhile another goroutine may cancel the context *)
(* or close the volume.  The pool is taken from what ParallelFor promises  *)
(* of it; the volume from what VolumeLifetime does: an operation that      *)
(* begins after Close fails.                                               *)
(***************************************************************************)
EXTENDS Integers, SequencesExt

CONSTANTS
  Volumes,    \* the file systems, see VolumeAssumption
  Modes,      \* subset of {"strict", "best_effort"}
  Caps,       \* values of ReportOptions.MaxEntries; 0 is no cap
  RootPaths   \* subset of {"/", "sub"}: the root, or a path to be looked up

(***************************************************************************)
(* A volume maps each inode number to its state on disk:                   *)
(*   sound    it opens and its checksum holds;                             *)
(*   corrupt  it opens and its checksum does not hold;                     *)
(*   absent   OpenInode fails.                                             *)
(* isDir says which are directories, entries which <<name, inode>> pairs a *)
(* listing of each returns, and damage what a listing of it meets: nothing,*)
(* something mild that only a strict scan answers with an error (after the *)
(* entries), or something severe that every scan does.  superblockBad says *)
(* whether the superblock's checksum is wrong.  Names are numbers, in      *)
(* their alphabetical order.                                               *)
(***************************************************************************)
ASSUME VolumeAssumption ==
  \A v \in Volumes :
    /\ v.root \in DOMAIN v.health
    /\ DOMAIN v.entries = DOMAIN v.health
    /\ v.isDir \subseteq DOMAIN v.health
    /\ v.superblockBad \in BOOLEAN
    /\ \A n \in DOMAIN v.health :
         /\ v.health[n] \in {"sound", "corrupt", "absent"}
         /\ v.damage[n] \in {"none", "mild", "severe"}
         /\ v.entries[n] \subseteq (Nat \X DOMAIN v.health) /\ IsFiniteSet(v.entries[n])
    /\ DOMAIN v.health \subseteq Nat
ASSUME OptionAssumption ==
  /\ Modes \subseteq {"strict", "best_effort"} /\ Caps \subseteq Int
  /\ RootPaths \subseteq {"/", "sub"}

VARIABLES
  volume, mode, cap, artifacts, rootPath,   \* the arguments of the call
  pc,           \* where ReportWithContext is
  closed, cancelled,
  stack,        \* discoverReportInodes: the items still to visit
  visited,
  discovered,   \* and those to analyse, in order
  anomalies,    \* report.Anomalies
  status,       \* runBounded: what became of each task
  poolResult,   \* and what it returned
  stage,        \* where each task is
  slot,         \* inodeReports, artifactReports and taskAnomalies
  files,        \* report.Files, which is sorted by path in the end
  dirReports,   \* report.DirectoryArtifacts
  crcChecked,   \* report.Provenance.InodeCRCChecked
  result

args == <<volume, mode, cap, artifacts, rootPath>>
walk == <<stack, visited, discovered>>
tasks == <<status, poolResult, stage, slot>>
report == <<files, dirReports, crcChecked>>
vars == <<args, pc, closed, cancelled, walk, anomalies, tasks, report, result>>

Pool == INSTANCE ParallelFor WITH result <- poolResult

Anomaly(code, inode) == [code |-> code, inode |-> inode]
Item(inode, path) == [inode |-> inode, path |-> path]
EmptySlot == [file |-> FALSE, artifact |-> FALSE, anomalies |-> <<>>]

Opens(inode) == ~closed /\ volume.health[inode] # "absent"

Init ==
  /\ volume \in Volumes /\ mode \in Modes /\ cap \in Caps
  /\ artifacts \in BOOLEAN /\ rootPath \in RootPaths
  /\ pc = "begin" /\ closed = FALSE /\ cancelled = FALSE
  /\ stack = <<>> /\ visited = {} /\ discovered = <<>> /\ anomalies = <<>>
  /\ status = <<>> /\ poolResult = "none" /\ stage = <<>> /\ slot = <<>>
  /\ files = {} /\ dirReports = {} /\ crcChecked = FALSE /\ result = "none"

Return(r) == pc' = "returned" /\ result' = r

-------------------------------------------------------------------------------
(* ReportWithContext up to the walk *)
Begin ==
  /\ pc = "begin"
  /\ IF closed THEN Return("closed")
     ELSE IF cancelled THEN Return("cancelled")
     ELSE pc' = "resolve" /\ UNCHANGED result
  /\ UNCHANGED <<args, closed, cancelled, walk, anomalies, tasks, report>>

\* Only a path with a component in it touches the volume.
ResolveRoot ==
  /\ pc = "resolve"
  /\ IF rootPath = "sub" /\ closed
     THEN Return("closed")
     ELSE pc' = "integrity" /\ UNCHANGED result
  /\ UNCHANGED <<args, closed, cancelled, walk, anomalies, tasks, report>>

VolumeIntegrity ==
  /\ pc = "integrity"
  /\ IF closed THEN Return("closed") /\ UNCHANGED stack
     ELSE IF volume.superblockBad /\ mode = "strict"
     THEN Return("failed") /\ UNCHANGED stack
     ELSE /\ pc' = "walk" /\ stack' = <<Item(volume.root, <<>>)>>
          /\ UNCHANGED result
  /\ UNCHANGED <<args, closed, cancelled, visited, discovered, anomalies, tasks, report>>

-------------------------------------------------------------------------------
(* discoverReportInodes *)
CapReached == cap > 0 /\ Len(discovered) >= cap

WalkEnds ==
  /\ pc = "walk"
  /\ stack = <<>> \/ cancelled \/ CapReached
  /\ pc' = "pool"
  /\ anomalies' = IF stack # <<>> /\ ~cancelled
                  THEN Append(anomalies, Anomaly("MAX_ENTRIES_REACHED", 0))
                  ELSE anomalies
  /\ UNCHANGED <<args, closed, cancelled, walk, tasks, report, result>>

\* A walk without the visited set.
FreshAlways(item) == TRUE

Fresh(item) == item.inode \notin visited

\* A walk that looks at an item it has met before without taking it off.
PoppedPeeking == IF Fresh(Last(stack)) THEN Front(stack) ELSE stack

Popped == Front(stack)

Visit ==
  /\ pc = "walk" /\ stack # <<>> /\ ~cancelled /\ ~CapReached
  /\ stack' = Popped
  /\ LET item == Last(stack)
         enters == Fresh(item) /\ Opens(item.inode)
         lost == Fresh(item) /\ ~Opens(item.inode)
     IN  /\ visited' = visited \cup {item.inode}
         /\ discovered' = IF enters THEN Append(discovered, item) ELSE discovered
         /\ anomalies' = IF lost
                         THEN Append(anomalies, Anomaly("INODE_OPEN_FAILED", item.inode))
                         ELSE anomalies
         /\ pc' = IF enters /\ item.inode \in volume.isDir THEN "list" ELSE "walk"
  /\ UNCHANGED <<args, closed, cancelled, tasks, report, result>>

\* By name and then by inode, the last one first.
Later(a, b) == a[1] > b[1] \/ (a[1] = b[1] /\ a[2] > b[2])
SortedDown(s) == \A i, j \in DOMAIN s : i < j => Later(s[i], s[j])

\* The entries go on the stack so that the first of them is on top.
Pushed(item) ==
  LET entries == volume.entries[item.inode]
      sorted == CHOOSE s \in [1 .. Cardinality(entries) -> entries] : ToSet(s) = entries /\ SortedDown(s)
  IN  [i \in DOMAIN sorted |-> Item(sorted[i][2], Append(item.path, sorted[i][1]))]

\* ListDirectoryEntries is always a strict scan.
Lists(inode) == ~closed /\ volume.damage[inode] = "none"

\* What a listing that ends in an error has recovered is not used.
ListDirectory ==
  /\ pc = "list" /\ pc' = "walk"
  /\ LET item == Last(discovered)
     IN  IF Lists(item.inode)
         THEN stack' = stack \o Pushed(item) /\ UNCHANGED anomalies
         ELSE /\ anomalies' = Append(anomalies, Anomaly("DIRECTORY_LIST_FAILED", item.inode))
              /\ UNCHANGED stack
  /\ UNCHANGED <<args, closed, cancelled, visited, discovered, tasks, report, result>>

-------------------------------------------------------------------------------
(* The pool.  Each task writes to its own slot only. *)

TaskIds == 1 .. Len(discovered)

StartPool ==
  /\ pc = "pool"
  /\ status' = [i \in TaskIds |-> "todo"]
  /\ stage' = [i \in TaskIds |-> "idle"]
  /\ slot' = [i \in TaskIds |-> EmptySlot]
  /\ IF discovered = <<>> THEN pc' = "collect" /\ poolResult' = "ok"
     ELSE IF cancelled THEN pc' = "collect" /\ poolResult' = "cancelled"
     ELSE pc' = "analyse" /\ UNCHANGED poolResult
  /\ UNCHANGED <<args, closed, cancelled, walk, anomalies, report, result>>

StartTask(i) ==
  /\ pc = "analyse" /\ Pool!Start(i)
  /\ stage' = [stage EXCEPT ![i] = "check"]
  /\ UNCHANGED <<args, pc, closed, walk, anomalies, slot, report, result>>

EndTask(i, o) ==
  /\ Pool!End(i) /\ status'[i] = o
  /\ stage' = [stage EXCEPT ![i] = "idle"]

Continue(i, at) ==
  /\ stage' = [stage EXCEPT ![i] = at]
  /\ UNCHANGED <<status, cancelled, poolResult>>

\* The tasks' context is done with the caller's, and some time after a failure.
CheckContext(i) ==
  /\ pc = "analyse" /\ stage[i] = "check"
  /\ \/ /\ cancelled \/ \E j \in DOMAIN status : status[j] = "failed"
        /\ EndTask(i, "cancelled")
     \/ ~cancelled /\ Continue(i, "inode")
  /\ UNCHANGED <<args, pc, closed, walk, anomalies, slot, report, result>>

\* inodeForensicReportWithMode returns no error.
InodeReports(inode) ==
  Opens(inode) /\ (mode = "strict" => volume.health[inode] = "sound")

AnalyseInode(i) ==
  /\ pc = "analyse" /\ stage[i] = "inode"
  /\ LET inode == discovered[i].inode
         failed == Anomaly("INODE_REPORT_FAILED", inode)
     IN  \/ /\ InodeReports(inode)
            /\ slot' = [slot EXCEPT ![i].file = TRUE]
            /\ IF inode \in volume.isDir /\ artifacts
               THEN Continue(i, "directory") ELSE EndTask(i, "ok")
         \/ /\ ~InodeReports(inode) /\ mode = "strict"
            /\ EndTask(i, "failed") /\ UNCHANGED slot
         \/ /\ ~InodeReports(inode) /\ mode # "strict"
            /\ slot' = [slot EXCEPT ![i].anomalies = Append(@, failed)]
            /\ EndTask(i, "ok")
  /\ UNCHANGED <<args, pc, closed, walk, anomalies, report, result>>

\* directoryArtifactReportWithMode returns no error.
DirectoryReports(inode) ==
  /\ Opens(inode)
  /\ volume.damage[inode] \in (IF mode = "strict" THEN {"none"} ELSE {"none", "mild"})

\* Tasks that append to one list of anomalies as they go.
AnalyseDirectoryShared(i) ==
  /\ pc = "analyse" /\ stage[i] = "directory"
  /\ LET inode == discovered[i].inode
         failed == Anomaly("DIRECTORY_ARTIFACT_SCAN_FAILED", inode)
     IN  /\ slot' = IF DirectoryReports(inode) THEN [slot EXCEPT ![i].artifact = TRUE] ELSE slot
         /\ anomalies' = IF DirectoryReports(inode) THEN anomalies ELSE Append(anomalies, failed)
  /\ EndTask(i, "ok")
  /\ UNCHANGED <<args, pc, closed, walk, report, result>>

AnalyseDirectory(i) ==
  /\ pc = "analyse" /\ stage[i] = "directory"
  /\ LET inode == discovered[i].inode
         failed == Anomaly("DIRECTORY_ARTIFACT_SCAN_FAILED", inode)
     IN  slot' = IF DirectoryReports(inode)
                 THEN [slot EXCEPT ![i].artifact = TRUE]
                 ELSE [slot EXCEPT ![i].anomalies = Append(@, failed)]
  /\ EndTask(i, "ok")
  /\ UNCHANGED <<args, pc, closed, walk, anomalies, report, result>>

PoolReturns ==
  /\ pc = "analyse" /\ Pool!Return /\ pc' = "collect"
  /\ UNCHANGED <<args, closed, walk, anomalies, stage, slot, report, result>>

-------------------------------------------------------------------------------
\* A report that is given even if the pool did not do all its work.
CollectRegardless ==
  /\ pc = "collect"
  /\ anomalies' = anomalies \o FlattenSeq([i \in DOMAIN slot |-> slot[i].anomalies])
  /\ files' = {discovered[i] : i \in {j \in DOMAIN slot : slot[j].file}}
  /\ dirReports' = {discovered[i] : i \in {j \in DOMAIN slot : slot[j].artifact}}
  /\ crcChecked' = (~closed /\ files' # {})
  /\ Return("report")
  /\ UNCHANGED <<args, closed, cancelled, walk, tasks>>

\* Whether an inode had a checksum is found by opening it again.
Collect ==
  /\ pc = "collect"
  /\ IF poolResult = "ok"
     THEN /\ anomalies' = anomalies \o FlattenSeq([i \in DOMAIN slot |-> slot[i].anomalies])
          /\ files' = {discovered[i] : i \in {j \in DOMAIN slot : slot[j].file}}
          /\ dirReports' = {discovered[i] : i \in {j \in DOMAIN slot : slot[j].artifact}}
          /\ crcChecked' = (~closed /\ files' # {})
          /\ Return("report")
     ELSE Return(poolResult) /\ UNCHANGED <<anomalies, report>>
  /\ UNCHANGED <<args, closed, cancelled, walk, tasks>>

-------------------------------------------------------------------------------
(* The other goroutines *)
CloseVolume ==
  /\ result = "none" /\ ~closed /\ closed' = TRUE
  /\ UNCHANGED <<args, pc, cancelled, walk, anomalies, tasks, report, result>>

CallerCancel ==
  /\ result = "none" /\ ~cancelled /\ cancelled' = TRUE
  /\ UNCHANGED <<args, pc, closed, walk, anomalies, tasks, report, result>>

Returned == pc = "returned" /\ UNCHANGED vars

Task(i) == StartTask(i) \/ CheckContext(i) \/ AnalyseInode(i) \/ AnalyseDirectory(i)
Call == \/ Begin \/ ResolveRoot \/ VolumeIntegrity
        \/ WalkEnds \/ Visit \/ ListDirectory
        \/ StartPool \/ PoolReturns \/ Collect
        \/ \E i \in DOMAIN status : Task(i)

Next == Call \/ CloseVolume \/ CallerCancel \/ Returned

Spec == Init /\ [][Next]_vars

\* The call goes on as long as it can: its pool is a ParallelFor that
\* terminates (see RunBounded), and every analysis returns.
FairSpec == Spec /\ WF_vars(Call)

-------------------------------------------------------------------------------
Items == [inode : DOMAIN volume.health, path : Seq(Nat)]
Codes == {"MAX_ENTRIES_REACHED", "INODE_OPEN_FAILED", "DIRECTORY_LIST_FAILED",
          "INODE_REPORT_FAILED", "DIRECTORY_ARTIFACT_SCAN_FAILED"}

TypeOK ==
  /\ volume \in Volumes /\ mode \in Modes /\ cap \in Caps
  /\ artifacts \in BOOLEAN /\ rootPath \in RootPaths
  /\ pc \in {"begin", "resolve", "integrity", "walk", "list", "pool", "analyse",
             "collect", "returned"}
  /\ closed \in BOOLEAN /\ cancelled \in BOOLEAN
  /\ stack \in Seq(Items) /\ discovered \in Seq(Items)
  /\ visited \subseteq DOMAIN volume.health
  /\ anomalies \in Seq([code : Codes, inode : DOMAIN volume.health \cup {0}])
  /\ status \in Seq({"todo", "running", "ok", "failed", "cancelled"})
  /\ stage \in Seq({"idle", "check", "inode", "directory"})
  /\ DOMAIN status \in {{}, DOMAIN discovered}
  /\ DOMAIN slot = DOMAIN status /\ DOMAIN stage = DOMAIN status
  /\ poolResult \in {"none", "ok", "failed", "cancelled"}
  /\ files \subseteq ToSet(discovered) /\ dirReports \subseteq files
  /\ crcChecked \in BOOLEAN
  /\ result \in {"none", "report", "closed", "cancelled", "failed"}

Noted(codes, inode) == \E a \in ToSet(anomalies) : a.code \in codes /\ a.inode = inode
Truncated == \E a \in ToSet(anomalies) : a.code = "MAX_ENTRIES_REACHED"
Walked == {item.inode : item \in ToSet(discovered)}

\* However the directories link to each other, hard links and cycles included,
\* the report has no inode twice, nor more of them than the caller's cap.
EachInodeOnce ==
  /\ \A i, j \in DOMAIN discovered : discovered[i].inode = discovered[j].inode => i = j
  /\ cap > 0 => Len(discovered) <= cap

\* A report accounts for every inode that the walk came upon: below a directory
\* it has listed, each entry that the listing returned is in the report, or there is an
\* anomaly for it, or the report says that its cap cut it off.  A walk that the caller's cancellation
\* stopped after it had found something yields no report.
WalkComplete ==
  result = "report" /\ discovered # <<>> /\ ~Truncated =>
    \A d \in Walked \cap volume.isDir :
      \/ Noted({"DIRECTORY_LIST_FAILED"}, d)
      \/ \A e \in volume.entries[d] : e[2] \in Walked \/ Noted({"INODE_OPEN_FAILED"}, e[2])

\* A report has for every inode discovered its entry or the anomaly that says
\* why there is none, even if the volume is closed under it; likewise for the
\* artifacts of every directory, when they are asked for.  And it does not depend
\* on scheduling: the anomalies of the tasks come after those of the walk and in
\* the order of discovery.
Rank(a) == CHOOSE i \in DOMAIN discovered : discovered[i].inode = a.inode
TaskCodes == {"INODE_REPORT_FAILED", "DIRECTORY_ARTIFACT_SCAN_FAILED"}
EveryFindingKept ==
  result = "report" =>
    /\ \A item \in ToSet(discovered) :
         /\ item \in files \/ Noted({"INODE_REPORT_FAILED"}, item.inode)
         /\ item \in files /\ artifacts /\ item.inode \in volume.isDir =>
              item \in dirReports \/ Noted({"DIRECTORY_ARTIFACT_SCAN_FAILED"}, item.inode)
    /\ \A i, j \in DOMAIN anomalies :
         i < j /\ anomalies[i].code \in TaskCodes =>
           anomalies[j].code \in TaskCodes /\ Rank(anomalies[i]) <= Rank(anomalies[j])

\* A strict report contains nothing whose checksum does not hold.
StrictIsVerified ==
  result = "report" /\ mode = "strict" =>
    /\ ~volume.superblockBad
    /\ \A item \in files : volume.health[item.inode] = "sound"

\* A cancelled call returns a report only if its walk had come to its end
\* ("honouring context cancellation").
CancellationHonoured == result = "report" /\ cancelled => stack = <<>> \/ Truncated

\* What a listing recovered before its error is walked too: discarding it "is
\* how a recursive walk loses whole subtrees".
RecoveredEntriesWalked ==
  result = "report" /\ ~closed /\ ~cancelled /\ ~Truncated =>
    \A d \in Walked \cap volume.isDir : \A e \in volume.entries[d] :
      e[2] \in Walked \/ Noted({"INODE_OPEN_FAILED"}, e[2])

\* The call returns on every volume, cyclic ones included, as long as each listing does:
\* of the reads below it ReadReturns of module Extents says when they return.
ReportReturns == <>(result # "none")
===============================================================================
