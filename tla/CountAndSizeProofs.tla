------------------------- MODULE CountAndSizeProofs -------------------------
(***************************************************************************)
(* Proofs about CountAndSize for every tree, every choice of what is asked *)
(* for and every number of events.                                         *)
(***************************************************************************)
EXTENDS CountAndSize, ScanEngineProofs

LEMMA PathFacts ==
    ASSUME NEW path \in Path
    PROVE  path \in Seq(STRING) /\ Lineage(path) \subseteq Path /\ path \in Lineage(path)
  BY PathAssumption, LineageReflexive

-----------------------------------------------------------------------------
(* Types, and the shape of the step in flight *)

JobShape ==
    /\ ~EngineRunning => job = Resting
    /\ EngineRunning => job.phase \in { "listing", "pruning" }
    /\ job.phase # "pruning" => job.kids = {} /\ job.unchecked = {}

JobType == [phase : { "idle", "listing", "pruning" }, kids : SUBSET Path,
            skipped : SUBSET Path, unchecked : SUBSET Path]

LEMMA JobValues ==
    /\ Listing \in JobType /\ Resting \in JobType
    /\ Listing.phase = "listing" /\ Resting.phase = "idle"
    /\ Listing.kids = {} /\ Resting.kids = {}
    /\ Listing.unchecked = {} /\ Resting.unchecked = {}
  BY DEF Listing, Resting, JobType

LEMMA NextJobShape ==
    ASSUME job' = NextJob
    PROVE  job' \in JobType /\ JobShape'
  BY JobValues DEF NextJob, JobShape

\* The in-flight entry is one while a step runs.
LEMMA ActiveEntry ==
    ASSUME TypeOK, EngineRunning
    PROVE  active \in EntryOf(Path) /\ active.path \in Path
  BY DEF TypeOK, EngineRunning, EntryOf

LEMMA ReturnInPath ==
    ASSUME TypeOK, EngineRunning, NEW kids \in SUBSET Path, EngineReturn(kids)
    PROVE  /\ stack' \in Seq(EntryOf(Path))
           /\ active' \in EntryOf(Path) \cup { Idle }
           /\ stoppedRoots' \in SUBSET Path
           /\ QueuedPaths \subseteq QueuedPaths' \cup { active'.path }
           /\ kids \ CutChildren(kids) \subseteq QueuedPaths' \cup { active'.path }
           /\ QueuedPaths' \subseteq QueuedPaths \cup (kids \ CutChildren(kids))
           /\ active' # Idle => active'.path \in QueuedPaths \cup (kids \ CutChildren(kids))
           /\ active' = Idle => stack' = << >>
  <1>1. /\ stack \in Seq(EntryOf(Path)) /\ active \in EntryOf(Path)
        /\ stoppedRoots \in SUBSET Path
    BY ActiveEntry DEF TypeOK
  <1>2. IsFiniteSet(Path) /\ Idle.path \notin Path
    BY PathAssumption
  <1> QED
    BY <1>1, <1>2, ReturnKeepsQueue

LEMMA FinishStepType ==
    ASSUME TypeOK, EngineRunning, NEW table \in [Path -> Outcome],
           NEW kids \in SUBSET Path, FinishStep(table, kids)
    PROVE  /\ stack' \in Seq(EntryOf(Path))
           /\ active' \in EntryOf(Path) \cup { Idle }
           /\ stoppedRoots' \in SUBSET Path
           /\ rows' \in [Path -> Outcome]
           /\ job' \in JobType /\ JobShape'
           /\ halted' \in SUBSET Path
  <1> DEFINE result == IF active.path \in Partial THEN "partial" ELSE "done"
             recorded == RecordOwnResult(table, active.path, result)
  <1>1. result \in { "done", "partial", "error" }
    OBVIOUS
  <1>2. recorded \in [Path -> Outcome]
    BY <1>1, ActiveEntry, RowOperations
  <1>3. rows' = MarkStopped(recorded, CutChildren(kids))
    BY DEF FinishStep
  <1>4. rows' \in [Path -> Outcome]
    BY <1>1, <1>2, <1>3, ActiveEntry, RowOperations
  <1>5. EngineReturn(kids) /\ job' = NextJob
    BY DEF FinishStep
  <1>6. halted' \in SUBSET Path
    BY DEF FinishStep, TypeOK
  <1> QED
    BY <1>4, <1>5, <1>6, ReturnInPath, NextJobShape

LEMMA PruneOrFinishType ==
    ASSUME TypeOK, EngineRunning, NEW table \in [Path -> Outcome],
           NEW kids \in SUBSET Path, NEW skipped \in SUBSET Path,
           NEW unchecked \in SUBSET Path,
           PruneOrFinish(table, kids, skipped, unchecked)
    PROVE  /\ stack' \in Seq(EntryOf(Path))
           /\ active' \in EntryOf(Path) \cup { Idle }
           /\ stoppedRoots' \in SUBSET Path
           /\ rows' \in [Path -> Outcome]
           /\ job' \in JobType /\ JobShape'
           /\ halted' \in SUBSET Path
  <1> DEFINE Waits(s, u) ==
               /\ job' = [phase |-> "pruning", kids |-> kids, skipped |-> s, unchecked |-> u]
               /\ rows' = table
               /\ UNCHANGED << engineVars, halted >>
  <1>1. ASSUME NEW s \in SUBSET Path, NEW u \in SUBSET Path, Waits(s, u)
        PROVE  /\ stack' \in Seq(EntryOf(Path))
               /\ active' \in EntryOf(Path) \cup { Idle }
               /\ stoppedRoots' \in SUBSET Path
               /\ rows' \in [Path -> Outcome]
               /\ job' \in JobType /\ JobShape'
               /\ halted' \in SUBSET Path
    <2>1. active' = active /\ stack' = stack /\ stoppedRoots' = stoppedRoots
      BY <1>1 DEF engineVars
    <2>2. job' \in JobType /\ job'.phase = "pruning"
      BY <1>1 DEF JobType
    <2>3. JobShape'
      BY <2>1, <2>2 DEF JobShape, EngineRunning
    <2> QED
      BY <1>1, <2>1, <2>2, <2>3 DEF TypeOK
  <1>2. CASE unchecked # {}
    <2>1. Waits(skipped, unchecked)
      BY <1>2 DEF PruneOrFinish
    <2> HIDE DEF Waits
    <2> QED
      BY <2>1, <1>1
  <1>3. CASE unchecked = {} /\ { dir \in skipped : KnownBelow(table, dir) # {} } # {}
    <2>1. PICK dir \in skipped : Waits(skipped \ { dir }, KnownBelow(table, dir))
      BY <1>3 DEF PruneOrFinish
    <2>2. KnownBelow(table, dir) \in SUBSET Path
      BY DEF KnownBelow, GetSubtree, RowSubtree
    <2>3. skipped \ { dir } \in SUBSET Path
      OBVIOUS
    <2> HIDE DEF Waits
    <2> QED
      BY <2>1, <2>2, <2>3, <1>1
  <1>4. CASE FinishStep(table, kids)
    BY <1>4, FinishStepType
  <1> QED
    BY <1>2, <1>3, <1>4 DEF PruneOrFinish

LEMMA InitType == Init => TypeOK /\ JobShape
  <1> SUFFICES ASSUME Init PROVE TypeOK /\ JobShape
    OBVIOUS
  <1>1. stack = << >> /\ active = Idle /\ stoppedRoots = {} /\ job = Resting
    BY DEF Init, EngineInit
  <1>2. rows \in [Path -> Outcome] /\ disk = Path /\ events = 0
        /\ halted = {} /\ undisturbed = {}
    BY DEF Init, Outcome
  <1>3. events \in 0..MaxEvents
    BY <1>2, PathAssumption
  <1> QED
    BY <1>1, <1>2, <1>3, JobValues DEF TypeOK, JobShape, EngineRunning, Outcome, JobType

LEMMA NextType == TypeOK /\ JobShape /\ [Next]_vars => TypeOK' /\ JobShape'
  <1> SUFFICES ASSUME TypeOK, JobShape, [Next]_vars PROVE TypeOK' /\ JobShape'
    OBVIOUS
  <1> DEFINE Typed ==
               /\ stack' \in Seq(EntryOf(Path))
               /\ active' \in EntryOf(Path) \cup { Idle }
               /\ stoppedRoots' \in SUBSET Path
               /\ rows' \in [Path -> Outcome]
               /\ disk' \in SUBSET Path
               /\ job' \in JobType
               /\ events' \in 0..MaxEvents
               /\ halted' \in SUBSET Path
               /\ undisturbed' \in SUBSET Path
               /\ JobShape'
  <1>0. Typed => TypeOK' /\ JobShape'
    BY DEF TypeOK, Outcome, JobType
  <1>t. /\ stack \in Seq(EntryOf(Path)) /\ active \in EntryOf(Path) \cup { Idle }
        /\ stoppedRoots \in SUBSET Path /\ rows \in [Path -> Outcome]
        /\ disk \in SUBSET Path /\ job \in JobType /\ events \in 0..MaxEvents
        /\ halted \in SUBSET Path /\ undisturbed \in SUBSET Path
    BY DEF TypeOK, Outcome, JobType
  <1>e. Event => events' \in 0..MaxEvents
    BY <1>t, PathAssumption DEF Event
  <1>1. ASSUME NEW path \in ScanRoots, NEW done \in SUBSET Path, StartScan(path, done)
        PROVE  Typed
    <2>1. path \in Path
      BY PathAssumption
    <2>2. Entry(path, done) \in EntryOf(Path)
      BY <2>1 DEF Entry, EntryOf
    <2>3. EngineEnqueue(Entry(path, done)) /\ stoppedRoots' = stoppedRoots
      BY <1>1 DEF StartScan, EngineEnqueue, EngineEnqueueAll
    <2>4. stack' \in Seq(EntryOf(Path)) /\ active' \in EntryOf(Path) \cup { Idle }
      BY <2>2, <2>3, <1>t, EnqueueFacts
    <2>5. rows' \in [Path -> Outcome]
      <3>1. rows' = UpsertPending(rows, { path })
        BY <1>1 DEF StartScan
      <3> QED
        BY <3>1, <1>t, RowOperations, <2>1
    <2>6. job' \in JobType /\ JobShape'
      <3>1. CASE EngineRunning
        BY <3>1, <1>1, <2>3, <1>t DEF StartScan, JobShape, EngineRunning, EngineEnqueue, EngineEnqueueAll
      <3>2. CASE ~EngineRunning
        <4>1. job' = Listing /\ active' = Entry(path, done)
          BY <3>2, <1>1 DEF StartScan, EngineEnqueue, EngineEnqueueAll
        <4>2. EngineRunning'
          BY <4>1, <2>1, PathAssumption DEF EngineRunning, Entry, Idle
        <4> QED
          BY <4>1, <4>2, JobValues DEF JobShape
      <3> QED
        BY <3>1, <3>2
    <2> QED
      BY <1>1, <1>e, <1>t, <2>1, <2>3, <2>4, <2>5, <2>6 DEF StartScan, LexicalSubtree
  <1>2. ASSUME NEW path \in StopRoots, StopScan(path) PROVE Typed
    <2>1. path \in Path
      BY PathAssumption
    <2>2. EngineRequestStop(path) /\ active' = active /\ job' = job
          /\ stoppedRoots' = stoppedRoots \cup { path }
      BY <1>2 DEF StopScan, EngineRequestStop, EngineRequestStops
    <2>3. stack' \in Seq(EntryOf(Path))
      BY <2>2, <1>t, KeptQueue
    <2>4. rows' \in [Path -> Outcome]
      BY <1>2, <1>t, <2>1, RowOperations DEF StopScan
    <2>5. JobShape'
      BY <2>2 DEF JobShape, EngineRunning
    <2> QED
      BY <1>2, <1>e, <1>t, <2>1, <2>2, <2>3, <2>4, <2>5 DEF StopScan, LexicalSubtree
  <1>3. ASSUME ListFails PROVE Typed
    <2>1. EngineRunning
      BY <1>3, JobValues DEF ListFails, JobShape
    <2>2. EngineReturn({}) /\ job' = NextJob /\ rows' = RecordOwnResult(rows, active.path, "error")
      BY <1>3 DEF ListFails
    <2>3. rows' \in [Path -> Outcome]
      BY <2>1, <2>2, <1>t, ActiveEntry, RowOperations
    <2>4. /\ stack' \in Seq(EntryOf(Path)) /\ active' \in EntryOf(Path) \cup { Idle }
          /\ stoppedRoots' \in SUBSET Path
      <3>1. {} \in SUBSET Path
        OBVIOUS
      <3> QED
        BY <2>1, <2>2, <3>1, ReturnInPath
    <2> QED
      BY <1>3, <1>t, <2>2, <2>3, <2>4, NextJobShape DEF ListFails
  <1>4. ASSUME ListSucceeds PROVE Typed
    <2> DEFINE found == ChildDirs(active.path)
               kids == found \ active.done
               gone == GetDirectChildren(rows, active.path) \ found
               listed == UpsertPending(DeleteDirectorySubtree(rows, gone), kids)
    <2>1. EngineRunning
      BY <1>4, JobValues DEF ListSucceeds, JobShape
    <2>2. kids \in SUBSET Path /\ SkippedDirs \in SUBSET Path
      BY <1>t DEF ChildDirs, SkippedDirs
    <2>3. listed \in [Path -> Outcome]
      BY <2>1, <1>t, ActiveEntry, RowOperations
    <2>4. PruneOrFinish(listed, kids, SkippedDirs, {})
      BY <1>4 DEF ListSucceeds
    <2> HIDE DEF kids, listed
    <2>5. {} \in SUBSET Path
      OBVIOUS
    <2> QED
      BY <1>4, <1>t, <2>1, <2>2, <2>3, <2>4, <2>5, PruneOrFinishType DEF ListSucceeds
  <1>5. ASSUME NEW path \in Path, CheckExists(path) PROVE Typed
    <2> DEFINE table == IF path \in disk THEN rows ELSE DeleteDirectorySubtree(rows, { path })
    <2>1. EngineRunning
      BY <1>5, JobValues DEF CheckExists, JobShape
    <2>2. table \in [Path -> Outcome]
      BY <1>t, RowOperations
    <2>3. /\ job.kids \in SUBSET Path /\ job.skipped \in SUBSET Path
          /\ job.unchecked \ { path } \in SUBSET Path
      BY <1>t DEF JobType
    <2>4. PruneOrFinish(table, job.kids, job.skipped, job.unchecked \ { path })
      BY <1>5 DEF CheckExists
    <2> HIDE DEF table
    <2> QED
      BY <1>5, <1>t, <2>1, <2>2, <2>3, <2>4, PruneOrFinishType DEF CheckExists
  <1>6. ASSUME ListRejects PROVE Typed
    <2>1. active' = Idle /\ job' = Resting
      BY <1>6 DEF ListRejects, EngineThrow
    <2>2. JobShape'
      BY <2>1, JobValues DEF JobShape, EngineRunning
    <2> QED
      BY <1>6, <1>t, <2>1, <2>2, JobValues DEF ListRejects, EngineThrow, repoVars
  <1>7. ASSUME Restart PROVE Typed
    <2>1. active' = Idle /\ job' = Resting /\ stack' = << >> /\ stoppedRoots' = {}
      BY <1>7 DEF Restart, EngineLost
    <2>2. JobShape'
      BY <2>1, JobValues DEF JobShape, EngineRunning
    <2>3. rows' \in [Path -> Outcome]
      BY <1>7, <1>t DEF Restart, MarkStopped, Outcome, OwnOutcome
    <2> QED
      BY <1>7, <1>e, <1>t, <2>1, <2>2, <2>3, JobValues DEF Restart
  <1>8. ASSUME NEW path \in MayVanish, Vanish(path) PROVE Typed
    BY <1>8, <1>e, <1>t DEF Vanish, engineVars, JobShape, EngineRunning
  <1>9. ASSUME NEW path \in MayReturn \cap Path, Reappear(path) PROVE Typed
    BY <1>9, <1>e, <1>t DEF Reappear, engineVars, JobShape, EngineRunning
  <1>10. ASSUME UNCHANGED vars PROVE Typed
    BY <1>10, <1>t DEF vars, JobShape, EngineRunning
  <1>11. \A path : DeriveDoneSet(rows, path) \in SUBSET Path
    BY GetSubtreeInPath DEF DeriveDoneSet
  <1>12. {} \in SUBSET Path /\ MayReturn \subseteq Path
    BY PathAssumption
  <1> HIDE DEF Typed
  <1> QED
    BY <1>0, <1>1, <1>2, <1>3, <1>4, <1>5, <1>6, <1>7, <1>8, <1>9, <1>10, <1>11, <1>12
       DEF Next, Request, Step, ScanFull, ScanIncremental

\* Every variable keeps its type, and the step in flight its shape: a step is
\* awaited exactly while the engine has an entry in flight.
THEOREM TypeCorrect == Spec => [](TypeOK /\ JobShape)
  <1> QED
    BY InitType, NextType, PTL DEF Spec

-----------------------------------------------------------------------------
(* A Stop is respected by the queue and by what is in flight *)

\* What the engine has taken up: the queue, and the directory in flight.
TakenUp == QueuedPaths \cup (IF EngineRunning THEN { active.path } ELSE {})

\* The mark of a Stop on the path, or on a directory above it.
Marked(path) == \E root \in stoppedRoots : IsWithinSubtree(path, root)

\* A path that was stopped is under the mark of a Stop, or out of the engine's
\* reach: neither it nor a directory above it has been taken up, and only the
\* listing of its parent could put it back on the queue.
StopInv ==
    /\ stoppedRoots \subseteq StopRoots
    /\ \A kid \in job.kids : kid # Root /\ ParentPath(kid) = active.path
    /\ QueuedPaths \cap halted \subseteq stoppedRoots
    /\ \A path \in halted : \/ Marked(path)
                            \/ \A above \in TakenUp : ~IsWithinSubtree(path, above)

LEMMA InitStopInv == Init => StopInv
  BY JobValues DEF Init, EngineInit, StopInv, QueuedPaths

LEMMA MarkedIsInSubtree ==
    ASSUME Root \notin StopRoots, StopInv, NEW path, NEW root \in stoppedRoots
    PROVE  IsWithinSubtree(path, root) => IsInSubtree(path, root)
  BY DEF StopInv, IsWithinSubtree, IsInSubtree

LEMMA StopInvRespectsStop ==
    ASSUME Root \notin StopRoots, TypeOK, StopInv
    PROVE  QueueRespectsStop
  <1>1. ASSUME active.path \in halted PROVE StoppedInFlight
    <2>1. active.path \in Path /\ active.path \in Lineage(active.path)
      BY <1>1, PathFacts DEF TypeOK
    <2>2. EngineRunning
      BY <2>1, PathAssumption DEF EngineRunning, Idle
    <2>3. Marked(active.path)
      BY <1>1, <2>1, <2>2 DEF StopInv, TakenUp, IsWithinSubtree
    <2> QED
      BY <2>3, MarkedIsInSubtree DEF Marked, StoppedInFlight
  <1> QED
    BY <1>1 DEF QueueRespectsStop, StopInv

LEMMA QueueInPath ==
    ASSUME TypeOK
    PROVE  stack \in Seq(EntryOf(Path)) /\ QueuedPaths \in SUBSET Path
  <1>1. stack \in Seq(EntryOf(Path))
    BY DEF TypeOK
  <1>2. \A i \in DOMAIN stack : stack[i] \in EntryOf(Path)
    BY <1>1
  <1> QED
    BY <1>1, <1>2 DEF QueuedPaths, EntryOf

\* One turn of the loop: a child that is pushed and had been stopped is one on
\* which Stop itself was pressed, for a Stop above it would have cut its parent.
LEMMA ReturnKeepsStopInv ==
    ASSUME Root \notin StopRoots, TypeOK, StopInv, EngineRunning,
           NEW kids \in SUBSET Path,
           \A kid \in kids : kid # Root /\ ParentPath(kid) = active.path,
           EngineReturn(kids), halted' = halted, job' = NextJob
    PROVE  StopInv'
  <1> DEFINE pushed == kids \ CutChildren(kids)
  <1>1. /\ QueuedPaths' \subseteq QueuedPaths \cup pushed
        /\ active' # Idle => active'.path \in QueuedPaths \cup pushed
        /\ active' = Idle => stack' = << >>
    BY ReturnInPath
  <1>2. active' = Idle \/ stoppedRoots' = stoppedRoots
    BY DEF EngineReturn
  <1>3. stoppedRoots' \subseteq stoppedRoots
    BY DEF EngineReturn
  <1>4. \A kid \in job'.kids : FALSE
    BY JobValues DEF NextJob
  <1>5. halted \in SUBSET Path /\ active.path \in Path
    BY ActiveEntry DEF TypeOK
  <1>6. CASE active' = Idle
    <2>1. QueuedPaths' = {} /\ TakenUp' = {}
      BY <1>1, <1>6 DEF QueuedPaths, TakenUp, EngineRunning
    <2> QED
      BY <2>1, <1>3, <1>4 DEF StopInv
  <1>7. CASE active' # Idle
    <2>1. stoppedRoots' = stoppedRoots
      BY <1>2, <1>7
    <2>2. TakenUp' \subseteq QueuedPaths \cup pushed
      BY <1>1, <1>7 DEF TakenUp, EngineRunning
    <2>3. active.path \in TakenUp /\ QueuedPaths \subseteq TakenUp
      BY DEF TakenUp
    <2>4. ASSUME NEW kid \in pushed
          PROVE  /\ Lineage(kid) = { kid } \cup Lineage(active.path)
                 /\ active.path \in Lineage(active.path)
                 /\ ~StoppedInFlight
      BY <1>5, PathFacts, LineageOfChild DEF CutChildren
    \* A mark above a pushed child is on the child.
    <2>5. ASSUME NEW kid \in pushed, kid \in halted PROVE kid \in stoppedRoots
      <3>1. IsWithinSubtree(kid, active.path)
        BY <2>4 DEF IsWithinSubtree
      <3>2. Marked(kid)
        BY <2>3, <2>5, <3>1 DEF StopInv
      <3>3. PICK root \in stoppedRoots : root \in Lineage(kid)
        BY <3>2 DEF Marked, IsWithinSubtree
      <3>4. root \notin Lineage(active.path)
        BY <2>4, MarkedIsInSubtree DEF StoppedInFlight, IsWithinSubtree
      <3> QED
        BY <2>4, <3>3, <3>4
    <2>6. ASSUME NEW path \in halted, ~Marked(path), NEW above \in TakenUp'
          PROVE  ~IsWithinSubtree(path, above)
      <3>1. CASE above \in QueuedPaths
        BY <2>3, <2>6, <3>1 DEF StopInv
      <3>2. CASE above \in pushed
        <4>1. SUFFICES ASSUME above \in Lineage(path) PROVE FALSE
          BY DEF IsWithinSubtree
        <4>2. active.path \in Lineage(above)
          BY <2>4, <3>2
        <4>3. active.path \in Lineage(path)
          BY <1>5, <4>1, <4>2, PathFacts, LineageTransitive
        <4> QED
          BY <2>3, <2>6, <4>3 DEF StopInv, IsWithinSubtree
      <3> QED
        BY <2>2, <3>1, <3>2
    <2>7. QueuedPaths' \cap halted' \subseteq stoppedRoots'
      BY <1>1, <2>1, <2>5 DEF StopInv
    <2>8. \A path \in halted' : \/ Marked(path)'
                                \/ \A above \in TakenUp' : ~IsWithinSubtree(path, above)
      BY <2>1, <2>6 DEF Marked
    <2>9. /\ stoppedRoots' \subseteq StopRoots
          /\ \A kid \in job'.kids : kid # Root /\ ParentPath(kid) = active'.path
      BY <1>4, <2>1 DEF StopInv
    <2> QED
      BY <2>7, <2>8, <2>9 DEF StopInv
  <1> QED
    BY <1>6, <1>7

\* While a step awaits, the engine and its children stay as they are.
LEMMA PruneKeepsStopInv ==
    ASSUME Root \notin StopRoots, TypeOK, StopInv, EngineRunning, NEW table,
           NEW kids \in SUBSET Path, NEW skipped, NEW unchecked,
           \A kid \in kids : kid # Root /\ ParentPath(kid) = active.path,
           PruneOrFinish(table, kids, skipped, unchecked)
    PROVE  StopInv'
  <1>1. CASE UNCHANGED << engineVars, halted >> /\ job'.kids = kids
    BY <1>1 DEF StopInv, engineVars, QueuedPaths, Marked, TakenUp, EngineRunning
  <1>2. CASE FinishStep(table, kids)
    BY <1>2, ReturnKeepsStopInv DEF FinishStep
  <1> QED
    BY <1>1, <1>2 DEF PruneOrFinish

LEMMA NextStopInv ==
    ASSUME Root \notin StopRoots, MayThrow = {}, TypeOK, JobShape, StopInv, [Next]_vars
    PROVE  StopInv'
  <1>t. stack \in Seq(EntryOf(Path)) /\ QueuedPaths \in SUBSET Path /\ halted \in SUBSET Path
    BY QueueInPath DEF TypeOK
  <1>1. ASSUME NEW path \in ScanRoots, NEW done \in SUBSET Path, StartScan(path, done)
        PROVE  StopInv'
    <2>1. path \in Path /\ Entry(path, done) \in EntryOf(Path)
      BY PathAssumption DEF Entry, EntryOf
    <2>2. /\ EngineEnqueue(Entry(path, done)) /\ halted' = halted \ LexicalSubtree(Path, path)
          /\ stoppedRoots' = stoppedRoots /\ job' = IF EngineRunning THEN job ELSE Listing
      BY <1>1 DEF StartScan, EngineEnqueue, EngineEnqueueAll
    <2>3. /\ QueuedPaths' \subseteq QueuedPaths \cup { path }
          /\ IF EngineRunning THEN active' = active ELSE active' = Entry(path, done)
      BY <2>1, <2>2, <1>t, EnqueueFacts DEF Entry
    <2>4. TakenUp' \subseteq TakenUp \cup { path }
      BY <2>3 DEF TakenUp, EngineRunning, Entry
    <2>5. \A p \in halted' : p \in halted /\ ~IsWithinSubtree(p, path)
      BY <1>t, <2>2 DEF LexicalSubtree
    <2>6. path \notin halted'
      BY <2>1, <2>5, PathFacts DEF IsWithinSubtree
    <2>7. \A kid \in job'.kids : kid # Root /\ ParentPath(kid) = active'.path
      BY <2>2, <2>3, JobValues DEF StopInv
    <2>8. \A p \in halted' : \/ Marked(p)'
                             \/ \A above \in TakenUp' : ~IsWithinSubtree(p, above)
      BY <2>2, <2>4, <2>5 DEF StopInv, Marked
    <2> QED
      BY <2>2, <2>3, <2>5, <2>6, <2>7, <2>8 DEF StopInv
  <1>2. ASSUME NEW root \in StopRoots, StopScan(root)
        PROVE  StopInv'
    <2>1. QueuedPaths' = { path \in QueuedPaths : ~IsInSubtree(path, root) }
      BY <1>2, <1>t, KeptQueue DEF StopScan
    <2>2. /\ halted' = halted \cup LexicalSubtree(Path, root) /\ root # Root
          /\ stoppedRoots' = stoppedRoots \cup { root }
          /\ active' = active /\ job' = job
      BY <1>2 DEF StopScan, EngineRequestStop, EngineRequestStops
    <2>3. TakenUp' \subseteq TakenUp
      BY <2>1, <2>2 DEF TakenUp, EngineRunning
    <2>4. \A path \in LexicalSubtree(Path, root) : IsWithinSubtree(path, root)
      BY DEF LexicalSubtree
    <2>5. QueuedPaths' \cap halted' \subseteq stoppedRoots'
      BY <2>1, <2>2, <2>4 DEF StopInv, IsWithinSubtree, IsInSubtree
    <2>6. \A path \in halted' : \/ Marked(path)'
                                \/ \A above \in TakenUp' : ~IsWithinSubtree(path, above)
      BY <2>2, <2>3, <2>4 DEF StopInv, Marked
    <2> QED
      BY <2>2, <2>5, <2>6 DEF StopInv
  <1>3. CASE ListFails
    <2>1. EngineRunning /\ EngineReturn({}) /\ halted' = halted /\ job' = NextJob
      BY <1>3, JobValues DEF ListFails, JobShape
    <2>2. {} \in SUBSET Path
      OBVIOUS
    <2> QED
      BY <2>1, <2>2, ReturnKeepsStopInv
  <1>4. CASE ListSucceeds
    <2>1. EngineRunning
      BY <1>4, JobValues DEF ListSucceeds, JobShape
    <2>2. ChildDirs(active.path) \ active.done \in SUBSET Path
      BY DEF ChildDirs, TypeOK
    <2>3. \A kid \in ChildDirs(active.path) \ active.done :
             kid # Root /\ ParentPath(kid) = active.path
      BY DEF ChildDirs
    <2> QED
      BY <1>4, <2>1, <2>2, <2>3, PruneKeepsStopInv DEF ListSucceeds
  <1>5. ASSUME NEW path \in Path, CheckExists(path) PROVE StopInv'
    <2>1. EngineRunning
      BY <1>5, JobValues DEF CheckExists, JobShape
    <2>2. job.kids \in SUBSET Path
      BY DEF TypeOK
    <2>3. \A kid \in job.kids : kid # Root /\ ParentPath(kid) = active.path
      BY DEF StopInv
    <2> QED
      BY <1>5, <2>1, <2>2, <2>3, PruneKeepsStopInv DEF CheckExists
  <1>6. CASE Restart
    <2>1. stack' = << >> /\ active' = Idle /\ stoppedRoots' = {} /\ job' = Resting
      BY <1>6 DEF Restart, EngineLost
    <2>2. QueuedPaths' = {} /\ TakenUp' = {}
      BY <2>1 DEF QueuedPaths, TakenUp, EngineRunning
    <2> QED
      BY <2>1, <2>2, JobValues DEF StopInv
  <1>7. ASSUME NEW path, Vanish(path) \/ Reappear(path) PROVE StopInv'
    BY <1>7 DEF Vanish, Reappear, engineVars, StopInv, QueuedPaths, Marked, TakenUp, EngineRunning
  <1>8. CASE UNCHANGED vars
    BY <1>8 DEF vars, StopInv, QueuedPaths, Marked, TakenUp, EngineRunning
  <1>9. ~ListRejects
    BY DEF ListRejects
  <1>10. \A path : DeriveDoneSet(rows, path) \in SUBSET Path
    BY GetSubtreeInPath DEF DeriveDoneSet
  <1> QED
    BY <1>1, <1>2, <1>3, <1>4, <1>5, <1>6, <1>7, <1>8, <1>9, <1>10
       DEF Next, Request, Step, ScanFull, ScanIncremental

\* If Stop is not pressed on "/" and no listing rejects: of all that was stopped
\* and not asked for again, only a directory on which Stop was pressed while its
\* parent was being listed waits on the stack, and nothing in flight goes further.
THEOREM StopIsRespected ==
    ASSUME Root \notin StopRoots, MayThrow = {}
    PROVE  Spec => []QueueRespectsStop
  <1>1. TypeOK /\ JobShape /\ StopInv /\ [Next]_vars => StopInv'
    BY NextStopInv
  <1>2. TypeOK /\ StopInv => QueueRespectsStop
    BY StopInvRespectsStop
  <1> QED
    BY <1>1, <1>2, InitStopInv, TypeCorrect, PTL DEF Spec

-----------------------------------------------------------------------------
(* A stopped row is not turned into a result *)

Kept(table, after) ==
    \A path \in Path : table[path] = "stopped" => after[path] \in { "stopped", "pending", "none" }

LEMMA OperationsKeepStopped ==
    ASSUME NEW table \in [Path -> Outcome], NEW paths, NEW target, NEW result
    PROVE  /\ Kept(table, UpsertPending(table, paths))
           /\ Kept(table, MarkStopped(table, paths))
           /\ Kept(table, DeleteDirectorySubtree(table, paths))
           /\ Kept(table, RecordOwnResult(table, target, result))
  BY DEF Kept, UpsertPending, MarkStopped, DeleteDirectorySubtree, RecordOwnResult

\* PruneOrFinish writes at most the outcome of the path in flight, over a
\* table in which a path other than the children has not been stopped since.
LEMMA PruneKeepsStopped ==
    ASSUME TypeOK, EngineRunning, NEW table \in [Path -> Outcome], NEW kids \in SUBSET Path,
           NEW skipped, NEW unchecked, PruneOrFinish(table, kids, skipped, unchecked)
    PROVE  Kept(table, rows')
  <1>1. CASE rows' = table
    BY <1>1 DEF Kept
  <1>2. CASE FinishStep(table, kids)
    <2> DEFINE result == IF active.path \in Partial THEN "partial" ELSE "done"
               recorded == RecordOwnResult(table, active.path, result)
    <2>1. recorded \in [Path -> Outcome]
      BY ActiveEntry, RowOperations
    <2>2. Kept(table, recorded)
      BY OperationsKeepStopped
    <2>3. \A path \in Path : table[path] = "stopped" => recorded[path] = "stopped"
      BY DEF RecordOwnResult
    <2>4. rows' = MarkStopped(recorded, CutChildren(kids))
      BY <1>2 DEF FinishStep
    <2> HIDE DEF recorded
    <2>5. Kept(recorded, rows')
      BY <2>1, <2>4, OperationsKeepStopped
    <2> QED
      BY <2>3, <2>5 DEF Kept
  <1> QED
    BY <1>1, <1>2 DEF PruneOrFinish

LEMMA StepKeepsStopped ==
    ASSUME TypeOK, JobShape, [Next]_vars
    PROVE  Kept(rows, rows')
  <1>t. rows \in [Path -> Outcome]
    BY DEF TypeOK, Outcome
  <1>1. ASSUME NEW path, NEW done, StartScan(path, done) PROVE Kept(rows, rows')
    BY <1>1, <1>t, OperationsKeepStopped DEF StartScan
  <1>2. ASSUME NEW path, StopScan(path) PROVE Kept(rows, rows')
    BY <1>2, <1>t, OperationsKeepStopped DEF StopScan
  <1>3. CASE ListFails
    BY <1>3, <1>t, OperationsKeepStopped DEF ListFails
  <1>4. CASE ListSucceeds
    <2> DEFINE found == ChildDirs(active.path)
               kids == found \ active.done
               gone == GetDirectChildren(rows, active.path) \ found
               pruned == DeleteDirectorySubtree(rows, gone)
               listed == UpsertPending(pruned, kids)
    <2>1. EngineRunning /\ PruneOrFinish(listed, kids, SkippedDirs, {})
      BY <1>4, JobValues DEF ListSucceeds, JobShape
    <2>2. kids \in SUBSET Path
      BY DEF ChildDirs, TypeOK
    <2>3. listed \in [Path -> Outcome]
      BY <2>1, <1>t, ActiveEntry, RowOperations
    <2>4. \A path \in Path : rows[path] = "stopped" =>
              listed[path] \in { "stopped", "pending", "none" }
      BY DEF UpsertPending, DeleteDirectorySubtree
    <2>5. \A path \in Path : listed[path] = "pending" => path \in kids \/ rows[path] = "pending"
      BY DEF UpsertPending, DeleteDirectorySubtree
    <2>6. active.path \notin kids
      <3>1. active.path \in Path
        BY <2>1, ActiveEntry
      <3>2. ASSUME active.path # Root PROVE ParentPath(active.path) # active.path
        <4>1. active.path \in Seq(STRING)
          BY <3>1, PathFacts
        <4> QED
          BY <3>2, <4>1, LineageOfChild
      <3> QED
        BY <3>2 DEF ChildDirs
    <2>7. \A path \in Path : listed[path] = "none" => rows[path] # "stopped" \/ rows'[path] \in {"none"}
      <3> DEFINE final == RecordOwnResult(listed, active.path,
                            IF active.path \in Partial THEN "partial" ELSE "done")
      <3>1. rows' = listed \/ rows' = MarkStopped(final, CutChildren(kids))
        BY <2>1 DEF PruneOrFinish, FinishStep
      <3>2. \A path \in Path : listed[path] = "none" => final[path] = "none"
        BY DEF RecordOwnResult
      <3> HIDE DEF listed, final
      <3> QED
        BY <3>1, <3>2 DEF MarkStopped
    <2>8. \A path \in Path : path \in kids => rows'[path] \in { "pending", "stopped" }
      <3> DEFINE final == RecordOwnResult(listed, active.path,
                            IF active.path \in Partial THEN "partial" ELSE "done")
      <3>1. rows' = listed \/ rows' = MarkStopped(final, CutChildren(kids))
        BY <2>1 DEF PruneOrFinish, FinishStep
      <3>2. \A path \in Path : path \in kids => listed[path] = "pending"
        BY DEF UpsertPending
      <3>3. \A path \in Path : path \in kids => final[path] = "pending"
        BY <3>2, <2>3, <2>6 DEF RecordOwnResult
      <3> HIDE DEF listed, final, kids
      <3> QED
        BY <3>1, <3>2, <3>3 DEF MarkStopped
    <2> HIDE DEF listed, kids
    <2>9. Kept(listed, rows')
      BY <2>1, <2>2, <2>3, PruneKeepsStopped
    <2> QED
      BY <2>4, <2>5, <2>7, <2>8, <2>9 DEF Kept
  <1>5. ASSUME NEW path \in Path, CheckExists(path) PROVE Kept(rows, rows')
    <2> DEFINE table == IF path \in disk THEN rows ELSE DeleteDirectorySubtree(rows, { path })
    <2>1. EngineRunning /\ PruneOrFinish(table, job.kids, job.skipped, job.unchecked \ { path })
      BY <1>5, JobValues DEF CheckExists, JobShape
    <2>2. table \in [Path -> Outcome] /\ job.kids \in SUBSET Path
      BY <1>t, RowOperations DEF TypeOK
    <2>3. \A p \in Path : rows[p] = "stopped" => table[p] \in { "stopped", "none" }
      BY DEF DeleteDirectorySubtree
    <2>4. \A p \in Path : table[p] = "none" => rows'[p] = "none"
      <3> DEFINE final == RecordOwnResult(table, active.path,
                            IF active.path \in Partial THEN "partial" ELSE "done")
      <3>1. rows' = table \/ rows' = MarkStopped(final, CutChildren(job.kids))
        BY <2>1 DEF PruneOrFinish, FinishStep
      <3>2. \A p \in Path : table[p] = "none" => final[p] = "none"
        BY DEF RecordOwnResult
      <3> HIDE DEF table, final
      <3> QED
        BY <3>1, <3>2 DEF MarkStopped
    <2> HIDE DEF table
    <2>5. Kept(table, rows')
      BY <2>1, <2>2, PruneKeepsStopped
    <2> QED
      BY <2>3, <2>4, <2>5 DEF Kept
  <1>6. CASE Restart
    BY <1>6, <1>t, OperationsKeepStopped DEF Restart
  <1>7. CASE rows' = rows
    BY <1>7 DEF Kept
  <1> QED
    BY <1>1, <1>2, <1>3, <1>4, <1>5, <1>6, <1>7
       DEF Next, Request, Step, ScanFull, ScanIncremental, ListRejects, Vanish, Reappear,
           repoVars, vars

\* A row that a Stop (or a restart) has settled becomes a result only by being
\* asked for again: the listing that was in flight cannot write over it.
THEOREM StoppedStays == Spec => StoppedIsNotOverwritten
  <1>1. TypeOK /\ JobShape /\ [Next]_vars =>
          [\A path \in Path : rows[path] = "stopped" =>
              rows'[path] \in { "stopped", "pending", "none" }]_vars
    BY StepKeepsStopped DEF Kept
  <1> QED
    BY <1>1, TypeCorrect, PTL DEF Spec, StoppedIsNotOverwritten

-----------------------------------------------------------------------------
(* No pending row is orphaned                                              *)
(*                                                                         *)
(* stopScan drops queue entries by their path, but settles rows by walking *)
(* parent_path. The two agree as long as the table has no gaps: between a  *)
(* row and a row above it, every directory has a row. That follows from    *)
(* Anchored, which is what the steps preserve.                             *)

\* Two directories that are both scanned, one below the other, are parent and
\* child: Scan of a deeper one would leave the directories between rowless.
AdjacentRoots ==
    \A low \in ScanRoots : \A high \in ScanRoots \cap Lineage(low) : Len(low) <= Len(high) + 1

RowsOf(table) == { path \in Path : table[path] # "none" }

\* Each row hangs, row by row, from a directory that was scanned.
AnchoredSet(H) ==
    \A path \in H : \E root \in ScanRoots \cap Lineage(path) :
        \A mid \in Lineage(path) : root \in Lineage(mid) => mid \in H

DiskClosed == \A path \in disk : Lineage(path) \subseteq disk

\* What is queued or in flight has a row, or is no longer on disk.
RowlessIsGone(table, paths) == \A path \in paths \cap disk : table[path] # "none"

InHand == QueuedPaths \cup { active.path } \cup job.kids

IInv ==
    /\ AnchoredSet(RowsOf(rows))
    /\ DiskClosed
    /\ RowlessIsGone(rows, InHand)
    /\ PendingIsOwned

LEMMA AnchoredSurvivesDelete ==
    ASSUME NEW H \in SUBSET Path, AnchoredSet(H), NEW G
    PROVE  AnchoredSet({ path \in H : ~ \E g \in G : IsWithinSubtree(path, g) })
  <1> DEFINE K == { path \in H : ~ \E g \in G : IsWithinSubtree(path, g) }
  <1> SUFFICES ASSUME NEW path \in K
               PROVE  \E root \in ScanRoots \cap Lineage(path) :
                        \A mid \in Lineage(path) : root \in Lineage(mid) => mid \in K
    BY DEF AnchoredSet
  <1>1. PICK root \in ScanRoots \cap Lineage(path) :
           \A mid \in Lineage(path) : root \in Lineage(mid) => mid \in H
    BY DEF AnchoredSet
  <1>2. ASSUME NEW mid \in Lineage(path), root \in Lineage(mid) PROVE mid \in K
    <2>1. mid \in H
      BY <1>1, <1>2
    <2>2. ASSUME NEW g \in G, IsWithinSubtree(mid, g) PROVE IsWithinSubtree(path, g)
      BY <2>2, PathFacts, LineageTransitive DEF IsWithinSubtree
    <2> QED
      BY <2>1, <2>2
  <1> QED
    BY <1>2

LEMMA AnchoredGrows ==
    ASSUME NEW H \in SUBSET Path, AnchoredSet(H), NEW K \in SUBSET Path,
           \A kid \in K : kid # Root /\ ParentPath(kid) \in H
    PROVE  AnchoredSet(H \cup K)
  <1>1. ASSUME NEW path \in H
        PROVE  \E root \in ScanRoots \cap Lineage(path) :
                  \A mid \in Lineage(path) : root \in Lineage(mid) => mid \in H \cup K
    BY DEF AnchoredSet
  <1>2. ASSUME NEW kid \in K
        PROVE  \E root \in ScanRoots \cap Lineage(kid) :
                  \A mid \in Lineage(kid) : root \in Lineage(mid) => mid \in H \cup K
    <2>1. Lineage(kid) = { kid } \cup Lineage(ParentPath(kid))
      BY PathFacts, LineageOfChild
    <2>2. PICK root \in ScanRoots \cap Lineage(ParentPath(kid)) :
             \A mid \in Lineage(ParentPath(kid)) : root \in Lineage(mid) => mid \in H
      BY DEF AnchoredSet
    <2> QED
      BY <2>1, <2>2
  <1> QED
    BY <1>1, <1>2 DEF AnchoredSet

LEMMA AnchoredAtRoot ==
    ASSUME NEW H \in SUBSET Path, AnchoredSet(H), NEW root \in ScanRoots
    PROVE  AnchoredSet(H \cup { root })
  <1>1. root \in Path
    BY PathAssumption
  <1>2. ASSUME NEW mid \in Lineage(root), root \in Lineage(mid) PROVE mid = root
    <2>1. mid \in Seq(STRING) /\ Len(mid) \in 0..Len(root) /\ (Len(mid) = Len(root) => mid = root)
      BY <1>1, PathFacts, LineageTypes
    <2>2. Len(root) \in 0..Len(mid)
      BY <1>2, <2>1, LineageTypes
    <2> QED
      BY <2>1, <2>2
  <1>3. root \in ScanRoots \cap Lineage(root)
    BY <1>1, PathFacts
  <1> QED
    BY <1>2, <1>3 DEF AnchoredSet

\* An anchored table has no gaps.
LEMMA NoGaps ==
    ASSUME AdjacentRoots, NEW H \in SUBSET Path, AnchoredSet(H),
           NEW low \in H, NEW high \in H, high \in Lineage(low),
           NEW mid \in Lineage(low), high \in Lineage(mid)
    PROVE  mid \in H
  <1>1. PICK s \in ScanRoots \cap Lineage(low) :
           \A m \in Lineage(low) : s \in Lineage(m) => m \in H
    BY DEF AnchoredSet
  <1>2. PICK t \in ScanRoots \cap Lineage(high) : TRUE
    BY DEF AnchoredSet
  <1>3. /\ low \in Seq(STRING) /\ mid \in Seq(STRING) /\ high \in Seq(STRING)
        /\ s \in Seq(STRING) /\ t \in Seq(STRING)
    BY PathFacts, LineageTypes, <1>1, <1>2
  <1>4. Len(high) \in 0..Len(mid) /\ (Len(high) = Len(mid) => high = mid)
        /\ Len(t) \in 0..Len(high)
    BY <1>2, <1>3, LineageTypes
  <1>5. CASE Len(s) <= Len(mid)
    <2>1. s \in Lineage(mid)
      BY <1>1, <1>3, <1>5, LineageLinear
    <2> QED
      BY <1>1, <2>1
  <1>6. CASE Len(s) > Len(mid)
    <2>1. t \in Lineage(low)
      BY <1>2, <1>3, LineageTransitive
    <2>2. Len(t) <= Len(s)
      BY <1>3, <1>4, <1>6
    <2>3. t \in Lineage(s)
      BY <1>1, <1>3, <2>1, <2>2, LineageLinear
    <2>4. Len(s) <= Len(t) + 1
      BY <1>1, <1>2, <2>3 DEF AdjacentRoots
    <2>5. Len(high) = Len(mid)
      BY <1>3, <1>4, <1>6, <2>4
    <2> QED
      BY <1>4, <2>5
  <1>7. Len(s) <= Len(mid) \/ Len(s) > Len(mid)
    BY <1>3
  <1> QED
    BY <1>5, <1>6, <1>7

\* What a table must satisfy for the step in flight to end, or wait, on it.
Ready(table, kids) ==
    /\ AnchoredSet(RowsOf(table))
    /\ RowlessIsGone(table, QueuedPaths \cup { active.path } \cup kids)
    /\ \A path \in Path : table[path] = "pending" =>
          path \in QueuedPaths \cup { active.path } \cup kids \cup MayThrow

LEMMA FinishOrphansNothing ==
    ASSUME TypeOK, EngineRunning, DiskClosed, disk' = disk,
           NEW table \in [Path -> Outcome], NEW kids \in SUBSET Path,
           Ready(table, kids), FinishStep(table, kids)
    PROVE  IInv'
  <1> DEFINE result == IF active.path \in Partial THEN "partial" ELSE "done"
             recorded == RecordOwnResult(table, active.path, result)
  <1>1. /\ EngineReturn(kids) /\ job' = NextJob
        /\ rows' = MarkStopped(recorded, CutChildren(kids))
    BY DEF FinishStep
  <1>2. /\ QueuedPaths \subseteq QueuedPaths' \cup { active'.path }
        /\ kids \ CutChildren(kids) \subseteq QueuedPaths' \cup { active'.path }
        /\ QueuedPaths' \subseteq QueuedPaths \cup kids
        /\ active' # Idle => active'.path \in QueuedPaths \cup kids
    BY <1>1, ReturnInPath
  <1>3. job'.kids = {}
    BY <1>1, JobValues DEF NextJob
  <1>4. active.path \in Path
    BY ActiveEntry
  <1>5. /\ \A path \in Path : recorded[path] # "none" <=> table[path] # "none"
        /\ \A path \in Path : recorded[path] = "pending" =>
              table[path] = "pending" /\ path # active.path
    BY <1>4 DEF RecordOwnResult
  <1> HIDE DEF recorded
  <1>6. /\ \A path \in Path : rows'[path] # "none" <=> recorded[path] # "none"
        /\ \A path \in Path : rows'[path] = "pending" =>
              recorded[path] = "pending" /\ path \notin CutChildren(kids)
    BY <1>1 DEF MarkStopped
  <1>7. AnchoredSet(RowsOf(rows))'
    <2>1. RowsOf(rows)' = RowsOf(table)
      BY <1>5, <1>6 DEF RowsOf
    <2> QED
      BY <2>1 DEF Ready, AnchoredSet
  <1>8. RowlessIsGone(rows, InHand)'
    <2>1. Idle.path \notin disk
      BY PathAssumption DEF TypeOK
    <2>2. InHand' \cap disk' \subseteq (QueuedPaths \cup kids) \cap disk
      BY <1>2, <1>3, <2>1 DEF InHand
    <2>3. disk \subseteq Path
      BY DEF TypeOK
    <2> QED
      BY <2>2, <2>3, <1>5, <1>6 DEF RowlessIsGone, Ready
  <1>9. PendingIsOwned'
    <2>1. ASSUME NEW path \in Path, rows'[path] = "pending" PROVE path \in InHand' \cup MayThrow
      <3>1. table[path] = "pending" /\ path # active.path /\ path \notin CutChildren(kids)
        BY <2>1, <1>5, <1>6
      <3>2. path \in QueuedPaths \cup kids \cup MayThrow
        BY <3>1 DEF Ready
      <3> QED
        BY <3>1, <3>2, <1>2 DEF InHand
    <2> QED
      BY <2>1 DEF PendingIsOwned, Owned, InHand
  <1>10. DiskClosed'
    BY DEF DiskClosed
  <1> QED
    BY <1>7, <1>8, <1>9, <1>10 DEF IInv

LEMMA PruneOrphansNothing ==
    ASSUME TypeOK, EngineRunning, DiskClosed, disk' = disk,
           NEW table \in [Path -> Outcome], NEW kids \in SUBSET Path, NEW skipped, NEW unchecked,
           Ready(table, kids), PruneOrFinish(table, kids, skipped, unchecked)
    PROVE  IInv'
  <1>1. CASE FinishStep(table, kids)
    BY <1>1, FinishOrphansNothing
  <1>2. CASE rows' = table /\ job'.kids = kids /\ UNCHANGED engineVars
    <2>1. QueuedPaths' = QueuedPaths /\ active' = active
      BY <1>2 DEF engineVars, QueuedPaths
    <2>2. InHand' = QueuedPaths \cup { active.path } \cup kids
      BY <1>2, <2>1 DEF InHand
    <2>3. AnchoredSet(RowsOf(rows))' /\ DiskClosed'
      BY <1>2 DEF Ready, DiskClosed, AnchoredSet, RowsOf
    <2>4. RowlessIsGone(rows, InHand)'
      BY <1>2, <2>2 DEF Ready, RowlessIsGone
    <2>5. PendingIsOwned'
      BY <1>2, <2>2 DEF Ready, PendingIsOwned, Owned, InHand
    <2> QED
      BY <2>3, <2>4, <2>5 DEF IInv
  <1> QED
    BY <1>1, <1>2 DEF PruneOrFinish

LEMMA InitIInv == Init => IInv
  <1> SUFFICES ASSUME Init PROVE IInv
    OBVIOUS
  <1>1. RowsOf(rows) = {} /\ disk = Path /\ QueuedPaths = {} /\ active = Idle /\ job.kids = {}
    BY JobValues DEF Init, EngineInit, RowsOf, QueuedPaths
  <1>2. \A path \in Path : rows[path] # "pending"
    BY DEF Init
  <1>3. Idle.path \notin disk
    BY <1>1, PathAssumption
  <1> QED
    BY <1>1, <1>2, <1>3, PathFacts
       DEF IInv, AnchoredSet, DiskClosed, RowlessIsGone, InHand, PendingIsOwned

LEMMA NextIInv ==
    ASSUME AdjacentRoots, MayReturn = {}, TypeOK, JobShape, IInv, [Next]_vars
    PROVE  IInv'
  <1>t. /\ rows \in [Path -> Outcome] /\ disk \in SUBSET Path
        /\ stack \in Seq(EntryOf(Path)) /\ job.kids \in SUBSET Path
    BY DEF TypeOK, Outcome
  <1>q. RowsOf(rows) \in SUBSET Path /\ AnchoredSet(RowsOf(rows)) /\ DiskClosed
    BY DEF RowsOf, IInv
  <1>1. ASSUME NEW path \in ScanRoots, NEW done \in SUBSET Path, StartScan(path, done)
        PROVE  IInv'
    <2>1. path \in Path /\ Entry(path, done) \in EntryOf(Path) /\ Entry(path, done).path = path
      BY PathAssumption DEF Entry, EntryOf
    <2>2. /\ rows' = UpsertPending(rows, { path }) /\ disk' = disk
          /\ EngineEnqueue(Entry(path, done))
          /\ job' = IF EngineRunning THEN job ELSE Listing
      BY <1>1 DEF StartScan
    <2>3. /\ QueuedPaths' \subseteq QueuedPaths \cup { path }
          /\ QueuedPaths \subseteq QueuedPaths'
          /\ IF EngineRunning THEN active' = active /\ path \in QueuedPaths'
                              ELSE active' = Entry(path, done)
      BY <1>t, <2>1, <2>2, EnqueueFacts
    <2>4. job'.kids = job.kids
      BY <2>2, JobValues DEF JobShape
    <2>5. RowsOf(rows)' = RowsOf(rows) \cup { path }
      BY <2>1, <2>2 DEF RowsOf, UpsertPending
    <2>6. AnchoredSet(RowsOf(rows))'
      <3>1. AnchoredSet(RowsOf(rows) \cup { path })
        BY <1>q, AnchoredAtRoot
      <3> QED
        BY <2>5, <3>1 DEF AnchoredSet
    <2>7. InHand' \subseteq InHand \cup { path }
      BY <2>1, <2>3, <2>4 DEF InHand
    <2>8. RowlessIsGone(rows, InHand)'
      BY <2>1, <2>2, <2>7, <1>t DEF RowlessIsGone, UpsertPending, IInv
    <2>9. PendingIsOwned'
      <3>1. ASSUME NEW p \in Path, rows'[p] = "pending" PROVE Owned(p)' \/ p \in MayThrow
        <4>1. CASE p = path
          BY <2>1, <2>3, <4>1 DEF Owned
        <4>2. CASE p # path
          <5>1. rows[p] = "pending"
            BY <2>2, <3>1, <4>2 DEF UpsertPending
          <5>2. p \in QueuedPaths \/ p = active.path \/ p \in job.kids \/ p \in MayThrow
            BY <5>1 DEF IInv, PendingIsOwned, Owned
          <5>3. ~EngineRunning => p # active.path
            BY PathAssumption DEF EngineRunning
          <5> QED
            BY <2>3, <2>4, <5>2, <5>3 DEF Owned
        <4> QED
          BY <4>1, <4>2
      <3> QED
        BY <3>1 DEF PendingIsOwned
    <2>10. DiskClosed'
      BY <1>q, <2>2 DEF DiskClosed
    <2> QED
      BY <2>6, <2>8, <2>9, <2>10 DEF IInv
  <1>2. ASSUME NEW root \in StopRoots, StopScan(root) PROVE IInv'
    <2> DEFINE stopped == { node \in GetSubtree(rows, root) : rows[node] = "pending" }
    <2>1. /\ root \in Path /\ rows[root] # "none"
          /\ rows' = MarkStopped(rows, stopped)
          /\ active' = active /\ disk' = disk /\ job' = job
      BY <1>2, PathAssumption DEF StopScan, EngineRequestStop, EngineRequestStops
    <2>2. QueuedPaths' = { path \in QueuedPaths : ~IsInSubtree(path, root) }
      BY <1>2, <1>t, KeptQueue DEF StopScan
    <2>3. RowsOf(rows)' = RowsOf(rows)
      BY <2>1 DEF RowsOf, MarkStopped
    <2>4. InHand' \subseteq InHand
      BY <2>1, <2>2 DEF InHand
    <2>5. RowlessIsGone(rows, InHand)'
      BY <2>1, <2>4, <1>t DEF RowlessIsGone, MarkStopped, IInv
    <2>6. PendingIsOwned'
      <3>1. ASSUME NEW p \in Path, rows'[p] = "pending" PROVE Owned(p)' \/ p \in MayThrow
        <4>1. rows[p] = "pending" /\ p \notin stopped
          BY <2>1, <3>1 DEF MarkStopped
        <4>2. p \in QueuedPaths \/ p = active.path \/ p \in job.kids \/ p \in MayThrow
          BY <4>1 DEF IInv, PendingIsOwned, Owned
        <4>3. ASSUME root \in Lineage(p) PROVE FALSE
          <5>1. p \in RowsOf(rows) /\ root \in RowsOf(rows)
            BY <2>1, <4>1 DEF RowsOf
          <5>2. \A mid \in Lineage(p) : root \in Lineage(mid) => mid \in RowsOf(rows)
            BY <5>1, <4>3, <1>q, NoGaps
          <5>3. p \in GetSubtree(rows, root)
            BY <5>1, <5>2, <4>3 DEF GetSubtree, RowSubtree, RowsOf, IsWithinSubtree
          <5> QED
            BY <4>1, <5>3
        <4>4. ~IsInSubtree(p, root)
          BY <4>3, PathFacts DEF IsInSubtree
        <4> QED
          BY <2>1, <2>2, <4>2, <4>4 DEF Owned
      <3> QED
        BY <3>1 DEF PendingIsOwned
    <2>7. AnchoredSet(RowsOf(rows))' /\ DiskClosed'
      BY <1>q, <2>1, <2>3 DEF DiskClosed, AnchoredSet
    <2> QED
      BY <2>5, <2>6, <2>7 DEF IInv
  <1>3. CASE ListFails
    <2>1. /\ EngineRunning /\ EngineReturn({}) /\ job' = NextJob /\ disk' = disk
          /\ rows' = RecordOwnResult(rows, active.path, "error")
          /\ job.kids = {}
      BY <1>3, JobValues DEF ListFails, JobShape
    <2>2. {} \in SUBSET Path /\ {} \ CutChildren({}) = {}
      OBVIOUS
    <2>3. /\ QueuedPaths \subseteq QueuedPaths' \cup { active'.path }
          /\ QueuedPaths' \subseteq QueuedPaths
          /\ active' # Idle => active'.path \in QueuedPaths
      BY <2>1, <2>2, ReturnInPath
    <2>4. job'.kids = {}
      BY <2>1, JobValues DEF NextJob
    <2>5. active.path \in Path
      BY <2>1, ActiveEntry
    <2>6. /\ \A path \in Path : rows'[path] # "none" <=> rows[path] # "none"
          /\ \A path \in Path : rows'[path] = "pending" =>
                rows[path] = "pending" /\ path # active.path
      BY <2>1, <2>5, <1>t DEF RecordOwnResult
    <2>7. RowsOf(rows)' = RowsOf(rows)
      BY <2>6 DEF RowsOf
    <2>8. Idle.path \notin disk
      BY <1>t, PathAssumption
    <2>9. InHand' \cap disk \subseteq InHand
      BY <2>3, <2>4, <2>8 DEF InHand
    <2>10. RowlessIsGone(rows, InHand)'
      BY <2>1, <2>6, <2>9, <1>t DEF RowlessIsGone, IInv
    <2>11. PendingIsOwned'
      BY <2>1, <2>3, <2>6 DEF IInv, PendingIsOwned, Owned
    <2> QED
      BY <1>q, <2>1, <2>7, <2>10, <2>11 DEF IInv, DiskClosed, AnchoredSet
  <1>4. CASE ListSucceeds
    <2> DEFINE here == active.path
               found == ChildDirs(here)
               kids == found \ active.done
               gone == GetDirectChildren(rows, here) \ found
               pruned == DeleteDirectorySubtree(rows, gone)
               listed == UpsertPending(pruned, kids)
    <2>1. /\ EngineRunning /\ here \in disk /\ disk' = disk /\ job.kids = {}
          /\ PruneOrFinish(listed, kids, SkippedDirs, {})
      BY <1>4, JobValues DEF ListSucceeds, JobShape, CanList
    <2>2. here \in Path /\ here \in Seq(STRING)
      BY <2>1, ActiveEntry, PathFacts
    <2>3. /\ kids \in SUBSET Path /\ found \in SUBSET disk
          /\ \A kid \in found : kid # Root /\ ParentPath(kid) = here
      BY <1>t DEF ChildDirs
    <2>4. /\ gone \in SUBSET Path /\ gone \cap disk = {}
          /\ \A g \in gone : g # Root /\ ParentPath(g) = here
      BY DEF GetDirectChildren, ChildDirs
    <2>5. listed \in [Path -> Outcome]
      BY <1>t, <2>2, RowOperations
    <2>6. \A path \in disk : ~ \E g \in gone : IsWithinSubtree(path, g)
      BY <1>q, <2>4 DEF DiskClosed, IsWithinSubtree
    <2>7. RowsOf(pruned) = { path \in RowsOf(rows) : ~ \E g \in gone : IsWithinSubtree(path, g) }
      BY DEF RowsOf, DeleteDirectorySubtree
    <2>8. AnchoredSet(RowsOf(pruned)) /\ RowsOf(pruned) \in SUBSET Path
      BY <1>q, <2>7, AnchoredSurvivesDelete
    <2>9. rows[here] # "none"
      BY <2>1 DEF IInv, RowlessIsGone, InHand
    <2>10. here \in RowsOf(pruned)
      BY <2>1, <2>2, <2>6, <2>7, <2>9 DEF RowsOf
    <2>11. RowsOf(listed) = RowsOf(pruned) \cup kids
      BY <2>3 DEF RowsOf, UpsertPending
    <2> HIDE DEF pruned
    <2>12. AnchoredSet(RowsOf(listed))
      BY <2>3, <2>8, <2>10, <2>11, AnchoredGrows
    <2>13. RowlessIsGone(listed, QueuedPaths \cup { active.path } \cup kids)
      <3>1. ASSUME NEW path \in disk, rows[path] # "none" PROVE listed[path] # "none"
        <4>1. path \in RowsOf(pruned)
          BY <1>t, <2>6, <2>7, <3>1 DEF RowsOf
        <4> QED
          BY <4>1, <2>11 DEF RowsOf
      <3>2. \A path \in kids : listed[path] # "none"
        BY <2>3 DEF UpsertPending
      <3>3. \A path \in (QueuedPaths \cup { active.path }) \cap disk : rows[path] # "none"
        BY DEF IInv, RowlessIsGone, InHand
      <3> HIDE DEF listed, kids
      <3> QED
        BY <3>1, <3>2, <3>3 DEF RowlessIsGone
    <2>14. \A path \in Path : listed[path] = "pending" =>
              path \in QueuedPaths \cup { active.path } \cup kids \cup MayThrow
      <3>1. \A path \in Path : listed[path] = "pending" => path \in kids \/ rows[path] = "pending"
        BY DEF UpsertPending, pruned, DeleteDirectorySubtree
      <3> HIDE DEF listed, kids
      <3> QED
        BY <2>1, <3>1 DEF IInv, PendingIsOwned, Owned
    <2>15. Ready(listed, kids)
      BY <2>12, <2>13, <2>14 DEF Ready
    <2> HIDE DEF listed, kids
    <2> QED
      BY <1>q, <2>1, <2>3, <2>5, <2>15, PruneOrphansNothing
  <1>5. ASSUME NEW path \in Path, CheckExists(path) PROVE IInv'
    <2> DEFINE table == IF path \in disk THEN rows ELSE DeleteDirectorySubtree(rows, { path })
    <2>1. /\ EngineRunning /\ disk' = disk
          /\ PruneOrFinish(table, job.kids, job.skipped, job.unchecked \ { path })
      BY <1>5, JobValues DEF CheckExists, JobShape
    <2>2. table \in [Path -> Outcome]
      BY <1>t, RowOperations
    <2>3. Ready(rows, job.kids)
      BY DEF IInv, Ready, PendingIsOwned, Owned, InHand
    <2>4. Ready(table, job.kids)
      <3>1. CASE path \in disk
        BY <2>3, <3>1
      <3>2. CASE path \notin disk
        <4>1. \A p \in disk : ~IsWithinSubtree(p, path)
          BY <1>q, <3>2 DEF DiskClosed, IsWithinSubtree
        <4>2. RowsOf(table) = { p \in RowsOf(rows) : ~ \E g \in { path } : IsWithinSubtree(p, g) }
          BY <3>2 DEF RowsOf, DeleteDirectorySubtree
        <4>3. AnchoredSet(RowsOf(table))
          BY <1>q, <4>2, AnchoredSurvivesDelete
        <4>4. RowlessIsGone(table, QueuedPaths \cup { active.path } \cup job.kids)
          BY <1>t, <2>3, <3>2, <4>1 DEF Ready, RowlessIsGone, DeleteDirectorySubtree
        <4>5. \A p \in Path : table[p] = "pending" => rows[p] = "pending"
          BY DEF DeleteDirectorySubtree
        <4> HIDE DEF table
        <4> QED
          BY <2>3, <4>3, <4>4, <4>5 DEF Ready
      <3> QED
        BY <3>1, <3>2
    <2> HIDE DEF table
    <2> QED
      BY <1>q, <1>t, <2>1, <2>2, <2>4, PruneOrphansNothing
  <1>6. CASE ListRejects
    <2>1. /\ active.path \in MayThrow /\ active' = Idle /\ stack' = stack
          /\ rows' = rows /\ disk' = disk /\ job' = Resting /\ job.kids = {}
      BY <1>6 DEF ListRejects, EngineThrow, repoVars, JobShape
    <2>2. QueuedPaths' = QueuedPaths /\ job'.kids = {}
      BY <2>1, JobValues DEF QueuedPaths
    <2>3. Idle.path \notin disk
      BY <1>t, PathAssumption
    <2>4. InHand' \cap disk \subseteq InHand
      BY <2>1, <2>2, <2>3 DEF InHand
    <2>5. RowlessIsGone(rows, InHand)'
      BY <2>1, <2>4 DEF RowlessIsGone, IInv
    <2>6. PendingIsOwned'
      BY <2>1, <2>2 DEF IInv, PendingIsOwned, Owned
    <2> QED
      BY <1>q, <2>1, <2>5, <2>6 DEF IInv, RowsOf, AnchoredSet, DiskClosed
  <1>7. CASE Restart
    <2>1. /\ active' = Idle /\ stack' = << >> /\ job' = Resting /\ disk' = disk
          /\ rows' = MarkStopped(rows, { path \in Path : rows[path] = "pending" })
      BY <1>7 DEF Restart, EngineLost
    <2>2. QueuedPaths' = {} /\ job'.kids = {}
      BY <2>1, JobValues DEF QueuedPaths
    <2>3. RowsOf(rows)' = RowsOf(rows) /\ \A path \in Path : rows'[path] # "pending"
      BY <2>1 DEF RowsOf, MarkStopped
    <2>4. Idle.path \notin disk
      BY <1>t, PathAssumption
    <2>5. RowlessIsGone(rows, InHand)'
      BY <2>1, <2>2, <2>4 DEF RowlessIsGone, InHand
    <2> QED
      BY <1>q, <2>1, <2>3, <2>5 DEF IInv, AnchoredSet, DiskClosed, PendingIsOwned
  <1>8. ASSUME NEW path, Vanish(path) PROVE IInv'
    <2>1. /\ disk' = disk \ LexicalSubtree(Path, path) /\ rows' = rows
          /\ InHand' = InHand /\ QueuedPaths' = QueuedPaths
      BY <1>8 DEF Vanish, engineVars, InHand, QueuedPaths
    <2>2. DiskClosed'
      <3>1. ASSUME NEW p \in disk', NEW above \in Lineage(p) PROVE above \in disk'
        <4>1. p \in disk /\ p \in Path /\ p \in Seq(STRING) /\ above \in disk
          BY <1>q, <1>t, <2>1, <3>1, PathFacts DEF DiskClosed
        <4>2. ~IsWithinSubtree(p, path)
          BY <2>1, <3>1, <4>1 DEF LexicalSubtree
        <4>3. ~IsWithinSubtree(above, path)
          BY <4>1, <4>2, LineageTransitive DEF IsWithinSubtree
        <4> QED
          BY <2>1, <4>1, <4>3 DEF LexicalSubtree
      <3> QED
        BY <3>1 DEF DiskClosed
    <2>3. RowlessIsGone(rows, InHand)'
      BY <2>1 DEF RowlessIsGone, IInv
    <2>4. PendingIsOwned'
      BY <1>8 DEF IInv, PendingIsOwned, Owned, Vanish, engineVars, QueuedPaths
    <2> QED
      BY <1>q, <2>1, <2>2, <2>3, <2>4 DEF IInv, RowsOf, AnchoredSet
  <1>9. CASE UNCHANGED vars
    BY <1>9 DEF vars, IInv, AnchoredSet, RowsOf, DiskClosed, RowlessIsGone, InHand,
                PendingIsOwned, Owned, QueuedPaths
  <1>10. \A path : DeriveDoneSet(rows, path) \in SUBSET Path
    BY GetSubtreeInPath DEF DeriveDoneSet
  <1> QED
    BY <1>1, <1>2, <1>3, <1>4, <1>5, <1>6, <1>7, <1>8, <1>9, <1>10
       DEF Next, Request, Step, ScanFull, ScanIncremental

\* When the directories that are scanned are a chain without gaps and none is
\* created again while the table still remembers it, every pending row is one
\* the engine will come back to, however Scan, Stop, deletions, restarts and
\* the steps of the scan interleave; only a listing that rejects orphans one.
THEOREM NoPendingRowIsOrphaned ==
    ASSUME AdjacentRoots, MayReturn = {}
    PROVE  Spec => []PendingIsOwned
  <1>1. TypeOK /\ JobShape /\ IInv /\ [Next]_vars => IInv'
    BY NextIInv
  <1>2. IInv => PendingIsOwned
    BY DEF IInv
  <1> QED
    BY <1>1, <1>2, InitIInv, TypeCorrect, PTL DEF Spec

-----------------------------------------------------------------------------
(* An idle engine has settled everything *)

IdleIsEmpty == ~EngineRunning => QueuedPaths = {}

LEMMA NextIdleIsEmpty ==
    ASSUME MayThrow = {}, TypeOK, JobShape, IdleIsEmpty, [Next]_vars
    PROVE  IdleIsEmpty'
  <1>t. stack \in Seq(EntryOf(Path))
    BY DEF TypeOK
  <1>1. ASSUME NEW path \in ScanRoots, NEW done \in SUBSET Path, StartScan(path, done)
        PROVE  IdleIsEmpty'
    <2>1. path \in Path /\ Entry(path, done) \in EntryOf(Path) /\ Entry(path, done).path = path
      BY PathAssumption DEF Entry, EntryOf
    <2>2. EngineRunning \/ active' = Entry(path, done)
      BY <1>1, <1>t, <2>1, EnqueueFacts DEF StartScan
    <2>3. EngineRunning => active' = active
      BY <1>1, <1>t, <2>1, EnqueueFacts DEF StartScan
    <2>4. Idle.path \notin Path
      BY PathAssumption
    <2> QED
      BY <2>1, <2>2, <2>3, <2>4 DEF IdleIsEmpty, EngineRunning
  <1>2. ASSUME NEW root, StopScan(root) PROVE IdleIsEmpty'
    <2>1. EngineRequestStop(root)
      BY <1>2 DEF StopScan
    <2>2. QueuedPaths' \subseteq QueuedPaths
      BY <1>t, <2>1, KeptQueue
    <2>3. active' = active
      BY <2>1 DEF EngineRequestStop, EngineRequestStops
    <2> QED
      BY <2>2, <2>3 DEF IdleIsEmpty, EngineRunning
  \* The loop only ends on an empty stack.
  <1>3. ASSUME EngineRunning, NEW kids \in SUBSET Path, EngineReturn(kids)
        PROVE  IdleIsEmpty'
    <2>1. active' = Idle => stack' = << >>
      BY <1>3, ReturnInPath
    <2> QED
      BY <2>1 DEF IdleIsEmpty, EngineRunning, QueuedPaths
  <1>4. ASSUME EngineRunning, NEW table, NEW kids \in SUBSET Path, NEW skipped, NEW unchecked,
               PruneOrFinish(table, kids, skipped, unchecked)
        PROVE  IdleIsEmpty'
    <2>1. CASE UNCHANGED << engineVars, halted >>
      BY <2>1 DEF engineVars, IdleIsEmpty, EngineRunning, QueuedPaths
    <2>2. CASE FinishStep(table, kids)
      BY <1>3, <1>4, <2>2 DEF FinishStep
    <2> QED
      BY <1>4, <2>1, <2>2 DEF PruneOrFinish
  <1>5. CASE ListFails
    BY <1>3, <1>5, JobValues DEF ListFails, JobShape
  <1>6. CASE ListSucceeds
    <2>1. EngineRunning
      BY <1>6, JobValues DEF ListSucceeds, JobShape
    <2>2. ChildDirs(active.path) \ active.done \in SUBSET Path
      BY DEF ChildDirs, TypeOK
    <2> QED
      BY <1>4, <1>6, <2>1, <2>2 DEF ListSucceeds
  <1>7. ASSUME NEW path \in Path, CheckExists(path) PROVE IdleIsEmpty'
    <2>1. EngineRunning
      BY <1>7, JobValues DEF CheckExists, JobShape
    <2>2. job.kids \in SUBSET Path
      BY DEF TypeOK
    <2> QED
      BY <1>4, <1>7, <2>1, <2>2 DEF CheckExists
  <1>8. CASE ListRejects
    BY <1>8 DEF ListRejects
  <1>9. CASE Restart
    BY <1>9 DEF Restart, EngineLost, IdleIsEmpty, QueuedPaths
  <1>10. ASSUME NEW path, Vanish(path) \/ Reappear(path) PROVE IdleIsEmpty'
    BY <1>10 DEF Vanish, Reappear, engineVars, IdleIsEmpty, EngineRunning, QueuedPaths
  <1>11. CASE UNCHANGED vars
    BY <1>11 DEF vars, IdleIsEmpty, EngineRunning, QueuedPaths
  <1>12. \A path : DeriveDoneSet(rows, path) \in SUBSET Path
    BY GetSubtreeInPath DEF DeriveDoneSet
  <1> QED
    BY <1>1, <1>2, <1>5, <1>6, <1>7, <1>8, <1>9, <1>10, <1>11, <1>12
       DEF Next, Request, Step, ScanFull, ScanIncremental

\* If no listing rejects, the loop ends with nothing queued and no row pending,
\* under the conditions under which no pending row is orphaned: the first half of
\* SettledIsWhole.
THEOREM IdleHasSettled ==
    ASSUME MayThrow = {}, AdjacentRoots, MayReturn = {}
    PROVE  Spec => []IdleMeansSettled
  <1>1. Init => IdleIsEmpty
    BY DEF Init, EngineInit, IdleIsEmpty, QueuedPaths
  <1>2. TypeOK /\ JobShape /\ IdleIsEmpty /\ [Next]_vars => IdleIsEmpty'
    BY NextIdleIsEmpty
  <1>3. TypeOK /\ JobShape /\ IdleIsEmpty /\ PendingIsOwned => IdleMeansSettled
    <2> SUFFICES ASSUME TypeOK, JobShape, IdleIsEmpty, PendingIsOwned, ~EngineRunning
                 PROVE  stack = << >> /\ \A path \in Path : rows[path] # "pending"
      BY DEF IdleMeansSettled
    <2>1. QueuedPaths = {} /\ stack \in Seq(EntryOf(Path))
      BY DEF IdleIsEmpty, TypeOK
    <2>2. stack = << >>
      <3>1. DOMAIN stack = {}
        BY <2>1 DEF QueuedPaths
      <3> QED
        BY <2>1, <3>1
    <2>3. job.kids = {}
      BY JobValues DEF JobShape
    <2>4. active = Idle /\ Idle.path \notin Path
      BY PathAssumption DEF EngineRunning
    <2> QED
      BY <2>1, <2>2, <2>3, <2>4 DEF PendingIsOwned, Owned
  <1>4. Spec => []PendingIsOwned
    BY NoPendingRowIsOrphaned
  <1> QED
    BY <1>1, <1>2, <1>3, <1>4, TypeCorrect, PTL DEF Spec

-----------------------------------------------------------------------------
(* What is complete was listed                                             *)
(*                                                                         *)
(* A directory that exists and has no row is below none that is complete:  *)
(* between it and any row above it there is one that has not been listed,  *)
(* or not well. Rows of existing directories are never forgotten, unless   *)
(* they go and come back.                                                  *)

Reaches(table, high, mid) ==
    \A above \in Lineage(mid) : high \in Lineage(above) => table[above] # "none"

\* Between a row and an existing directory without one, a row that is not done.
Blocked(table, dirs) ==
    \A high \in Path : \A low \in dirs :
        table[high] # "none" /\ table[low] = "none" /\ high \in Lineage(low) =>
            \E mid \in Lineage(low) :
                /\ high \in Lineage(mid) /\ Reaches(table, high, mid)
                /\ table[mid] # "done"

Closed(dirs) == \A path \in dirs : Lineage(path) \subseteq dirs

\* What the done-sets of the entries hold.
DonePaths == active.done \cup UNION { stack[i].done : i \in DOMAIN stack }

Known(table, paths) == \A path \in paths \cap disk : table[path] # "none"

ListedInv ==
    /\ Closed(disk)
    /\ Known(rows, DonePaths)
    /\ job.phase = "pruning" => Known(rows, ChildDirs(active.path))
    /\ Blocked(rows, disk)

\* A table that keeps the rows of what exists, and in which nothing becomes done.
LEMMA BlockedSurvives ==
    ASSUME NEW table \in [Path -> Outcome], NEW after \in [Path -> Outcome],
           NEW dirs \in SUBSET Path, Closed(dirs), Blocked(table, dirs),
           \A path \in dirs : table[path] # "none" => after[path] # "none",
           \A path \in Path : after[path] = "done" => table[path] = "done"
    PROVE  Blocked(after, dirs)
  <1> SUFFICES ASSUME NEW high \in Path, NEW low \in dirs,
                      after[high] # "none", after[low] = "none", high \in Lineage(low)
               PROVE  \E mid \in Lineage(low) :
                        /\ high \in Lineage(mid) /\ Reaches(after, high, mid)
                        /\ after[mid] # "done"
    BY DEF Blocked
  <1>1. table[low] = "none" /\ Lineage(low) \subseteq dirs
    BY DEF Closed
  <1>2. CASE table[high] = "none"
    <2>1. high \in Lineage(high) /\ after[high] # "done"
      BY <1>2, PathFacts
    <2>2. ASSUME NEW above \in Lineage(high), high \in Lineage(above) PROVE above = high
      <3>1. high \in Seq(STRING) /\ above \in Seq(STRING)
        BY <2>2, PathFacts, LineageTypes
      <3>2. Len(above) \in 0..Len(high) /\ Len(high) \in 0..Len(above)
        BY <2>2, <3>1, LineageTypes
      <3>3. Len(above) = Len(high)
        BY <3>1, <3>2
      <3> QED
        BY <2>2, <3>1, <3>3, LineageTypes
    <2>3. Reaches(after, high, high)
      BY <2>2 DEF Reaches
    <2> QED
      BY <2>1, <2>3
  <1>3. CASE table[high] # "none"
    <2>1. PICK mid \in Lineage(low) : /\ high \in Lineage(mid) /\ Reaches(table, high, mid)
                                      /\ table[mid] # "done"
      BY <1>1, <1>3 DEF Blocked
    <2>2. mid \in dirs /\ Lineage(mid) \subseteq dirs /\ mid \in Path
      BY <1>1, <2>1 DEF Closed
    <2>3. Reaches(after, high, mid)
      BY <2>1, <2>2 DEF Reaches
    <2> QED
      BY <2>1, <2>2, <2>3
  <1> QED
    BY <1>2, <1>3

\* The next directory on the way down.
LEMMA ChildOnTheWay ==
    ASSUME NEW low \in Seq(STRING), NEW high \in Lineage(low), high # low
    PROVE  \E child \in Lineage(low) :
              /\ child # Root /\ ParentPath(child) = high
              /\ high \in Lineage(child) /\ Len(child) = Len(high) + 1
  <1>1. /\ high \in Seq(STRING) /\ Len(high) \in 0..Len(low)
        /\ high = SubSeq(low, 1, Len(high)) /\ Len(high) # Len(low)
    BY LineageTypes
  <1>2. PICK k \in 0..Len(low) : k = Len(high) + 1 /\ Len(high) \in 0..k
    BY <1>1
  <1> DEFINE child == SubSeq(low, 1, k)
  <1>3. /\ child \in Seq(STRING) /\ Len(child) = k
        /\ SubSeq(child, 1, Len(high)) = high
    BY <1>1, <1>2, PrefixOfPrefix
  <1>4. child \in Lineage(low)
    BY <1>2 DEF Lineage
  <1> HIDE DEF child
  <1>5. child # Root
    BY <1>1, <1>2, <1>3 DEF Root
  <1>6. Len(child) - 1 = Len(high) /\ Len(high) \in 0..Len(child)
    BY <1>1, <1>2, <1>3
  <1>7. ParentPath(child) = high
    BY <1>3, <1>6 DEF ParentPath
  <1>8. high \in Lineage(child)
    <2>1. \E j \in 0..Len(child) : high = SubSeq(child, 1, j)
      BY <1>3, <1>6
    <2> QED
      BY <2>1 DEF Lineage
  <1> QED
    BY <1>2, <1>3, <1>4, <1>5, <1>7, <1>8

\* Recording a result: the way goes on through a child, which has a row.
LEMMA BlockedWhenRecorded ==
    ASSUME NEW table \in [Path -> Outcome], NEW dirs \in SUBSET Path,
           Closed(dirs), Blocked(table, dirs), NEW target \in Path,
           NEW result \in { "done", "partial", "error" },
           \A child \in dirs : child # Root /\ ParentPath(child) = target =>
              table[child] # "none"
    PROVE  Blocked(RecordOwnResult(table, target, result), dirs)
  <1> DEFINE after == RecordOwnResult(table, target, result)
  <1>1. /\ \A path \in Path : after[path] # "none" <=> table[path] # "none"
        /\ \A path \in Path : path # target => after[path] = table[path]
    BY DEF RecordOwnResult, Outcome, OwnOutcome
  <1> HIDE DEF after
  <1> SUFFICES ASSUME NEW high \in Path, NEW low \in dirs,
                      after[high] # "none", after[low] = "none", high \in Lineage(low)
               PROVE  \E mid \in Lineage(low) :
                        /\ high \in Lineage(mid) /\ Reaches(after, high, mid)
                        /\ after[mid] # "done"
    BY DEF Blocked, after
  <1>2. /\ table[low] = "none" /\ table[high] # "none"
        /\ Lineage(low) \subseteq dirs /\ low \in Seq(STRING)
    BY <1>1, PathFacts DEF Closed
  <1>3. PICK mid \in Lineage(low) : /\ high \in Lineage(mid) /\ Reaches(table, high, mid)
                                    /\ table[mid] # "done"
    BY <1>2 DEF Blocked
  <1>4. ASSUME NEW end \in Lineage(low), Reaches(table, high, end) PROVE Reaches(after, high, end)
    <2>1. Lineage(end) \subseteq Path
      BY <1>2, PathFacts
    <2> QED
      BY <1>1, <1>4, <2>1 DEF Reaches
  <1>5. CASE mid # target
    BY <1>1, <1>2, <1>3, <1>4, <1>5
  <1>6. CASE mid = target
    <2>1. mid # low
      <3>1. low \in Lineage(low)
        BY <1>2, LineageReflexive
      <3>2. mid = low => table[mid] # "none"
        BY <1>3, <3>1 DEF Reaches
      <3> QED
        BY <1>2, <3>2
    <2>2. PICK child \in Lineage(low) : /\ child # Root /\ ParentPath(child) = mid
                                        /\ mid \in Lineage(child) /\ Len(child) = Len(mid) + 1
      BY <1>2, <2>1, ChildOnTheWay
    <2>3. child \in dirs /\ child \in Path /\ table[child] # "none"
      BY <1>2, <1>6, <2>2
    <2>4. PICK further \in Lineage(low) :
             /\ child \in Lineage(further) /\ Reaches(table, child, further)
             /\ table[further] # "done"
      BY <1>2, <2>3 DEF Blocked
    <2>5. /\ further \in Seq(STRING) /\ child \in Seq(STRING) /\ mid \in Seq(STRING)
          /\ high \in Seq(STRING) /\ Len(mid) \in Nat /\ Len(child) \in Nat
      BY <1>2, <2>2, <2>4, PathFacts, LineageTypes
    <2>6. further # target
      <3>1. Len(child) \in 0..Len(further)
        BY <2>4, <2>5, LineageTypes
      <3> QED
        BY <1>6, <2>2, <2>5, <3>1
    <2>7. high \in Lineage(further)
      BY <1>3, <2>2, <2>4, <2>5, LineageTransitive
    <2>8. Reaches(table, high, further)
      <3> SUFFICES ASSUME NEW above \in Lineage(further), high \in Lineage(above)
                   PROVE  table[above] # "none"
        BY DEF Reaches
      <3>1. above \in Lineage(low) /\ above \in Seq(STRING) /\ Len(above) \in Nat
        BY <1>2, <2>4, <2>5, LineageTransitive, LineageTypes
      <3>2. CASE Len(child) <= Len(above)
        <4>1. child \in Lineage(above)
          BY <2>4, <2>5, <3>2, LineageLinear
        <4> QED
          BY <2>4, <4>1 DEF Reaches
      <3>3. CASE Len(above) < Len(child)
        <4>1. Len(above) <= Len(mid)
          BY <2>2, <2>5, <3>1, <3>3
        <4>2. above \in Lineage(mid)
          BY <1>2, <3>1, <4>1, LineageLinear
        <4> QED
          BY <1>3, <4>2 DEF Reaches
      <3> QED
        BY <2>5, <3>1, <3>2, <3>3
    <2>9. further \in Path
      BY <1>2
    <2> QED
      BY <1>1, <1>4, <2>4, <2>6, <2>7, <2>8, <2>9
  <1> QED
    BY <1>5, <1>6

\* A turn of the loop passes the done-set of its entry on to the children.
LEMMA ReturnPassesDoneOn ==
    ASSUME TypeOK, EngineRunning, NEW kids \in SUBSET Path, EngineReturn(kids)
    PROVE  DonePaths' \subseteq DonePaths
  <1> DEFINE added == IF StoppedInFlight THEN {} ELSE kids
             all(order) == stack \o [i \in DOMAIN order |-> Entry(order[i], active.done)]
  <1>1. PICK order \in Orderings(added) :
           IF all(order) = << >>
             THEN stack' = << >> /\ active' = Idle
             ELSE /\ stack' = SubSeq(all(order), 1, Len(all(order)) - 1)
                  /\ active' = all(order)[Len(all(order))]
    BY DEF EngineReturn
  <1> DEFINE pushed == all(order)
             given == [i \in DOMAIN order |-> Entry(order[i], active.done)]
             n == Cardinality(added)
  <1>2. /\ n \in Nat /\ DOMAIN order = 1..n
        /\ \A i \in 1..n : order[i] \in Path
    <2>1. IsFiniteSet(added) /\ added \subseteq Path
      BY PathAssumption, FS_Subset
    <2> QED
      BY <2>1, OrderingIsSequence
  <1>3. stack \in Seq(EntryOf(Path)) /\ active \in EntryOf(Path)
    BY ActiveEntry DEF TypeOK
  <1>4. /\ given \in Seq(EntryOf(Path)) /\ Len(given) = n
        /\ \A i \in 1..n : given[i].done = active.done
    <2>1. \A i \in 1..n : given[i] \in EntryOf(Path) /\ given[i].done = active.done
      BY <1>2, <1>3 DEF Entry, EntryOf
    <2>2. DOMAIN given = 1..n /\ given = [i \in 1..n |-> given[i]]
      BY <1>2
    <2> HIDE DEF given, n
    <2> QED
      BY <1>2, <2>1, <2>2
  <1> HIDE DEF given, n, added
  <1>5. /\ pushed \in Seq(EntryOf(Path)) /\ Len(pushed) = Len(stack) + n
        /\ \A i \in 1..Len(stack) : pushed[i] = stack[i]
        /\ \A i \in 1..n : pushed[Len(stack) + i] = given[i]
    BY <1>2, <1>3, <1>4 DEF given
  <1>6. ASSUME NEW i \in 1..Len(pushed) PROVE pushed[i].done \subseteq DonePaths
    <2>1. CASE i \in 1..Len(stack)
      BY <1>3, <1>5, <2>1 DEF DonePaths
    <2>2. CASE i \notin 1..Len(stack)
      <3>1. i - Len(stack) \in 1..n /\ i = Len(stack) + (i - Len(stack))
        BY <1>2, <1>3, <1>5, <2>2
      <3>2. PICK j \in 1..n : i = Len(stack) + j
        BY <3>1
      <3>3. pushed[i].done = active.done
        BY <1>4, <1>5, <3>2
      <3> QED
        BY <3>3 DEF DonePaths
    <2> QED
      BY <2>1, <2>2
  <1>7. CASE pushed = << >>
    <2>1. stack' = << >> /\ active' = Idle
      BY <1>1, <1>7
    <2>2. Idle.done = {}
      BY DEF Idle
    <2> QED
      BY <2>1, <2>2 DEF DonePaths
  <1>8. CASE pushed # << >>
    <2>1. Len(pushed) \in Nat /\ Len(pushed) > 0
      BY <1>5, <1>8
    <2>2. stack' = SubSeq(pushed, 1, Len(pushed) - 1) /\ active' = pushed[Len(pushed)]
      BY <1>1, <1>8
    <2> HIDE DEF pushed
    <2>3. /\ DOMAIN stack' = 1..(Len(pushed) - 1)
          /\ \A i \in DOMAIN stack' : stack'[i] = pushed[i] /\ i \in 1..Len(pushed)
      BY <1>5, <2>1, <2>2
    <2>4. \A i \in DOMAIN stack' : stack'[i].done \subseteq DonePaths
      BY <1>6, <2>3
    <2>5. active'.done \subseteq DonePaths
      BY <1>6, <2>1, <2>2
    <2> QED
      BY <2>4, <2>5 DEF DonePaths
  <1> QED
    BY <1>7, <1>8

LEMMA EnqueueAddsItsDone ==
    ASSUME TypeOK, NEW entry \in EntryOf(Path), EngineEnqueue(entry)
    PROVE  DonePaths' \subseteq DonePaths \cup entry.done
  <1>1. stack \in Seq(EntryOf(Path))
    BY DEF TypeOK
  <1>2. CASE EngineRunning
    <2>1. stack' = stack \o << entry >> /\ active' = active
      BY <1>2 DEF EngineEnqueue, EngineEnqueueAll
    <2>2. /\ DOMAIN stack' = 1..(Len(stack) + 1)
          /\ \A i \in 1..Len(stack) : stack'[i] = stack[i]
          /\ stack'[Len(stack) + 1] = entry
      BY <1>1, <2>1
    <2>3. \A i \in DOMAIN stack' : i \in DOMAIN stack \/ i = Len(stack) + 1
      BY <1>1, <2>2
    <2>4. \A i \in DOMAIN stack' : stack'[i].done \subseteq DonePaths \cup entry.done
      BY <1>1, <2>2, <2>3 DEF DonePaths
    <2> QED
      BY <2>1, <2>4 DEF DonePaths
  <1>3. CASE ~EngineRunning
    <2>1. stack' = stack \o Tail(<< entry >>) /\ active' = Head(<< entry >>)
      BY <1>3 DEF EngineEnqueue, EngineEnqueueAll
    <2>2. stack' = stack /\ active' = entry
      BY <1>1, <2>1
    <2> QED
      BY <2>2 DEF DonePaths
  <1> QED
    BY <1>2, <1>3

LEMMA StopAddsNoDone ==
    ASSUME TypeOK, NEW root, EngineRequestStop(root)
    PROVE  DonePaths' \subseteq DonePaths
  <1> DEFINE kept == { i \in DOMAIN stack : \A r \in { root } : ~IsInSubtree(stack[i].path, r) }
  <1>1. PICK position \in Orderings(kept) :
           stack' = [i \in DOMAIN position |-> stack[position[i]]] /\ active' = active
    BY DEF EngineRequestStop, EngineRequestStops
  <1>2. \A i \in DOMAIN position : position[i] \in DOMAIN stack
    BY DEF Orderings
  <1> QED
    BY <1>1, <1>2 DEF DonePaths

-----------------------------------------------------------------------------

\* What a table must satisfy for the step in flight to end, or wait, on it.
ReadyToFinish(table) ==
    /\ Known(table, DonePaths) /\ Known(table, ChildDirs(active.path))
    /\ Blocked(table, disk)

LEMMA PruneBlocks ==
    ASSUME TypeOK, EngineRunning, Closed(disk), disk' = disk,
           NEW table \in [Path -> Outcome], NEW kids \in SUBSET Path, NEW skipped, NEW unchecked,
           ReadyToFinish(table), PruneOrFinish(table, kids, skipped, unchecked)
    PROVE  ListedInv'
  <1>t. active.path \in Path /\ disk \in SUBSET Path
    BY ActiveEntry DEF TypeOK
  <1>1. CASE FinishStep(table, kids)
    <2> DEFINE result == IF active.path \in Partial THEN "partial" ELSE "done"
               recorded == RecordOwnResult(table, active.path, result)
    <2>1. /\ EngineReturn(kids) /\ job' = NextJob
          /\ rows' = MarkStopped(recorded, CutChildren(kids))
      BY <1>1 DEF FinishStep
    <2>2. result \in { "done", "partial", "error" }
      OBVIOUS
    <2> HIDE DEF result
    <2>3. recorded \in [Path -> Outcome] /\ rows' \in [Path -> Outcome]
      BY <1>t, <2>1, <2>2, RowOperations
    <2>4. \A child \in disk : child # Root /\ ParentPath(child) = active.path =>
             table[child] # "none"
      BY DEF ReadyToFinish, Known, ChildDirs
    <2>5. Blocked(recorded, disk)
      BY <1>t, <2>2, <2>4, BlockedWhenRecorded DEF ReadyToFinish
    <2>6. /\ \A path \in Path : recorded[path] # "none" <=> table[path] # "none"
      BY <2>2 DEF RecordOwnResult, Outcome, OwnOutcome
    <2> HIDE DEF recorded
    <2>7. /\ \A path \in Path : rows'[path] # "none" <=> recorded[path] # "none"
          /\ \A path \in Path : rows'[path] = "done" => recorded[path] = "done"
      BY <2>1 DEF MarkStopped
    <2>8. Blocked(rows', disk)
      BY <1>t, <2>3, <2>5, <2>7, BlockedSurvives
    <2>9. DonePaths' \subseteq DonePaths
      BY <2>1, ReturnPassesDoneOn
    <2>10. Known(rows, DonePaths)'
      BY <1>t, <2>6, <2>7, <2>9 DEF ReadyToFinish, Known
    <2>11. job'.phase # "pruning"
      BY <2>1, JobValues DEF NextJob
    <2> QED
      BY <2>8, <2>10, <2>11 DEF ListedInv, Blocked, Reaches, Closed
  <1>2. CASE rows' = table /\ UNCHANGED engineVars
    <2>1. DonePaths' = DonePaths /\ ChildDirs(active.path)' = ChildDirs(active.path)
      BY <1>2 DEF engineVars, DonePaths, ChildDirs
    <2> QED
      BY <1>2, <2>1 DEF ReadyToFinish, ListedInv, Known, Blocked, Reaches, Closed
  <1> QED
    BY <1>1, <1>2 DEF PruneOrFinish

LEMMA InitListedInv == Init => ListedInv
  <1> SUFFICES ASSUME Init PROVE ListedInv
    OBVIOUS
  <1>0. stack = << >> /\ active = Idle /\ disk = Path /\ job = Resting
    BY DEF Init, EngineInit
  <1>i. Idle.done = {}
    BY DEF Idle
  <1>s. DOMAIN stack = {}
    BY <1>0
  <1>1. DonePaths = {} /\ disk = Path /\ job.phase = "idle"
    <2>1. DonePaths = {}
      BY <1>0, <1>i, <1>s DEF DonePaths
    <2>2. job.phase = "idle"
      BY <1>0 DEF Resting, Listing
    <2> QED
      BY <1>0, <2>1, <2>2
  <1>2. \A path \in Path : rows[path] = "none"
    BY DEF Init
  <1> QED
    BY <1>1, <1>2, PathFacts DEF ListedInv, Closed, Known, Blocked

\* A step that leaves the disk and the entry in flight alone, or ends it.
LEMMA BlockedSurvivesStep ==
    ASSUME TypeOK, ListedInv, disk' = disk, rows' \in [Path -> Outcome],
           \A path \in disk : rows[path] # "none" => rows'[path] # "none",
           \A path \in Path : rows'[path] = "done" => rows[path] = "done",
           Known(rows, DonePaths)',
           job'.phase # "pruning" \/ (job' = job /\ active' = active)
    PROVE  ListedInv'
  <1>t. rows \in [Path -> Outcome] /\ disk \in SUBSET Path
    BY DEF TypeOK, Outcome
  <1>1. Blocked(rows', disk)
    BY <1>t, BlockedSurvives DEF ListedInv
  <1>2. (job.phase = "pruning" => Known(rows, ChildDirs(active.path)))'
    BY DEF ListedInv, Known, ChildDirs
  <1> QED
    BY <1>1, <1>2 DEF ListedInv, Blocked, Reaches, Closed

LEMMA NextListedInv ==
    ASSUME MayReturn = {}, TypeOK, JobShape, ListedInv, [Next]_vars
    PROVE  ListedInv'
  <1>t. rows \in [Path -> Outcome] /\ disk \in SUBSET Path
    BY DEF TypeOK, Outcome
  <1>1. ASSUME NEW path \in ScanRoots, NEW done \in SUBSET Path,
               \A p \in done : rows[p] # "none", StartScan(path, done)
        PROVE  ListedInv'
    <2>1. path \in Path /\ Entry(path, done) \in EntryOf(Path) /\ Entry(path, done).done = done
      BY PathAssumption DEF Entry, EntryOf
    <2>2. /\ rows' = UpsertPending(rows, { path }) /\ disk' = disk
          /\ EngineEnqueue(Entry(path, done))
          /\ job' = IF EngineRunning THEN job ELSE Listing
      BY <1>1 DEF StartScan
    <2>3. DonePaths' \subseteq DonePaths \cup done
      BY <2>1, <2>2, EnqueueAddsItsDone
    <2>4. rows' \in [Path -> Outcome]
      BY <1>t, <2>2 DEF UpsertPending, Outcome, OwnOutcome
    <2>5. Known(rows, DonePaths)'
      BY <1>1, <1>t, <2>2, <2>3 DEF Known, ListedInv, UpsertPending
    <2>6. job'.phase # "pruning" \/ (job' = job /\ active' = active)
      BY <2>2, JobValues DEF EngineEnqueue, EngineEnqueueAll
    <2>7. /\ \A p \in disk : rows[p] # "none" => rows'[p] # "none"
          /\ \A p \in Path : rows'[p] = "done" => rows[p] = "done"
      BY <1>t, <2>2 DEF UpsertPending
    <2> QED
      BY <2>2, <2>4, <2>5, <2>6, <2>7, BlockedSurvivesStep
  <1>2. ASSUME NEW root, StopScan(root) PROVE ListedInv'
    <2> DEFINE stopped == { node \in GetSubtree(rows, root) : rows[node] = "pending" }
    <2>1. /\ EngineRequestStop(root) /\ rows' = MarkStopped(rows, stopped)
          /\ disk' = disk /\ job' = job
      BY <1>2 DEF StopScan
    <2>2. active' = active /\ DonePaths' \subseteq DonePaths
      BY <2>1, StopAddsNoDone DEF EngineRequestStop, EngineRequestStops
    <2> HIDE DEF stopped
    <2>3. /\ rows' \in [Path -> Outcome]
          /\ \A p \in Path : rows[p] # "none" => rows'[p] # "none"
          /\ \A p \in Path : rows'[p] = "done" => rows[p] = "done"
      BY <1>t, <2>1 DEF MarkStopped, Outcome, OwnOutcome
    <2>4. Known(rows, DonePaths)'
      BY <1>t, <2>1, <2>2, <2>3 DEF Known, ListedInv
    <2> QED
      BY <1>t, <2>1, <2>2, <2>3, <2>4, BlockedSurvivesStep
  <1>3. CASE ListFails
    <2>1. EngineRunning
      BY <1>3, JobValues DEF ListFails, JobShape
    <2>2. /\ EngineReturn({}) /\ disk' = disk /\ job' = NextJob
          /\ rows' = RecordOwnResult(rows, active.path, "error")
      BY <1>3 DEF ListFails
    <2>3. DonePaths' \subseteq DonePaths
      BY <2>1, <2>2, ReturnPassesDoneOn
    <2>4. active.path \in Path
      BY <2>1, ActiveEntry
    <2>5. /\ rows' \in [Path -> Outcome]
          /\ \A p \in Path : rows[p] # "none" => rows'[p] # "none"
          /\ \A p \in Path : rows'[p] = "done" => rows[p] = "done"
      BY <1>t, <2>2, <2>4 DEF RecordOwnResult, Outcome, OwnOutcome
    <2>6. Known(rows, DonePaths)'
      BY <1>t, <2>2, <2>3, <2>5 DEF Known, ListedInv
    <2>7. job'.phase # "pruning"
      BY <2>2, JobValues DEF NextJob
    <2> QED
      BY <1>t, <2>2, <2>5, <2>6, <2>7, BlockedSurvivesStep
  \* What is forgotten is not on disk.
  <1>4. ASSUME NEW gone, gone \cap disk = {}
        PROVE  LET pruned == DeleteDirectorySubtree(rows, gone)
               IN  /\ pruned \in [Path -> Outcome]
                   /\ \A p \in disk : pruned[p] = rows[p]
                   /\ \A p \in Path : pruned[p] = "done" => rows[p] = "done"
    <2>1. \A p \in disk : ~ \E g \in gone : IsWithinSubtree(p, g)
      BY <1>4 DEF ListedInv, Closed, IsWithinSubtree
    <2> QED
      BY <1>t, <2>1 DEF DeleteDirectorySubtree, Outcome, OwnOutcome
  <1>5. CASE ListSucceeds
    <2> DEFINE found == ChildDirs(active.path)
               kids == found \ active.done
               gone == GetDirectChildren(rows, active.path) \ found
               pruned == DeleteDirectorySubtree(rows, gone)
               listed == UpsertPending(pruned, kids)
    <2>1. EngineRunning /\ disk' = disk /\ PruneOrFinish(listed, kids, SkippedDirs, {})
      BY <1>5, JobValues DEF ListSucceeds, JobShape
    <2>2. gone \cap disk = {} /\ found \in SUBSET Path /\ kids \in SUBSET Path
      BY <1>t DEF GetDirectChildren, ChildDirs
    <2>3. /\ pruned \in [Path -> Outcome]
          /\ \A p \in disk : pruned[p] = rows[p]
          /\ \A p \in Path : pruned[p] = "done" => rows[p] = "done"
      BY <1>4, <2>2
    <2>4. found \subseteq kids \cup active.done
      OBVIOUS
    <2> HIDE DEF pruned, kids, found
    <2>5. /\ listed \in [Path -> Outcome]
          /\ \A p \in disk : rows[p] # "none" => listed[p] # "none"
          /\ \A p \in Path : listed[p] = "done" => rows[p] = "done"
          /\ \A p \in kids : listed[p] # "none"
      BY <1>t, <2>2, <2>3 DEF UpsertPending, Outcome, OwnOutcome
    <2> HIDE DEF listed
    <2>6. Blocked(listed, disk)
      BY <1>t, <2>5, BlockedSurvives DEF ListedInv
    <2>7. Known(listed, DonePaths)
      BY <2>5 DEF Known, ListedInv
    <2>8. Known(listed, found)
      BY <2>4, <2>5, <2>7 DEF Known, DonePaths
    <2>9. ReadyToFinish(listed)
      BY <2>6, <2>7, <2>8 DEF ReadyToFinish, found
    <2> QED
      BY <2>1, <2>2, <2>5, <2>9, PruneBlocks DEF ListedInv
  <1>6. ASSUME NEW path \in Path, CheckExists(path) PROVE ListedInv'
    <2> DEFINE table == IF path \in disk THEN rows ELSE DeleteDirectorySubtree(rows, { path })
    <2>1. /\ EngineRunning /\ disk' = disk /\ job.phase = "pruning"
          /\ PruneOrFinish(table, job.kids, job.skipped, job.unchecked \ { path })
          /\ job.kids \in SUBSET Path
      BY <1>6, JobValues DEF CheckExists, JobShape, TypeOK
    <2>2. /\ table \in [Path -> Outcome]
          /\ \A p \in disk : table[p] = rows[p]
          /\ \A p \in Path : table[p] = "done" => rows[p] = "done"
      BY <1>4, <1>t
    <2> HIDE DEF table
    <2>3. Blocked(table, disk)
      BY <1>t, <2>2, BlockedSurvives DEF ListedInv
    <2>4. ReadyToFinish(table)
      BY <2>1, <2>2, <2>3 DEF ReadyToFinish, Known, ListedInv
    <2> QED
      BY <2>1, <2>2, <2>4, PruneBlocks DEF ListedInv
  <1>7. CASE ListRejects
    <2>1. /\ rows' = rows /\ disk' = disk /\ stack' = stack /\ active' = Idle
          /\ job'.phase # "pruning"
      BY <1>7, JobValues DEF ListRejects, EngineThrow, repoVars
    <2>2. DonePaths' \subseteq DonePaths
      BY <2>1 DEF DonePaths, Idle
    <2> QED
      BY <1>t, <2>1, <2>2, BlockedSurvivesStep DEF Known, ListedInv
  <1>8. CASE Restart
    <2>1. /\ disk' = disk /\ stack' = << >> /\ active' = Idle /\ job'.phase # "pruning"
          /\ rows' = MarkStopped(rows, { path \in Path : rows[path] = "pending" })
      BY <1>8, JobValues DEF Restart, EngineLost
    <2>2. DonePaths' = {}
      <3>1. Idle.done = {}
        BY DEF Idle
      <3>2. DOMAIN stack' = {}
        BY <2>1
      <3> QED
        BY <2>1, <3>1, <3>2 DEF DonePaths
    <2>3. /\ rows' \in [Path -> Outcome]
          /\ \A p \in Path : rows[p] # "none" => rows'[p] # "none"
          /\ \A p \in Path : rows'[p] = "done" => rows[p] = "done"
      BY <1>t, <2>1 DEF MarkStopped, Outcome, OwnOutcome
    <2> QED
      BY <1>t, <2>1, <2>2, <2>3, BlockedSurvivesStep DEF Known
  <1>9. ASSUME NEW path, Vanish(path) PROVE ListedInv'
    <2>1. /\ disk' = disk \ LexicalSubtree(Path, path) /\ rows' = rows /\ job' = job
          /\ DonePaths' = DonePaths /\ active' = active
      BY <1>9 DEF Vanish, engineVars, DonePaths
    <2>2. Closed(disk')
      <3>1. ASSUME NEW p \in disk', NEW above \in Lineage(p) PROVE above \in disk'
        <4>1. p \in disk /\ p \in Path /\ p \in Seq(STRING) /\ above \in disk
          BY <1>t, <2>1, <3>1, PathFacts DEF Closed, ListedInv
        <4>2. ~IsWithinSubtree(p, path)
          BY <2>1, <3>1, <4>1 DEF LexicalSubtree
        <4>3. ~IsWithinSubtree(above, path)
          BY <4>1, <4>2, LineageTransitive DEF IsWithinSubtree
        <4> QED
          BY <2>1, <4>1, <4>3 DEF LexicalSubtree
      <3> QED
        BY <3>1 DEF Closed
    <2>3. Known(rows, DonePaths)' /\ (job.phase = "pruning" => Known(rows, ChildDirs(active.path)))'
      BY <2>1 DEF Known, ChildDirs, ListedInv
    <2>4. Blocked(rows', disk')
      BY <2>1 DEF Blocked, Reaches, ListedInv
    <2> QED
      BY <2>2, <2>3, <2>4 DEF ListedInv, Closed, Blocked, Reaches
  <1>10. CASE UNCHANGED vars
    BY <1>10 DEF vars, ListedInv, Closed, Known, DonePaths, ChildDirs, Blocked, Reaches
  <1>11. \A path \in Path : /\ DeriveDoneSet(rows, path) \in SUBSET Path
                            /\ \A p \in DeriveDoneSet(rows, path) : rows[p] # "none"
    BY DEF DeriveDoneSet, GetSubtree, RowSubtree
  <1>12. ScanRoots \subseteq Path
    BY PathAssumption
  <1> QED
    BY <1>1, <1>2, <1>3, <1>5, <1>6, <1>7, <1>8, <1>9, <1>10, <1>11, <1>12
       DEF Next, Request, Step, ScanFull, ScanIncremental

\* Whatever was scanned, stopped, deleted or restarted: where directories do not
\* come back, one that is shown as completed has had every directory below it
\* listed (deriveDirectoryView, over what processDirectory leaves).
THEOREM CompleteIsListed ==
    ASSUME MayReturn = {}
    PROVE  Spec => []CompleteMeansListed
  <1>1. TypeOK /\ JobShape /\ ListedInv /\ [Next]_vars => ListedInv'
    BY NextListedInv
  <1>2. TypeOK /\ ListedInv => CompleteMeansListed
    <2> SUFFICES ASSUME TypeOK, ListedInv, NEW path \in Path, Complete(path),
                        NEW below \in disk, IsWithinSubtree(below, path)
                 PROVE  rows[below] = "done"
      BY DEF CompleteMeansListed
    <2>1. /\ rows[path] # "none"
          /\ \A node \in GetSubtree(rows, path) : rows[node] = "done"
      BY DEF Complete, ViewState, ViewIncomplete
    <2>2. below \in Path /\ Lineage(below) \subseteq disk /\ disk \subseteq Path
      BY DEF TypeOK, ListedInv, Closed
    <2>3. \A mid \in Lineage(below) : path \in Lineage(mid) /\ Reaches(rows, path, mid) =>
             mid \in Path /\ (rows[mid] # "none" => mid \in GetSubtree(rows, path))
      BY <2>2, PathFacts DEF GetSubtree, RowSubtree, Reaches, IsWithinSubtree
    <2>4. ASSUME NEW mid \in Lineage(below), path \in Lineage(mid) PROVE rows[mid] # "none"
      <3> SUFFICES ASSUME rows[mid] = "none" PROVE FALSE
        OBVIOUS
      <3>1. PICK open \in Lineage(mid) : /\ path \in Lineage(open) /\ Reaches(rows, path, open)
                                         /\ rows[open] # "done"
        BY <2>1, <2>2, <2>4 DEF ListedInv, Blocked
      <3>2. open \in Lineage(below)
        BY <2>2, PathFacts, LineageTransitive
      <3>3. rows[open] # "none"
        <4>1. open \in Lineage(open)
          BY <2>2, <3>2, PathFacts
        <4> QED
          BY <3>1, <4>1 DEF Reaches
      <3> QED
        BY <2>1, <2>3, <3>1, <3>2, <3>3
    <2>5. Reaches(rows, path, below)
      BY <2>4 DEF Reaches
    <2>6. below \in Lineage(below) /\ path \in Lineage(below)
      BY <2>2, PathFacts DEF IsWithinSubtree
    <2> QED
      BY <2>1, <2>3, <2>4, <2>5, <2>6
  <1> QED
    BY <1>1, <1>2, InitListedInv, TypeCorrect, PTL DEF Spec

\* The two together: where no listing rejects and nothing comes back, an idle
\* engine leaves nothing waiting, and what is shown as completed was listed.
THEOREM WhatIsSettledIsWhole ==
    ASSUME MayThrow = {}, AdjacentRoots, MayReturn = {}
    PROVE  Spec => []SettledIsWhole
  <1>1. Spec => []IdleMeansSettled
    BY IdleHasSettled
  <1>2. Spec => []CompleteMeansListed
    BY CompleteIsListed
  <1>3. IdleMeansSettled /\ CompleteMeansListed => SettledIsWhole
    BY DEF SettledIsWhole
  <1> QED
    BY <1>1, <1>2, <1>3, PTL

-----------------------------------------------------------------------------
(* An undisturbed scan completes                                           *)
(*                                                                         *)
(* Each row that is not done, below the root of a scan that nothing has    *)
(* disturbed, is due: an entry of that scan, or of another, waits on a way *)
(* down to it that no done-set cuts. What is due is listed, or its scan    *)
(* counts as disturbed; when nothing waits, nothing is due.                *)

StackEntries == { stack[i] : i \in DOMAIN stack }
EntriesOf(kids) == { Entry(kid, active.done) : kid \in kids }

\* The entries that have not been listed yet.
Outstanding ==
    StackEntries \cup IF job.phase = "pruning" THEN EntriesOf(job.kids)
                      ELSE IF EngineRunning THEN { active } ELSE {}

\* A directory whose listing fails, or is incomplete: a disturbance.
Disturbs(path) == ~CanList(path) \/ path \in Partial

\* The entry will get to the node, and then do something about it.
Claims(table, entry, root, node) ==
    /\ entry.path \in Lineage(node) /\ root \in Lineage(entry.path)
    /\ \A mid \in Lineage(node) :
          entry.path \in Lineage(mid) /\ mid # entry.path => mid \notin entry.done
    /\ node = entry.path => table[node] = "pending" \/ Disturbs(node)

\* The step in flight will record the node.
Records(table, node) ==
    node = active.path /\ table[node] = "pending" /\ node \notin Partial

Due(table, roots, entries, recording) ==
    \A root \in roots : \A node \in GetSubtree(table, root) :
        table[node] # "done" =>
            \/ recording /\ Records(table, node)
            \/ \E entry \in entries : Claims(table, entry, root, node)

\* A scan's root has a row, or its first listing is still to fail.
Rooted(table, roots, entries) ==
    \A root \in roots :
        IF root \in disk THEN table[root] # "none"
                         ELSE \E entry \in entries : entry.path = root

\* Between an entry and what its done-set names, what exists has a row.
Connected(table, entries) ==
    \A entry \in entries : \A mid \in entry.done : \A between \in Lineage(mid) :
        entry.path \in Lineage(between) /\ between \in disk => table[between] # "none"

UndisturbedInv ==
    /\ DiskClosed
    /\ stoppedRoots = {}
    /\ ~EngineRunning /\ undisturbed # {} => stack = << >>
    /\ Due(rows, undisturbed, Outstanding, job.phase = "pruning")
    /\ Rooted(rows, undisturbed, Outstanding)
    /\ Connected(rows, Outstanding \cup IF EngineRunning THEN { active } ELSE {})
    /\ PendingIsOwned

\* A turn of the loop: what waits afterwards is what waited, and the children.
LEMMA ReturnPassesEntriesOn ==
    ASSUME TypeOK, EngineRunning, stoppedRoots = {},
           NEW kids \in SUBSET Path, EngineReturn(kids)
    PROVE  /\ StackEntries' \cup (IF EngineRunning THEN { active } ELSE {})'
                = StackEntries \cup EntriesOf(kids)
           /\ ~EngineRunning' => stack' = << >>
           /\ stoppedRoots' = {}
  <1> DEFINE all(order) == stack \o [i \in DOMAIN order |-> Entry(order[i], active.done)]
  <1>0. ~StoppedInFlight
    BY DEF StoppedInFlight
  <1>1. PICK order \in Orderings(kids) :
           IF all(order) = << >>
             THEN stack' = << >> /\ active' = Idle /\ stoppedRoots' = {}
             ELSE /\ stack' = SubSeq(all(order), 1, Len(all(order)) - 1)
                  /\ active' = all(order)[Len(all(order))]
                  /\ stoppedRoots' = stoppedRoots
    BY <1>0 DEF EngineReturn
  <1> DEFINE pushed == all(order)
             given == [i \in DOMAIN order |-> Entry(order[i], active.done)]
             n == Cardinality(kids)
  <1>2. /\ n \in Nat /\ DOMAIN order = 1..n
        /\ \A i \in 1..n : order[i] \in kids
        /\ \A kid \in kids : \E i \in 1..n : order[i] = kid
    <2>1. IsFiniteSet(kids)
      BY PathAssumption, FS_Subset
    <2> QED
      BY <2>1, OrderingIsSequence
  <1>3. stack \in Seq(EntryOf(Path)) /\ active \in EntryOf(Path)
    BY ActiveEntry DEF TypeOK
  <1>4. /\ given \in Seq(EntryOf(Path)) /\ Len(given) = n
        /\ \A i \in 1..n : given[i] = Entry(order[i], active.done)
    <2>1. \A i \in 1..n : given[i] \in EntryOf(Path) /\ given[i] = Entry(order[i], active.done)
      BY <1>2, <1>3 DEF Entry, EntryOf
    <2>2. DOMAIN given = 1..n /\ given = [i \in 1..n |-> given[i]]
      BY <1>2
    <2> HIDE DEF given, n
    <2> QED
      BY <1>2, <2>1, <2>2
  <1> HIDE DEF given, n
  <1>5. /\ pushed \in Seq(EntryOf(Path)) /\ Len(pushed) = Len(stack) + n
        /\ \A i \in 1..Len(stack) : pushed[i] = stack[i]
        /\ \A i \in 1..n : pushed[Len(stack) + i] = given[i]
    BY <1>2, <1>3, <1>4 DEF given
  <1>s. StackEntries = { stack[i] : i \in 1..Len(stack) } /\ Len(stack) \in Nat
    BY <1>3 DEF StackEntries
  <1> DEFINE members == { pushed[i] : i \in 1..Len(pushed) }
  <1>6. members = StackEntries \cup EntriesOf(kids)
    <2>1. ASSUME NEW i \in 1..Len(pushed) PROVE pushed[i] \in StackEntries \cup EntriesOf(kids)
      <3>1. CASE i \in 1..Len(stack)
        BY <1>5, <1>s, <3>1
      <3>2. CASE i \notin 1..Len(stack)
        <4>1. i - Len(stack) \in 1..n /\ i = Len(stack) + (i - Len(stack))
          BY <1>2, <1>s, <1>5, <3>2
        <4>2. PICK j \in 1..n : i = Len(stack) + j
          BY <4>1
        <4>3. pushed[i] = Entry(order[j], active.done) /\ order[j] \in kids
          BY <1>2, <1>4, <1>5, <4>2
        <4> QED
          BY <4>3 DEF EntriesOf
      <3> QED
        BY <3>1, <3>2
    <2>2. StackEntries \subseteq members
      <3>1. 1..Len(stack) \subseteq 1..Len(pushed)
        BY <1>2, <1>5, <1>s
      <3> QED
        BY <1>5, <1>s, <3>1
    <2>3. ASSUME NEW kid \in kids PROVE Entry(kid, active.done) \in members
      <3>1. PICK i \in 1..n : order[i] = kid
        BY <1>2
      <3>2. Len(stack) + i \in 1..Len(pushed)
        BY <1>2, <1>5, <1>s
      <3>3. pushed[Len(stack) + i] = Entry(kid, active.done)
        BY <1>4, <1>5, <3>1
      <3> QED
        BY <3>2, <3>3
    <2> QED
      BY <2>1, <2>2, <2>3 DEF EntriesOf
  <1>7. CASE pushed = << >>
    <2>1. stack' = << >> /\ active' = Idle /\ stoppedRoots' = {}
      BY <1>1, <1>7
    <2>2. members = {}
      BY <1>7
    <2>3. StackEntries' = {} /\ ~EngineRunning'
      BY <2>1 DEF StackEntries, EngineRunning
    <2> QED
      BY <2>1, <2>2, <2>3, <1>6
  <1>8. CASE pushed # << >>
    <2>1. Len(pushed) \in Nat /\ Len(pushed) > 0
      BY <1>5, <1>8
    <2>2. /\ stack' = SubSeq(pushed, 1, Len(pushed) - 1) /\ active' = pushed[Len(pushed)]
          /\ stoppedRoots' = {}
      BY <1>1, <1>8
    <2> HIDE DEF pushed
    <2>3. /\ DOMAIN stack' = 1..(Len(pushed) - 1)
          /\ \A i \in DOMAIN stack' : stack'[i] = pushed[i] /\ i \in 1..Len(pushed)
      BY <1>5, <2>1, <2>2
    <2>4. active' \in EntryOf(Path)
      BY <1>5, <2>1, <2>2
    <2>5. EngineRunning'
      BY <2>4, PathAssumption DEF EngineRunning, EntryOf
    <2>6. members = { pushed[i] : i \in 1..(Len(pushed) - 1) } \cup { pushed[Len(pushed)] }
      <3>1. 1..Len(pushed) = (1..(Len(pushed) - 1)) \cup { Len(pushed) }
        BY <2>1
      <3> QED
        BY <3>1
    <2>7. StackEntries' = { pushed[i] : i \in 1..(Len(pushed) - 1) }
      BY <2>3 DEF StackEntries
    <2> HIDE DEF members
    <2> QED
      BY <2>2, <2>5, <2>6, <2>7, <1>6
  <1> QED
    BY <1>7, <1>8

LEMMA SubtreeFacts ==
    ASSUME NEW table, NEW root, NEW node
    PROVE  node \in GetSubtree(table, root) <=>
              /\ node \in Path /\ table[node] # "none" /\ root \in Lineage(node)
              /\ \A above \in Lineage(node) : root \in Lineage(above) =>
                    above \in Path /\ table[above] # "none"
  BY DEF GetSubtree, RowSubtree, IsWithinSubtree

\* What a table must satisfy for the step in flight to end, or wait, on it.
ReadyDue(table, kids, roots) ==
    LET entries == StackEntries \cup EntriesOf(kids)
    IN  /\ Due(table, roots, entries, TRUE)
        /\ Rooted(table, roots, entries)
        /\ Connected(table, entries \cup { active })
        /\ \A path \in Path : table[path] = "pending" =>
              path \in QueuedPaths \cup { active.path } \cup kids \cup MayThrow

\* The result is recorded: what only the step itself was due to record is done.
LEMMA RecordedIsNotDue ==
    ASSUME NEW table \in [Path -> Outcome], NEW after \in [Path -> Outcome],
           NEW roots \in SUBSET Path, NEW entries,
           active.path \in Path,
           \A path \in Path : after[path] =
              IF path = active.path /\ table[path] = "pending"
                THEN IF path \in Partial THEN "partial" ELSE "done"
                ELSE table[path],
           Due(table, roots, entries, TRUE)
    PROVE  Due(after, roots, entries, FALSE)
  <1> SUFFICES ASSUME NEW root \in roots, NEW node \in GetSubtree(after, root),
                      after[node] # "done"
               PROVE  \E entry \in entries : Claims(after, entry, root, node)
    BY DEF Due
  <1>1. \A path \in Path : table[path] # "none" <=> after[path] # "none"
    OBVIOUS
  <1>2. node \in GetSubtree(table, root) /\ node \in Path
    BY <1>1, SubtreeFacts
  <1>3. table[node] # "done"
    BY <1>2
  <1>4. ~Records(table, node)
    BY <1>2 DEF Records
  <1>5. PICK entry \in entries : Claims(table, entry, root, node)
    BY <1>2, <1>3, <1>4 DEF Due
  <1>6. node = entry.path => after[node] = "pending" \/ Disturbs(node)
    BY <1>2, <1>5 DEF Claims, Disturbs
  <1> QED
    BY <1>5, <1>6 DEF Claims

LEMMA StepKeepsDue ==
    ASSUME TypeOK, EngineRunning, DiskClosed, stoppedRoots = {}, disk' = disk,
           undisturbed' \in SUBSET Path,
           NEW table \in [Path -> Outcome], NEW kids \in SUBSET Path, NEW skipped, NEW unchecked,
           ReadyDue(table, kids, undisturbed'), PruneOrFinish(table, kids, skipped, unchecked)
    PROVE  UndisturbedInv'
  <1> DEFINE entries == StackEntries \cup EntriesOf(kids)
  <1>r. /\ Due(table, undisturbed', entries, TRUE)
        /\ Rooted(table, undisturbed', entries)
        /\ Connected(table, entries \cup { active })
        /\ \A path \in Path : table[path] = "pending" =>
              path \in QueuedPaths \cup { active.path } \cup kids \cup MayThrow
    BY DEF ReadyDue
  <1>c. DiskClosed'
    BY DEF DiskClosed
  <1>a. active.path \in Path
    BY ActiveEntry
  <1>1. CASE FinishStep(table, kids)
    <2> DEFINE result == IF active.path \in Partial THEN "partial" ELSE "done"
               recorded == RecordOwnResult(table, active.path, result)
    <2>1. /\ EngineReturn(kids) /\ job' = NextJob
          /\ rows' = MarkStopped(recorded, CutChildren(kids))
      BY <1>1 DEF FinishStep
    <2>2. CutChildren(kids) = {}
      BY DEF CutChildren, StoppedInFlight
    <2>3. /\ rows' \in [Path -> Outcome]
          /\ \A path \in Path : rows'[path] =
              IF path = active.path /\ table[path] = "pending"
                THEN IF path \in Partial THEN "partial" ELSE "done"
                ELSE table[path]
      BY <2>1, <2>2, <1>a DEF MarkStopped, RecordOwnResult, Outcome, OwnOutcome
    <2>4. /\ StackEntries' \cup (IF EngineRunning THEN { active } ELSE {})' = entries
          /\ ~EngineRunning' => stack' = << >>
          /\ stoppedRoots' = {}
      BY <2>1, ReturnPassesEntriesOn
    <2>5. job'.phase # "pruning" /\ job'.kids = {}
      BY <2>1, JobValues DEF NextJob
    <2>6. Outstanding' = entries
      BY <2>4, <2>5 DEF Outstanding
    <2>7. Due(rows', undisturbed', entries, FALSE)
      <3> HIDE DEF entries
      <3> QED
        BY <2>3, <1>r, <1>a, RecordedIsNotDue
    <2>8. Due(rows, undisturbed, Outstanding, job.phase = "pruning")'
      BY <2>5, <2>6, <2>7 DEF Due, Records, Claims, Disturbs, CanList
    <2>9. Rooted(rows, undisturbed, Outstanding)'
      BY <2>3, <2>6, <1>r DEF Rooted
    <2>10. Connected(rows, Outstanding \cup IF EngineRunning THEN { active } ELSE {})'
      <3>1. (Outstanding \cup IF EngineRunning THEN { active } ELSE {})' \subseteq entries
        BY <2>4, <2>6
      <3>2. disk \subseteq Path
        BY DEF TypeOK
      <3> QED
        BY <3>1, <3>2, <2>3, <1>r DEF Connected
    <2>11. PendingIsOwned'
      <3>1. /\ QueuedPaths \subseteq QueuedPaths' \cup { active'.path }
            /\ kids \subseteq QueuedPaths' \cup { active'.path }
        BY <2>1, <2>2, ReturnInPath
      <3>2. ASSUME NEW path \in Path, rows'[path] = "pending"
            PROVE  path \in QueuedPaths' \cup { active'.path } \cup MayThrow
        <4>1. path # active.path /\ table[path] = "pending"
          BY <2>3, <3>2
        <4> QED
          BY <4>1, <3>1, <1>r
      <3> QED
        BY <3>2 DEF PendingIsOwned, Owned
    <2> QED
      BY <1>c, <2>4, <2>8, <2>9, <2>10, <2>11 DEF UndisturbedInv
  <1>2. CASE rows' = table /\ job'.phase = "pruning" /\ job'.kids = kids /\ UNCHANGED engineVars
    <2>1. /\ StackEntries' = StackEntries /\ active' = active /\ EngineRunning'
          /\ stoppedRoots' = {} /\ QueuedPaths' = QueuedPaths
      BY <1>2 DEF engineVars, StackEntries, EngineRunning, QueuedPaths
    <2>2. Outstanding' = entries
      BY <1>2, <2>1 DEF Outstanding, EntriesOf
    <2>3. Due(rows, undisturbed, Outstanding, job.phase = "pruning")'
      BY <1>2, <2>1, <2>2, <1>r DEF Due, Records, Claims, Disturbs, CanList
    <2>4. Rooted(rows, undisturbed, Outstanding)'
      BY <1>2, <2>2, <1>r DEF Rooted
    <2>5. Connected(rows, Outstanding \cup IF EngineRunning THEN { active } ELSE {})'
      BY <1>2, <2>1, <2>2, <1>r DEF Connected
    <2>6. PendingIsOwned'
      BY <1>2, <2>1, <1>r DEF PendingIsOwned, Owned
    <2> QED
      BY <1>c, <2>1, <2>3, <2>4, <2>5, <2>6 DEF UndisturbedInv
  <1> QED
    BY <1>1, <1>2 DEF PruneOrFinish

LEMMA InitUndisturbedInv == Init => UndisturbedInv
  <1> SUFFICES ASSUME Init PROVE UndisturbedInv
    OBVIOUS
  <1>1. /\ stack = << >> /\ active = Idle /\ stoppedRoots = {} /\ disk = Path
        /\ undisturbed = {} /\ job = Resting /\ \A path \in Path : rows[path] = "none"
    BY DEF Init, EngineInit
  <1>2. ~EngineRunning /\ StackEntries = {}
    BY <1>1 DEF EngineRunning, StackEntries
  <1>3. Outstanding = {}
    BY <1>1, <1>2, JobValues DEF Outstanding
  <1>4. DiskClosed
    BY <1>1, PathFacts DEF DiskClosed
  <1> QED
    BY <1>1, <1>2, <1>3, <1>4 DEF UndisturbedInv, Due, Rooted, Connected, PendingIsOwned

\* What waits when a scan is asked for: its root's entry, and what did before.
LEMMA StartScanAddsEntry ==
    ASSUME TypeOK, JobShape, UndisturbedInv, NEW root \in Path, NEW done \in SUBSET Path,
           StartScan(root, done)
    PROVE  /\ undisturbed # {} => Outstanding' = Outstanding \cup { Entry(root, done) }
           /\ Entry(root, done) \in Outstanding'
           /\ (Outstanding \cup IF EngineRunning THEN { active } ELSE {})' =
                 (Outstanding \cup IF EngineRunning THEN { active } ELSE {})
                    \cup { Entry(root, done) }
           /\ job.phase = "pruning" <=> job'.phase = "pruning"
           /\ job.phase = "pruning" => active' = active
           /\ EngineRunning' /\ stoppedRoots' = {}
           /\ QueuedPaths \cup { root } \subseteq QueuedPaths' \cup { active'.path }
           /\ job'.kids = job.kids
           /\ EngineRunning => active' = active
  <1> DEFINE entry == Entry(root, done)
  <1>e. entry \in EntryOf(Path) /\ entry.path = root
    BY DEF Entry, EntryOf
  <1>t. stack \in Seq(EntryOf(Path)) /\ stoppedRoots' = {}
    BY DEF TypeOK, UndisturbedInv, StartScan, EngineEnqueue, EngineEnqueueAll
  <1>1. EngineEnqueue(entry) /\ job' = IF EngineRunning THEN job ELSE Listing
    BY DEF StartScan
  <1> HIDE DEF entry
  <1>2. CASE EngineRunning
    <2>1. stack' = Append(stack, entry) /\ active' = active /\ job' = job
      <3>1. stack' = stack \o << entry >>
        BY <1>1, <1>2 DEF EngineEnqueue, EngineEnqueueAll
      <3> QED
        BY <1>1, <1>2, <1>t, <1>e, <3>1 DEF EngineEnqueue, EngineEnqueueAll
    <2>2. /\ DOMAIN stack' = DOMAIN stack \cup { Len(stack) + 1 }
          /\ \A i \in DOMAIN stack : stack'[i] = stack[i]
          /\ stack'[Len(stack) + 1] = entry
      BY <2>1, <1>t, <1>e
    <2>3. StackEntries' = StackEntries \cup { entry }
      BY <2>2 DEF StackEntries
    <2>4. QueuedPaths' = QueuedPaths \cup { root }
      BY <2>2, <1>e DEF QueuedPaths
    <2>5. EngineRunning'
      BY <1>2, <2>1 DEF EngineRunning
    <2> QED
      BY <1>2, <1>t, <2>1, <2>3, <2>4, <2>5 DEF Outstanding, EntriesOf, entry
  <1>3. CASE ~EngineRunning
    <2>1. active' = entry /\ job' = Listing /\ job = Resting
      BY <1>1, <1>3 DEF EngineEnqueue, EngineEnqueueAll, JobShape
    <2>2. stack' = stack
      BY <1>1, <1>3, <1>e, <1>t, EnqueueFacts
    <2>3. StackEntries' = StackEntries /\ QueuedPaths' = QueuedPaths
      BY <2>2 DEF StackEntries, QueuedPaths
    <2>4. EngineRunning'
      BY <2>1, <1>e, PathAssumption DEF EngineRunning
    <2>5. Outstanding = StackEntries /\ Outstanding' = StackEntries \cup { entry }
      BY <1>3, <2>1, <2>3, <2>4, JobValues DEF Outstanding
    <2> QED
      BY <1>3, <1>t, <1>e, <2>1, <2>3, <2>4, <2>5, JobValues DEF entry
  <1> QED
    BY <1>2, <1>3

LEMMA StartKeepsDue ==
    ASSUME TypeOK, JobShape, UndisturbedInv, NEW start \in Path, NEW done \in SUBSET Path,
           StartScan(start, done), done = {} \/ done = DeriveDoneSet(rows, start)
    PROVE  UndisturbedInv'
  <1> DEFINE entry == Entry(start, done)
  <1>e. entry.path = start /\ entry.done = done
    BY DEF Entry
  <1>t. rows \in [Path -> Outcome] /\ disk \in SUBSET Path /\ undisturbed \in SUBSET Path
    BY DEF TypeOK, Outcome
  <1>1. /\ undisturbed # {} => Outstanding' = Outstanding \cup { entry }
        /\ entry \in Outstanding'
        /\ (Outstanding \cup IF EngineRunning THEN { active } ELSE {})' =
              (Outstanding \cup IF EngineRunning THEN { active } ELSE {}) \cup { entry }
        /\ job.phase = "pruning" <=> job'.phase = "pruning"
        /\ job.phase = "pruning" => active' = active
        /\ EngineRunning' /\ stoppedRoots' = {}
        /\ QueuedPaths \cup { start } \subseteq QueuedPaths' \cup { active'.path }
        /\ job'.kids = job.kids
        /\ EngineRunning => active' = active
    BY StartScanAddsEntry
  <1> HIDE DEF entry
  <1>2. /\ rows' = [path \in Path |-> IF path = start THEN "pending" ELSE rows[path]]
        /\ disk' = disk /\ undisturbed' = undisturbed \cup { start }
    BY DEF StartScan, UpsertPending
  <1>3. DiskClosed'
    BY <1>2 DEF DiskClosed, UndisturbedInv
  <1>4. ASSUME NEW root \in undisturbed', NEW node \in GetSubtree(rows', root),
               rows'[node] # "done"
        PROVE  \/ job'.phase = "pruning" /\ Records(rows, node)'
               \/ \E e \in Outstanding' : Claims(rows, e, root, node)'
    <2>1. /\ node \in Path /\ rows'[node] # "none" /\ root \in Lineage(node)
          /\ \A above \in Lineage(node) : root \in Lineage(above) =>
                above \in Path /\ rows'[above] # "none"
      BY <1>4, SubtreeFacts
    <2>p. node \in Seq(STRING) /\ node \in Lineage(node)
      BY <2>1, PathFacts
    <2>2. CASE root \in undisturbed /\ node \in GetSubtree(rows, root) /\ node # start
      <3>1. rows'[node] = rows[node]
        BY <1>2, <2>1, <2>2
      <3>2. Outstanding' = Outstanding \cup { entry }
        BY <1>1, <2>2
      <3>3. \/ job.phase = "pruning" /\ Records(rows, node)
            \/ \E e \in Outstanding : Claims(rows, e, root, node)
        BY <2>2, <3>1, <1>4 DEF UndisturbedInv, Due
      <3>4. ASSUME NEW e, Claims(rows, e, root, node) PROVE Claims(rows, e, root, node)'
        BY <3>1, <3>4, <1>2 DEF Claims, Disturbs, CanList
      <3>5. job.phase = "pruning" /\ Records(rows, node) =>
              job'.phase = "pruning" /\ Records(rows, node)'
        BY <3>1, <1>1 DEF Records
      <3> QED
        BY <3>2, <3>3, <3>4, <3>5
    <2>3. CASE node = start
      <3>1. \A mid \in Lineage(node) : start \in Lineage(mid) => mid = start
        BY <2>3, <2>p, LineageAntisymmetric
      <3>2. rows'[node] = "pending"
        BY <1>2, <2>1, <2>3
      <3>3. Claims(rows', entry, root, node)
        BY <1>e, <2>1, <2>p, <2>3, <3>1, <3>2 DEF Claims
      <3> QED
        BY <3>3, <1>1, <1>2 DEF Claims, Disturbs, CanList
    <2>4. CASE node # start /\ (root = start \/ node \notin GetSubtree(rows, root))
      <3>1. start \in Lineage(node) /\ root \in Lineage(start)
        <4>1. CASE root = start
          BY <4>1, <2>1, <1>t, PathFacts
        <4>2. CASE node \notin GetSubtree(rows, root)
          <5>1. rows[node] # "none"
            BY <1>2, <2>1, <2>4
          <5>2. PICK above \in Lineage(node) :
                   root \in Lineage(above) /\ ~(above \in Path /\ rows[above] # "none")
            BY <5>1, <4>2, <2>1, SubtreeFacts
          <5>3. above = start
            BY <5>2, <2>1, <1>2
          <5> QED
            BY <5>2, <5>3
        <4> QED
          BY <4>1, <4>2, <2>4
      <3>2. ASSUME NEW mid \in Lineage(node), start \in Lineage(mid), mid # start, mid \in done
            PROVE  FALSE
        <4>1. done = DeriveDoneSet(rows, start)
          BY <3>2
        <4>2. /\ mid \in GetSubtree(rows, start)
              /\ \A below \in GetSubtree(rows, start) :
                    mid \in Lineage(below) => rows[below] = "done"
          BY <4>1, <3>2 DEF DeriveDoneSet, IsWithinSubtree
        <4>3. rows[start] # "none"
          BY <4>2, <3>2, SubtreeFacts, PathFacts
        <4>4. \A above \in Path : rows'[above] # "none" => rows[above] # "none"
          BY <4>3, <1>2
        <4>5. ASSUME root # start PROVE FALSE
          BY <4>4, <4>5, <2>1, <2>4, SubtreeFacts
        <4>6. node \in GetSubtree(rows, start)
          BY <4>4, <4>5, <2>1, SubtreeFacts
        <4>7. rows[node] = "done"
          BY <4>2, <4>6, <3>2
        <4> QED
          BY <4>7, <1>4, <1>2, <2>1, <2>4
      <3>3. Claims(rows', entry, root, node)
        BY <1>e, <3>1, <3>2, <2>4 DEF Claims
      <3> QED
        BY <3>3, <1>1, <1>2 DEF Claims, Disturbs, CanList
    <2> QED
      BY <2>2, <2>3, <2>4, <1>2, <1>4
  <1>5. Due(rows, undisturbed, Outstanding, job.phase = "pruning")'
    BY <1>4 DEF Due
  <1>6. Rooted(rows, undisturbed, Outstanding)'
    <2>1. \A root \in undisturbed : IF root \in disk THEN rows[root] # "none"
                                    ELSE \E e \in Outstanding : e.path = root
      BY DEF UndisturbedInv, Rooted
    <2>2. ASSUME NEW root \in undisturbed'
          PROVE  IF root \in disk' THEN rows'[root] # "none"
                 ELSE \E e \in Outstanding' : e.path = root
      <3>1. CASE root = start
        BY <3>1, <1>1, <1>2, <1>e
      <3>2. CASE root # start
        <4>1. root \in undisturbed /\ root \in Path
          BY <3>2, <1>2, <1>t
        <4> QED
          BY <4>1, <2>1, <3>2, <1>1, <1>2
      <3> QED
        BY <3>1, <3>2
    <2> QED
      BY <2>2 DEF Rooted
  <1>7. Connected(rows, Outstanding \cup IF EngineRunning THEN { active } ELSE {})'
    <2> DEFINE held == Outstanding \cup IF EngineRunning THEN { active } ELSE {}
    <2>1. Connected(rows, held)
      BY DEF UndisturbedInv
    <2>2. ASSUME NEW mid \in done, NEW between \in Lineage(mid), start \in Lineage(between)
          PROVE  rows[between] # "none"
      <3>1. mid \in GetSubtree(rows, start)
        BY <2>2 DEF DeriveDoneSet
      <3> QED
        BY <2>2, <3>1, SubtreeFacts
    <2>3. \A between \in disk : rows[between] # "none" => rows'[between] # "none"
      BY <1>2, <1>t
    <2>4. held' = held \cup { entry }
      BY <1>1
    <2> HIDE DEF held
    <2>5. ASSUME NEW e \in held', NEW mid \in e.done, NEW between \in Lineage(mid),
                 e.path \in Lineage(between), between \in disk'
          PROVE  rows'[between] # "none"
      <3>1. CASE e \in held
        BY <2>1, <2>3, <2>5, <1>2, <3>1 DEF Connected
      <3>2. CASE e = entry
        BY <2>2, <2>3, <2>5, <1>2, <1>e, <3>2
      <3> QED
        BY <2>4, <2>5, <3>1, <3>2
    <2>6. Connected(rows, held)'
      BY <2>5 DEF Connected
    <2> QED
      BY <2>6 DEF held
  <1>8. PendingIsOwned'
    <2>1. ASSUME NEW path \in Path, rows'[path] = "pending"
          PROVE  path \in QueuedPaths' \cup { active'.path } \cup job'.kids \cup MayThrow
      <3>1. CASE path = start
        BY <3>1, <1>1
      <3>2. CASE path # start
        <4>1. rows[path] = "pending"
          BY <3>2, <2>1, <1>2
        <4>2. path \in QueuedPaths \cup { active.path } \cup job.kids \cup MayThrow
          BY <4>1 DEF UndisturbedInv, PendingIsOwned, Owned
        <4>3. path = active.path => EngineRunning
          BY PathAssumption DEF EngineRunning
        <4> QED
          BY <4>2, <4>3, <1>1
      <3> QED
        BY <3>1, <3>2
    <2> QED
      BY <2>1 DEF PendingIsOwned, Owned
  <1> QED
    BY <1>1, <1>3, <1>5, <1>6, <1>7, <1>8 DEF UndisturbedInv

\* A failed listing: what only its entry would get to is under a disturbed scan.
LEMMA FailKeepsDue ==
    ASSUME TypeOK, JobShape, UndisturbedInv, ListFails
    PROVE  UndisturbedInv'
  <1>1. /\ EngineRunning /\ job.phase = "listing" /\ job.kids = {}
        /\ EngineReturn({}) /\ job' = NextJob /\ disk' = disk
        /\ rows' = RecordOwnResult(rows, active.path, "error")
        /\ undisturbed' = undisturbed \ Covering(active.path)
    BY JobValues DEF ListFails, JobShape
  <1>t. /\ rows \in [Path -> Outcome] /\ disk \in SUBSET Path /\ undisturbed \in SUBSET Path
        /\ active.path \in Path /\ stoppedRoots = {}
    BY <1>1, ActiveEntry DEF TypeOK, Outcome, UndisturbedInv
  <1>e. {} \in SUBSET Path /\ EntriesOf({}) = {}
    BY DEF EntriesOf
  <1>2. /\ StackEntries' \cup (IF EngineRunning THEN { active } ELSE {})' = StackEntries
        /\ ~EngineRunning' => stack' = << >>
        /\ stoppedRoots' = {}
    BY <1>1, <1>t, <1>e, ReturnPassesEntriesOn
  <1>3. job'.phase # "pruning" /\ job'.kids = {}
    BY <1>1, JobValues DEF NextJob
  <1>4. /\ Outstanding = StackEntries \cup { active }
        /\ Outstanding' = StackEntries
        /\ (Outstanding \cup IF EngineRunning THEN { active } ELSE {})' = StackEntries
    BY <1>1, <1>2, <1>3 DEF Outstanding
  <1>5. /\ \A path \in Path : rows'[path] # "none" <=> rows[path] # "none"
        /\ \A path \in Path : path # active.path => rows'[path] = rows[path]
        /\ rows'[active.path] # "pending"
    BY <1>1, <1>t DEF RecordOwnResult, Outcome, OwnOutcome
  <1>6. DiskClosed'
    BY <1>1 DEF DiskClosed, UndisturbedInv
  <1>7. ASSUME NEW root \in undisturbed'
        PROVE  root \in undisturbed /\ root \in Path /\ root \notin Lineage(active.path)
    BY <1>1, <1>t DEF Covering, IsWithinSubtree
  <1>8. ASSUME NEW root \in undisturbed', NEW node \in GetSubtree(rows', root),
               rows'[node] # "done"
        PROVE  \E e \in StackEntries : Claims(rows, e, root, node)'
    <2>1. node \in Path /\ root \in Lineage(node) /\ node \in GetSubtree(rows, root)
      BY <1>5, <1>8, SubtreeFacts
    <2>2. node # active.path /\ rows'[node] = rows[node]
      BY <1>5, <1>7, <2>1
    <2>3. PICK e \in Outstanding : Claims(rows, e, root, node)
      BY <1>1, <1>7, <1>8, <2>1, <2>2 DEF UndisturbedInv, Due
    <2>4. e # active
      BY <1>7, <2>3 DEF Claims
    <2>5. Claims(rows, e, root, node)'
      BY <1>1, <2>2, <2>3 DEF Claims, Disturbs, CanList
    <2> QED
      BY <1>4, <2>3, <2>4, <2>5
  <1>9. Due(rows, undisturbed, Outstanding, job.phase = "pruning")'
    BY <1>4, <1>8 DEF Due
  <1>10. Rooted(rows, undisturbed, Outstanding)'
    <2>1. ASSUME NEW root \in undisturbed'
          PROVE  IF root \in disk' THEN rows'[root] # "none"
                 ELSE \E e \in Outstanding' : e.path = root
      <3>1. active.path # root
        BY <1>7, <1>t, PathFacts
      <3>2. IF root \in disk THEN rows[root] # "none"
            ELSE \E e \in Outstanding : e.path = root
        BY <1>7 DEF UndisturbedInv, Rooted
      <3> QED
        BY <1>1, <1>4, <1>5, <1>7, <3>1, <3>2
    <2> QED
      BY <2>1 DEF Rooted
  <1>11. Connected(rows, Outstanding \cup IF EngineRunning THEN { active } ELSE {})'
    <2>1. Connected(rows, StackEntries)
      BY <1>4 DEF UndisturbedInv, Connected
    <2>2. Connected(rows', StackEntries)
      BY <1>t, <1>5, <2>1 DEF Connected
    <2> QED
      BY <1>1, <1>4, <2>2 DEF Connected
  <1>12. PendingIsOwned'
    <2>1. QueuedPaths \subseteq QueuedPaths' \cup { active'.path }
      BY <1>1, <1>e, ReturnInPath
    <2>2. ASSUME NEW path \in Path, rows'[path] = "pending"
          PROVE  path \in QueuedPaths' \cup { active'.path } \cup MayThrow
      <3>1. rows[path] = "pending" /\ path # active.path
        BY <1>5, <2>2
      <3>2. path \in QueuedPaths \cup MayThrow
        BY <1>1, <3>1 DEF UndisturbedInv, PendingIsOwned, Owned
      <3> QED
        BY <2>1, <3>2
    <2> QED
      BY <2>2 DEF PendingIsOwned, Owned
  <1> QED
    BY <1>2, <1>6, <1>9, <1>10, <1>11, <1>12 DEF UndisturbedInv

\* Rows that are only taken out leave nothing new due.
LEMMA FewerRowsFewerDue ==
    ASSUME NEW table, NEW after, NEW roots, NEW entries, NEW recording,
           \A path \in Path : after[path] # "none" => after[path] = table[path],
           Due(table, roots, entries, recording)
    PROVE  Due(after, roots, entries, recording)
  <1> SUFFICES ASSUME NEW root \in roots, NEW node \in GetSubtree(after, root),
                      after[node] # "done"
               PROVE  \/ recording /\ Records(after, node)
                      \/ \E entry \in entries : Claims(after, entry, root, node)
    BY DEF Due
  <1>1. node \in GetSubtree(table, root) /\ after[node] = table[node]
    BY SubtreeFacts
  <1>2. \/ recording /\ Records(table, node)
        \/ \E entry \in entries : Claims(table, entry, root, node)
    BY <1>1 DEF Due
  <1> QED
    BY <1>1, <1>2 DEF Records, Claims

\* What pathExists does not find has no directory below it either.
LEMMA ForgettingKeepsDisk ==
    ASSUME TypeOK, DiskClosed, NEW table \in [Path -> Outcome], NEW gone, gone \cap disk = {}
    PROVE  LET pruned == DeleteDirectorySubtree(table, gone)
           IN  /\ pruned \in [Path -> Outcome]
               /\ \A path \in disk : pruned[path] = table[path]
               /\ \A path \in Path : pruned[path] # "none" => pruned[path] = table[path]
               /\ \A path \in Path \cap gone : pruned[path] = "none"
  <1>1. \A path \in disk : path \in Path /\ ~ \E g \in gone : IsWithinSubtree(path, g)
    BY DEF DiskClosed, IsWithinSubtree, TypeOK
  <1>2. \A path \in Path : IsWithinSubtree(path, path)
    BY PathFacts DEF IsWithinSubtree
  <1> QED
    BY <1>1, <1>2 DEF DeleteDirectorySubtree, Outcome, OwnOutcome

LEMMA CheckKeepsDue ==
    ASSUME TypeOK, JobShape, UndisturbedInv, NEW path \in Path, CheckExists(path)
    PROVE  UndisturbedInv'
  <1> DEFINE table == IF path \in disk THEN rows ELSE DeleteDirectorySubtree(rows, { path })
  <1>1. /\ EngineRunning /\ disk' = disk /\ job.phase = "pruning" /\ undisturbed' = undisturbed
        /\ PruneOrFinish(table, job.kids, job.skipped, job.unchecked \ { path })
        /\ job.kids \in SUBSET Path
    BY JobValues DEF CheckExists, JobShape, TypeOK
  <1>t. rows \in [Path -> Outcome] /\ undisturbed \in SUBSET Path /\ DiskClosed
    BY DEF TypeOK, Outcome, UndisturbedInv
  <1>2. /\ table \in [Path -> Outcome]
        /\ \A p \in disk : table[p] = rows[p]
        /\ \A p \in Path : table[p] # "none" => table[p] = rows[p]
    <2>1. CASE path \in disk
      BY <2>1, <1>t
    <2>2. CASE path \notin disk
      <3>1. { path } \cap disk = {}
        BY <2>2
      <3> QED
        BY <2>2, <3>1, <1>t, ForgettingKeepsDisk
    <2> QED
      BY <2>1, <2>2
  <1> HIDE DEF table
  <1>3. Outstanding = StackEntries \cup EntriesOf(job.kids)
    BY <1>1 DEF Outstanding
  <1>4. Due(table, undisturbed, Outstanding, TRUE)
    <2>1. Due(rows, undisturbed, Outstanding, TRUE)
      BY <1>1 DEF UndisturbedInv
    <2> QED
      BY <1>2, <2>1, FewerRowsFewerDue
  <1>5. Rooted(table, undisturbed, Outstanding)
    BY <1>2 DEF UndisturbedInv, Rooted
  <1>6. Connected(table, Outstanding \cup { active })
    BY <1>1, <1>2 DEF UndisturbedInv, Connected
  <1>7. \A p \in Path : table[p] = "pending" =>
           p \in QueuedPaths \cup { active.path } \cup job.kids \cup MayThrow
    <2>1. \A p \in Path : table[p] = "pending" => rows[p] = "pending"
      BY <1>2
    <2> QED
      BY <2>1 DEF UndisturbedInv, PendingIsOwned, Owned
  <1>8. ReadyDue(table, job.kids, undisturbed')
    BY <1>1, <1>3, <1>4, <1>5, <1>6, <1>7 DEF ReadyDue
  <1>9. stoppedRoots = {}
    BY DEF UndisturbedInv
  <1> QED
    BY <1>1, <1>2, <1>8, <1>9, <1>t, StepKeepsDue

\* The listing is in: what its entry would get to is now due to its children,
\* for none of the done-set lies on the way, and what is gone has no row.
LEMMA ListKeepsDue ==
    ASSUME TypeOK, JobShape, UndisturbedInv, ListSucceeds
    PROVE  UndisturbedInv'
  <1> DEFINE found == ChildDirs(active.path)
             kids == found \ active.done
             gone == GetDirectChildren(rows, active.path) \ found
             pruned == DeleteDirectorySubtree(rows, gone)
             listed == UpsertPending(pruned, kids)
             entries == StackEntries \cup EntriesOf(kids)
  <1>1. /\ EngineRunning /\ job.phase = "listing" /\ job.kids = {}
        /\ CanList(active.path) /\ disk' = disk
        /\ PruneOrFinish(listed, kids, SkippedDirs, {})
        /\ undisturbed' = IF active.path \in Partial
                            THEN undisturbed \ Covering(active.path) ELSE undisturbed
    BY JobValues DEF ListSucceeds, JobShape
  <1>t. /\ rows \in [Path -> Outcome] /\ undisturbed \in SUBSET Path /\ DiskClosed
        /\ disk \in SUBSET Path /\ stoppedRoots = {} /\ active.path \in Path
        /\ active.path \in disk /\ undisturbed' \in SUBSET Path /\ undisturbed' \subseteq undisturbed
    BY <1>1, ActiveEntry DEF TypeOK, Outcome, UndisturbedInv, CanList
  <1>2. /\ gone \cap disk = {} /\ kids \in SUBSET Path /\ kids \subseteq disk
        /\ \A child \in kids : child # Root /\ ParentPath(child) = active.path
                               /\ child \notin active.done
        /\ \A child \in disk : child # Root /\ ParentPath(child) = active.path
                               /\ child \notin active.done => child \in kids
        /\ \A child \in Path : child # Root /\ ParentPath(child) = active.path
                               /\ child \notin disk /\ rows[child] # "none" => child \in gone
    BY <1>t DEF ChildDirs, GetDirectChildren
  <1>3. /\ pruned \in [Path -> Outcome]
        /\ \A path \in disk : pruned[path] = rows[path]
        /\ \A path \in Path : pruned[path] # "none" => pruned[path] = rows[path]
        /\ \A path \in Path \cap gone : pruned[path] = "none"
    BY <1>t, <1>2, ForgettingKeepsDisk
  <1> HIDE DEF found, gone, pruned, kids
  <1>4. /\ listed \in [Path -> Outcome]
        /\ \A path \in kids : listed[path] = "pending"
        /\ \A path \in Path \ kids : listed[path] = pruned[path]
        /\ \A path \in disk : rows[path] # "none" => listed[path] # "none"
    BY <1>t, <1>2, <1>3 DEF UpsertPending, Outcome, OwnOutcome
  <1> HIDE DEF listed
  <1>5. \A child \in kids : active.path \in Lineage(child)
    BY <1>2, <1>t, PathFacts, LineageOfChild
  <1>6. Outstanding = StackEntries \cup { active }
    BY <1>1 DEF Outstanding
  <1>7. ASSUME NEW child \in kids
        PROVE  /\ Entry(child, active.done) \in entries
               /\ Entry(child, active.done).path = child
               /\ Entry(child, active.done).done = active.done
    BY <1>7 DEF EntriesOf, Entry
  <1> HIDE DEF entries
  <1>8. ASSUME NEW root \in undisturbed', NEW node \in GetSubtree(listed, root),
               listed[node] # "done"
        PROVE  \/ Records(listed, node)
               \/ \E e \in entries : Claims(listed, e, root, node)
    <2>1. /\ node \in Path /\ listed[node] # "none" /\ root \in Lineage(node)
          /\ \A above \in Lineage(node) : root \in Lineage(above) =>
                above \in Path /\ listed[above] # "none"
      BY <1>8, SubtreeFacts
    <2>p. node \in Seq(STRING) /\ node \in Lineage(node) /\ Lineage(node) \subseteq Path
      BY <2>1, PathFacts
    <2>2. CASE node \in kids
      <3>1. \A mid \in Lineage(node) : node \in Lineage(mid) => mid = node
        BY <2>p, LineageAntisymmetric
      <3>2. Claims(listed, Entry(node, active.done), root, node)
        BY <1>4, <1>7, <2>1, <2>2, <2>p, <3>1 DEF Claims
      <3> QED
        BY <1>7, <2>2, <3>2
    <2>3. CASE node \notin kids /\ node \in GetSubtree(rows, root)
      <3>1. listed[node] = rows[node]
        BY <1>3, <1>4, <2>1, <2>3
      <3>2. PICK e \in Outstanding : Claims(rows, e, root, node)
        BY <1>1, <1>8, <1>t, <2>3, <3>1 DEF UndisturbedInv, Due
      <3>3. CASE e # active
        <4>1. e \in entries
          BY <1>6, <3>2, <3>3 DEF entries
        <4>2. Claims(listed, e, root, node)
          BY <3>1, <3>2 DEF Claims
        <4> QED
          BY <4>1, <4>2
      <3>4. CASE e = active /\ node = active.path
        <4>1. root \in Lineage(active.path)
          BY <2>1, <3>4
        <4>2. active.path \notin Partial
          BY <1>1, <1>8, <1>t, <4>1 DEF Covering, IsWithinSubtree
        <4>3. ~Disturbs(node)
          BY <1>1, <3>4, <4>2 DEF Disturbs
        <4>4. rows[node] = "pending"
          BY <3>2, <3>4, <4>3 DEF Claims
        <4> QED
          BY <3>1, <3>4, <4>2, <4>4 DEF Records
      <3>5. CASE e = active /\ node # active.path
        <4>1. /\ active.path \in Lineage(node) /\ root \in Lineage(active.path)
              /\ \A mid \in Lineage(node) :
                    active.path \in Lineage(mid) /\ mid # active.path => mid \notin active.done
          BY <3>2, <3>5 DEF Claims
        <4>2. PICK child \in Lineage(node) :
                 /\ child # Root /\ ParentPath(child) = active.path
                 /\ active.path \in Lineage(child) /\ Len(child) = Len(active.path) + 1
          BY <2>p, <3>5, <4>1, ChildOnTheWay
        <4>3. /\ child \in Path /\ child \in Seq(STRING) /\ active.path \in Seq(STRING)
              /\ child # active.path
          <5>1. child \in Seq(STRING) /\ active.path \in Seq(STRING) /\ child \in Path
            BY <1>t, <2>p, PathFacts
          <5> QED
            BY <4>2, <5>1
        <4>4. root \in Lineage(child)
          BY <4>1, <4>2, <4>3, LineageTransitive
        <4>5. child \notin active.done /\ listed[child] # "none"
          BY <2>1, <4>1, <4>2, <4>3, <4>4
        <4>6. child \in disk
          <5> SUFFICES ASSUME child \notin disk PROVE FALSE
            OBVIOUS
          <5>1. child \notin kids
            BY <1>2
          <5>2. pruned[child] # "none"
            BY <1>4, <4>3, <4>5, <5>1
          <5>3. child \in gone
            BY <1>2, <1>3, <4>2, <4>3, <5>2
          <5> QED
            BY <1>3, <4>3, <5>2, <5>3
        <4>7. child \in kids
          BY <1>2, <4>2, <4>5, <4>6
        <4>8. ASSUME NEW mid \in Lineage(node), child \in Lineage(mid), mid # child
              PROVE  mid \notin active.done
          <5>1. mid \in Seq(STRING) /\ active.path \in Lineage(mid)
            BY <2>p, <4>2, <4>8, LineageTypes, LineageTransitive
          <5>2. mid # active.path
            BY <4>2, <4>3, <4>8, LineageAntisymmetric
          <5> QED
            BY <4>1, <5>1, <5>2
        <4>9. Claims(listed, Entry(child, active.done), root, node)
          BY <1>7, <2>3, <4>4, <4>7, <4>8 DEF Claims
        <4> QED
          BY <1>7, <4>7, <4>9
      <3> QED
        BY <3>3, <3>4, <3>5
    <2>4. CASE node \notin kids /\ node \notin GetSubtree(rows, root)
      <3>1. \A path \in Path \ kids : listed[path] # "none" => rows[path] # "none"
        BY <1>3, <1>4
      <3>2. PICK kid \in Lineage(node) : root \in Lineage(kid) /\ kid \in kids /\ rows[kid] = "none"
        <4>1. rows[node] # "none"
          BY <2>1, <2>4, <3>1
        <4>2. PICK above \in Lineage(node) :
                 root \in Lineage(above) /\ ~(above \in Path /\ rows[above] # "none")
          BY <2>1, <2>4, <4>1, SubtreeFacts
        <4>3. above \in Path /\ listed[above] # "none" /\ rows[above] = "none"
          BY <2>1, <2>p, <4>2
        <4> QED
          BY <3>1, <4>2, <4>3
      <3>3. ASSUME NEW mid \in Lineage(node), kid \in Lineage(mid), mid \in active.done
            PROVE  FALSE
        <4>1. active.path \in Lineage(kid) /\ kid \in disk
          BY <1>2, <1>5, <3>2
        <4>2. Connected(rows, { active })
          BY <1>1 DEF UndisturbedInv, Connected
        <4> QED
          BY <3>2, <3>3, <4>1, <4>2 DEF Connected
      <3>4. Claims(listed, Entry(kid, active.done), root, node)
        BY <1>7, <2>4, <3>2, <3>3 DEF Claims
      <3> QED
        BY <1>7, <3>2, <3>4
    <2> QED
      BY <2>2, <2>3, <2>4
  <1>9. Due(listed, undisturbed', entries, TRUE)
    BY <1>8 DEF Due
  <1>10. Rooted(listed, undisturbed', entries)
    <2>1. ASSUME NEW root \in undisturbed'
          PROVE  IF root \in disk THEN listed[root] # "none"
                 ELSE \E e \in entries : e.path = root
      <3>1. IF root \in disk THEN rows[root] # "none"
            ELSE \E e \in Outstanding : e.path = root
        BY <1>t DEF UndisturbedInv, Rooted
      <3>2. CASE root \in disk
        BY <1>4, <3>1, <3>2
      <3>3. CASE root \notin disk
        BY <1>t, <1>6, <3>1, <3>3 DEF entries
      <3> QED
        BY <3>2, <3>3
    <2> QED
      BY <2>1 DEF Rooted
  <1>11. Connected(listed, entries \cup { active })
    <2>1. Connected(rows, StackEntries \cup { active })
      BY <1>1, <1>6 DEF UndisturbedInv, Connected
    <2>2. Connected(listed, StackEntries \cup { active })
      BY <1>4, <2>1 DEF Connected
    <2>3. ASSUME NEW kid \in kids, NEW mid \in active.done, NEW between \in Lineage(mid),
                 kid \in Lineage(between), between \in disk
          PROVE  listed[between] # "none"
      <3>1. between \in Seq(STRING)
        BY <1>t, <2>3, PathFacts
      <3>2. active.path \in Lineage(between)
        BY <1>5, <2>3, <3>1, LineageTransitive
      <3> QED
        BY <2>2, <2>3, <3>2 DEF Connected
    <2>4. ASSUME NEW e \in entries \cup { active }, NEW mid \in e.done,
                 NEW between \in Lineage(mid), e.path \in Lineage(between), between \in disk
          PROVE  listed[between] # "none"
      <3>1. CASE e \in StackEntries \cup { active }
        BY <2>2, <2>4, <3>1 DEF Connected
      <3>2. CASE e \in EntriesOf(kids)
        <4>1. PICK kid \in kids : e = Entry(kid, active.done)
          BY <3>2 DEF EntriesOf
        <4> QED
          BY <1>7, <2>3, <2>4, <4>1
      <3> QED
        BY <2>4, <3>1, <3>2 DEF entries
    <2> QED
      BY <2>4 DEF Connected
  <1>12. \A path \in Path : listed[path] = "pending" =>
            path \in QueuedPaths \cup { active.path } \cup kids \cup MayThrow
    <2>1. \A path \in Path \ kids : listed[path] = "pending" => rows[path] = "pending"
      BY <1>3, <1>4
    <2> QED
      BY <1>1, <2>1 DEF UndisturbedInv, PendingIsOwned, Owned
  <1>13. ReadyDue(listed, kids, undisturbed')
    BY <1>9, <1>10, <1>11, <1>12 DEF ReadyDue, entries
  <1> QED
    BY <1>1, <1>2, <1>4, <1>13, <1>t, StepKeepsDue

LEMMA NextUndisturbedInv ==
    ASSUME StopRoots = {}, MayReturn = {}, TypeOK, JobShape, UndisturbedInv, [Next]_vars
    PROVE  UndisturbedInv'
  <1>t. rows \in [Path -> Outcome] /\ disk \in SUBSET Path /\ undisturbed \in SUBSET Path
    BY DEF TypeOK, Outcome
  <1>1. ASSUME NEW path \in ScanRoots, ScanFull(path) \/ ScanIncremental(path)
        PROVE  UndisturbedInv'
    <2>1. path \in Path /\ {} \in SUBSET Path /\ DeriveDoneSet(rows, path) \in SUBSET Path
      BY PathAssumption, GetSubtreeInPath DEF DeriveDoneSet
    <2> QED
      BY <1>1, <2>1, StartKeepsDue DEF ScanFull, ScanIncremental
  <1>2. CASE ListRejects
    <2>1. /\ rows' = rows /\ disk' = disk /\ stack' = stack /\ active' = Idle
          /\ stoppedRoots' = {} /\ job' = Resting /\ undisturbed' = {}
          /\ active.path \in MayThrow /\ job.kids = {}
      BY <1>2, JobValues DEF ListRejects, EngineThrow, repoVars, JobShape
    <2>2. ~EngineRunning' /\ StackEntries' = StackEntries /\ QueuedPaths' = QueuedPaths
      BY <2>1 DEF EngineRunning, StackEntries, QueuedPaths
    <2>3. Outstanding' = StackEntries
      BY <2>1, <2>2, JobValues DEF Outstanding
    <2>4. StackEntries \subseteq Outstanding
      BY DEF Outstanding
    <2>5. Connected(rows, Outstanding \cup IF EngineRunning THEN { active } ELSE {})'
      BY <2>1, <2>2, <2>3, <2>4 DEF UndisturbedInv, Connected
    <2>6. PendingIsOwned'
      BY <2>1, <2>2, JobValues DEF UndisturbedInv, PendingIsOwned, Owned
    <2> QED
      BY <2>1, <2>5, <2>6 DEF UndisturbedInv, DiskClosed, Due, Rooted
  <1>3. CASE Restart
    <2>1. /\ disk' = disk /\ stack' = << >> /\ active' = Idle /\ stoppedRoots' = {}
          /\ job' = Resting /\ undisturbed' = {}
          /\ rows' = MarkStopped(rows, { path \in Path : rows[path] = "pending" })
      BY <1>3 DEF Restart, EngineLost
    <2>2. ~EngineRunning' /\ StackEntries' = {}
      BY <2>1 DEF EngineRunning, StackEntries
    <2>3. Outstanding' = {}
      BY <2>1, <2>2, JobValues DEF Outstanding
    <2>4. \A path \in Path : rows'[path] # "pending"
      BY <1>t, <2>1 DEF MarkStopped
    <2> QED
      BY <2>1, <2>2, <2>3, <2>4 DEF UndisturbedInv, DiskClosed, Due, Rooted, Connected, PendingIsOwned
  <1>4. ASSUME NEW path, Vanish(path) PROVE UndisturbedInv'
    <2>1. /\ disk' = disk \ LexicalSubtree(Path, path) /\ rows' = rows /\ job' = job
          /\ stack' = stack /\ active' = active /\ stoppedRoots' = stoppedRoots
          /\ undisturbed' = undisturbed \ LexicalSubtree(Path, path)
      BY <1>4 DEF Vanish, engineVars
    <2>2. DiskClosed'
      <3>1. ASSUME NEW p \in disk', NEW above \in Lineage(p) PROVE above \in disk'
        <4>1. p \in disk /\ p \in Path /\ p \in Seq(STRING) /\ above \in disk
          BY <1>t, <2>1, <3>1, PathFacts DEF DiskClosed, UndisturbedInv
        <4>2. ~IsWithinSubtree(p, path)
          BY <2>1, <3>1, <4>1 DEF LexicalSubtree
        <4>3. ~IsWithinSubtree(above, path)
          BY <4>1, <4>2, LineageTransitive DEF IsWithinSubtree
        <4> QED
          BY <2>1, <4>1, <4>3 DEF LexicalSubtree
      <3> QED
        BY <3>1 DEF DiskClosed
    <2>3. /\ EngineRunning' <=> EngineRunning
          /\ StackEntries' = StackEntries /\ QueuedPaths' = QueuedPaths
      BY <2>1 DEF EngineRunning, StackEntries, QueuedPaths
    <2>4. /\ Outstanding' = Outstanding
          /\ (Outstanding \cup IF EngineRunning THEN { active } ELSE {})'
                = (Outstanding \cup IF EngineRunning THEN { active } ELSE {})
      BY <2>1, <2>3 DEF Outstanding, EntriesOf
    <2>5. \A e, root, node : Claims(rows, e, root, node) => Claims(rows, e, root, node)'
      BY <2>1 DEF Claims, Disturbs, CanList
    <2>6. \A node : Records(rows, node) => Records(rows, node)'
      BY <2>1 DEF Records
    <2>7. Due(rows, undisturbed, Outstanding, job.phase = "pruning")'
      <3>1. ASSUME NEW root \in undisturbed', NEW node \in GetSubtree(rows', root),
                   rows'[node] # "done"
            PROVE  \/ job'.phase = "pruning" /\ Records(rows, node)'
                   \/ \E e \in Outstanding' : Claims(rows, e, root, node)'
        <4>1. root \in undisturbed /\ node \in GetSubtree(rows, root) /\ rows[node] # "done"
          BY <2>1, <3>1
        <4>2. \/ job.phase = "pruning" /\ Records(rows, node)
              \/ \E e \in Outstanding : Claims(rows, e, root, node)
          BY <4>1 DEF UndisturbedInv, Due
        <4> QED
          BY <2>1, <2>4, <2>5, <2>6, <4>2
      <3> QED
        BY <3>1 DEF Due
    <2>8. Rooted(rows, undisturbed, Outstanding)'
      <3>1. ASSUME NEW root \in undisturbed'
            PROVE  IF root \in disk' THEN rows'[root] # "none"
                   ELSE \E e \in Outstanding' : e.path = root
        <4>1. root \in undisturbed /\ (root \in disk' <=> root \in disk)
          BY <1>t, <2>1
        <4>2. IF root \in disk THEN rows[root] # "none"
              ELSE \E e \in Outstanding : e.path = root
          BY <4>1 DEF UndisturbedInv, Rooted
        <4> QED
          BY <2>1, <2>4, <4>1, <4>2
      <3> QED
        BY <3>1 DEF Rooted
    <2>9. Connected(rows, Outstanding \cup IF EngineRunning THEN { active } ELSE {})'
      <3> DEFINE held == Outstanding \cup IF EngineRunning THEN { active } ELSE {}
      <3>1. Connected(rows, held) /\ held' = held
        BY <2>4 DEF UndisturbedInv
      <3> HIDE DEF held
      <3>2. Connected(rows, held)'
        BY <2>1, <3>1 DEF Connected
      <3> QED
        BY <3>2 DEF held
    <2>10. PendingIsOwned'
      BY <2>1, <2>3 DEF UndisturbedInv, PendingIsOwned, Owned
    <2>11. stoppedRoots' = {} /\ (~EngineRunning /\ undisturbed # {} => stack = << >>)'
      BY <2>1, <2>3 DEF UndisturbedInv
    <2> QED
      BY <2>2, <2>7, <2>8, <2>9, <2>10, <2>11 DEF UndisturbedInv
  <1>5. CASE UNCHANGED vars
    <2>1. /\ StackEntries' = StackEntries /\ QueuedPaths' = QueuedPaths
          /\ Outstanding' = Outstanding /\ EngineRunning' = EngineRunning
      BY <1>5 DEF vars, StackEntries, QueuedPaths, Outstanding, EngineRunning, EntriesOf
    <2> QED
      BY <1>5, <2>1 DEF vars, UndisturbedInv, DiskClosed, Due, Rooted, Connected, PendingIsOwned,
                        Owned, Claims, Records, Disturbs, CanList
  <1>6. ListFails => UndisturbedInv'
    BY FailKeepsDue
  <1>7. ListSucceeds => UndisturbedInv'
    BY ListKeepsDue
  <1>8. \A path \in Path : CheckExists(path) => UndisturbedInv'
    BY CheckKeepsDue
  <1> QED
    BY <1>1, <1>2, <1>3, <1>4, <1>5, <1>6, <1>7, <1>8 DEF Next, Request, Step

\* Where nobody presses Stop and no directory comes back: whatever is denied,
\* unreadable, rejected, deleted or restarted, a row is pending only while the
\* engine is to visit it (or its own listing rejected), and a scan whose own
\* listings all succeed leaves its directory completed when the engine rests
\* (startScan's incremental mode takes up all that is outstanding).
THEOREM NoFaultLeavesAGap ==
    ASSUME StopRoots = {}, MayReturn = {}
    PROVE  Spec => []FaultsLeaveNoGap
  <1>1. TypeOK /\ JobShape /\ UndisturbedInv /\ [Next]_vars => UndisturbedInv'
    BY NextUndisturbedInv
  <1>2. TypeOK /\ JobShape /\ UndisturbedInv => FaultsLeaveNoGap
    <2> SUFFICES ASSUME TypeOK, JobShape, UndisturbedInv, ~EngineRunning, NEW root \in undisturbed
                 PROVE  Complete(root)
      BY DEF FaultsLeaveNoGap, UndisturbedScanCompletes, UndisturbedInv
    <2>1. stack = << >> /\ job.phase = "idle"
      BY JobValues DEF UndisturbedInv, JobShape
    <2>2. Outstanding = {}
      BY <2>1 DEF Outstanding, StackEntries
    <2>3. rows[root] # "none"
      BY <2>2 DEF UndisturbedInv, Rooted
    <2>4. \A node \in GetSubtree(rows, root) : rows[node] = "done"
      BY <2>1, <2>2 DEF UndisturbedInv, Due
    <2>5. root \in GetSubtree(rows, root)
      <3>1. root \in Path /\ root \in Seq(STRING) /\ root \in Lineage(root)
        BY PathFacts DEF TypeOK
      <3>2. \A above \in Lineage(root) : root \in Lineage(above) => above = root
        BY <3>1, LineageAntisymmetric
      <3> QED
        BY <2>3, <3>1, <3>2, SubtreeFacts
    <2> QED
      BY <2>3, <2>4, <2>5 DEF Complete, ViewState, ViewIncomplete
  <1> QED
    BY <1>1, <1>2, InitUndisturbedInv, TypeCorrect, PTL DEF Spec
=============================================================================
