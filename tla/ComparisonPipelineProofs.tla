---------------------- MODULE ComparisonPipelineProofs ----------------------
(***************************************************************************)
(* Proofs about ComparisonPipeline, for every tree and every set of pairs: *)
(* its types, that it implements a serial FIFO service, and that what Pass *)
(* 2 of an undisturbed comparison reads is whole and does not change.      *)
(***************************************************************************)
EXTENDS ComparisonPipeline, ScanEngineProofs

\* The sentinel is none of the pairs one can ask for.
LEMMA NoPairIsNoPair == NoPair \notin ComparePairs
  BY PathAssumption DEF NoPair, Pair

LEMMA PairInPath ==
    ASSUME NEW pair \in ComparePairs \cup StopPairs
    PROVE  RootsOf(pair) \subseteq Path
  BY PathAssumption DEF RootsOf

-----------------------------------------------------------------------------
(* Types *)

\* Beginning a pair queues its roots and leaves everything typed.
LEMMA BeginType ==
    ASSUME TypeOK, NEW pair \in ComparePairs, Begin(pair)
    PROVE  /\ stack' \in Seq(EntryOf(Path))
           /\ active' \in EntryOf(Path) \cup { Idle }
           /\ stoppedRoots' \in SUBSET Path
           /\ rows' \in [Path -> Outcome]
           /\ served' = pair /\ phase' = "listing"
           /\ quiet' \in BOOLEAN /\ undisturbed' \in BOOLEAN
  <1> DEFINE entries == IF pair.left = pair.right
                          THEN << Entry(pair.left, {}) >>
                          ELSE << Entry(pair.left, {}), Entry(pair.right, {}) >>
  <1>1. Entry(pair.left, {}) \in EntryOf(Path) /\ Entry(pair.right, {}) \in EntryOf(Path)
    BY PathAssumption DEF Entry, EntryOf
  <1>2. entries \in Seq(EntryOf(Path)) /\ entries # << >>
    BY <1>1
  <1>3. EngineEnqueueAll(entries) /\ rows' = UpsertPending(rows, RootsOf(pair))
    BY DEF Begin
  <1> HIDE DEF entries
  <1>4. stack \in Seq(EntryOf(Path)) /\ active \in EntryOf(Path) \cup { Idle }
    BY DEF TypeOK
  <1>5. Head(entries) \in EntryOf(Path) /\ Tail(entries) \in Seq(EntryOf(Path))
    BY <1>2
  <1>6. /\ stack' \in Seq(EntryOf(Path))
        /\ active' \in EntryOf(Path) \cup { Idle }
        /\ stoppedRoots' = stoppedRoots
    <2>1. CASE EngineRunning
      <3>1. stack' = stack \o entries /\ active' = active /\ stoppedRoots' = stoppedRoots
        BY <1>3, <2>1 DEF EngineEnqueueAll
      <3> QED
        BY <3>1, <1>2, <1>4
    <2>2. CASE ~EngineRunning
      <3>1. /\ stack' = stack \o Tail(entries) /\ active' = Head(entries)
            /\ stoppedRoots' = stoppedRoots
        BY <1>3, <2>2 DEF EngineEnqueueAll
      <3> QED
        BY <3>1, <1>4, <1>5
    <2> QED
      BY <2>1, <2>2
  <1>7. rows' \in [Path -> Outcome]
    BY <1>3 DEF UpsertPending, TypeOK, Outcome, OwnOutcome
  <1> QED
    BY <1>6, <1>7 DEF Begin, TypeOK

LEMMA InitType == Init => TypeOK
  <1> SUFFICES ASSUME Init PROVE TypeOK
    OBVIOUS
  <1>1. events \in 0..MaxEvents
    BY PathAssumption DEF Init
  <1> QED
    BY <1>1 DEF Init, EngineInit, TypeOK

LEMMA NextType == TypeOK /\ [Next]_vars => TypeOK'
  <1> SUFFICES ASSUME TypeOK, [Next]_vars PROVE TypeOK'
    OBVIOUS
  <1> DEFINE EngineTyped == /\ stack' \in Seq(EntryOf(Path))
                            /\ active' \in EntryOf(Path) \cup { Idle }
                            /\ stoppedRoots' \in SUBSET Path
             RepoTyped == /\ rows' \in [Path -> Outcome]
                          /\ disk' \in SUBSET Path
                          /\ events' \in 0..MaxEvents
             QueueTyped == /\ queue' \in Seq(ComparePairs)
                           /\ served' \in ComparePairs \cup { NoPair }
                           /\ phase' \in { "off", "listing", "comparing" }
                           /\ (served' = NoPair) <=> (phase' = "off")
                           /\ phase' = "off" => queue' = << >>
                           /\ quiet' \in BOOLEAN /\ undisturbed' \in BOOLEAN
  <1>0. ASSUME EngineTyped, RepoTyped, QueueTyped PROVE TypeOK'
    BY <1>0 DEF TypeOK, Outcome
  <1>t. /\ stack \in Seq(EntryOf(Path)) /\ active \in EntryOf(Path) \cup { Idle }
        /\ stoppedRoots \in SUBSET Path
        /\ rows \in [Path -> Outcome] /\ disk \in SUBSET Path
        /\ events \in 0..MaxEvents
    BY DEF TypeOK, Outcome
  <1>q. /\ queue \in Seq(ComparePairs) /\ served \in ComparePairs \cup { NoPair }
        /\ phase \in { "off", "listing", "comparing" }
        /\ (served = NoPair) <=> (phase = "off")
        /\ phase = "off" => queue = << >>
        /\ quiet \in BOOLEAN /\ undisturbed \in BOOLEAN
    BY DEF TypeOK
  <1>e. Event => events' \in 0..MaxEvents
    BY <1>t, PathAssumption DEF Event
  <1>1. ASSUME NEW pair \in ComparePairs, Compare(pair) PROVE TypeOK'
    <2>1. CASE phase = "off"
      <3>1. Begin(pair) /\ queue' = queue /\ Event /\ disk' = disk
        BY <1>1, <2>1 DEF Compare
      <3> QED
        BY <3>1, <1>e, <1>t, <1>q, <1>0, BeginType, NoPairIsNoPair
    <2>2. CASE phase # "off"
      <3>1. /\ queue' = Append(queue, pair) /\ Event /\ disk' = disk
            /\ UNCHANGED << engineVars, rows, served, phase, historyVars >>
        BY <1>1, <2>2 DEF Compare
      <3> QED
        BY <3>1, <2>2, <1>e, <1>t, <1>q, <1>0 DEF engineVars, historyVars
    <2> QED
      BY <2>1, <2>2
  <1>2. ASSUME NEW pair \in StopPairs, StopComparison(pair) PROVE TypeOK'
    <2>1. /\ EngineRequestStops(RootsOf(pair)) /\ Event /\ undisturbed' = FALSE
          /\ rows' = MarkStopped(rows, Pending(rows, pair))
          /\ UNCHANGED << disk, queueVars, quiet >>
      BY <1>2 DEF StopComparison
    <2>2. EngineTyped
      BY <2>1, <1>t, KeptQueueAll, PairInPath DEF EngineRequestStops
    <2>3. rows' \in [Path -> Outcome]
      BY <2>1, <1>t DEF MarkStopped, Outcome, OwnOutcome
    <2> QED
      BY <2>1, <2>2, <2>3, <1>e, <1>t, <1>q, <1>0 DEF queueVars
  <1>3. ASSUME Pass1Step PROVE TypeOK'
    <2>1. active \in EntryOf(Path) /\ active.path \in Path
      BY <1>3, <1>t DEF Pass1Step, ListFails, ListSucceeds, EngineRunning, EntryOf
    <2>2. ASSUME NEW kids \in SUBSET Path, EngineReturn(kids) PROVE EngineTyped
      <3>1. IsFiniteSet(Path) /\ Idle.path \notin Path
        BY PathAssumption
      <3> QED
        BY <2>1, <2>2, <3>1, <1>t, ReturnKeepsQueue
    <2>3. CASE ListFails
      <3>1. EngineTyped
        BY <2>2, <2>3 DEF ListFails
      <3>2. rows' \in [Path -> Outcome]
        BY <2>1, <2>3, <1>t, RowOperations DEF ListFails
      <3> QED
        BY <2>3, <3>1, <3>2, <1>t, <1>q, <1>0 DEF ListFails, queueVars
    <2>4. CASE ListSucceeds
      <3> DEFINE kids == ChildDirs(active.path)
                 gone == GetDirectChildren(rows, active.path) \ kids
                 listed == UpsertPending(DeleteDirectorySubtree(rows, gone), kids)
                 recorded == RecordOwnResult(listed, active.path, "done")
      <3>1. kids \in SUBSET Path
        BY <1>t DEF ChildDirs
      <3>2. /\ EngineReturn(kids)
            /\ rows' = MarkStopped(recorded, CutChildren(kids))
            /\ UNCHANGED << disk, events, queueVars, historyVars >>
        BY <2>4 DEF ListSucceeds
      <3>3. listed \in [Path -> Outcome]
        BY <1>t, <2>1, RowOperations
      <3>4. recorded \in [Path -> Outcome]
        BY <3>3, <2>1, RowOperations
      <3>5. rows' \in [Path -> Outcome]
        BY <3>2, <3>4, <2>1, RowOperations
      <3>6. EngineTyped
        BY <3>1, <3>2, <2>2
      <3> HIDE DEF kids, gone, listed, recorded
      <3> QED
        BY <3>2, <3>5, <3>6, <1>t, <1>q, <1>0 DEF queueVars, historyVars
    <2> QED
      BY <1>3, <2>3, <2>4 DEF Pass1Step
  <1>4. CASE SettlePoll
    BY <1>4, <1>t, <1>q, <1>0 DEF SettlePoll, engineVars, repoVars, historyVars
  <1>5. CASE Pass2Ends
    <2>1. CASE queue = << >>
      <3>1. /\ served' = NoPair /\ phase' = "off" /\ disk' = disk /\ events' = events
            /\ UNCHANGED << engineVars, rows, queue, historyVars >>
        BY <1>5, <2>1 DEF Pass2Ends
      <3> QED
        BY <2>1, <3>1, <1>t, <1>q, <1>0 DEF engineVars, historyVars
    <2>2. CASE queue # << >>
      <3>1. /\ Begin(Head(queue)) /\ queue' = Tail(queue)
            /\ disk' = disk /\ events' = events
        BY <1>5, <2>2 DEF Pass2Ends
      <3>2. Head(queue) \in ComparePairs /\ Tail(queue) \in Seq(ComparePairs)
        BY <2>2, <1>q
      <3> QED
        BY <3>1, <3>2, <1>t, <1>q, <1>0, BeginType, NoPairIsNoPair
    <2> QED
      BY <2>1, <2>2
  <1>6. CASE ListRejects
    BY <1>6, <1>t, <1>q, <1>0 DEF ListRejects, EngineThrow, repoVars, queueVars
  <1>7. CASE Restart
    <2>1. rows' \in [Path -> Outcome]
      BY <1>7, <1>t DEF Restart, MarkStopped, Outcome, OwnOutcome
    <2> QED
      BY <1>7, <2>1, <1>e, <1>t, <1>q, <1>0 DEF Restart, EngineLost, historyVars
  <1>8. ASSUME NEW path \in MayVanish, Vanish(path) PROVE TypeOK'
    BY <1>8, <1>e, <1>t, <1>q, <1>0 DEF Vanish, engineVars, queueVars
  <1>9. CASE UNCHANGED vars
    BY <1>9, <1>t, <1>q, <1>0 DEF vars, engineVars, repoVars, queueVars, historyVars
  <1> QED
    BY <1>1, <1>2, <1>3, <1>4, <1>5, <1>6, <1>7, <1>8, <1>9 DEF Next

\* Type correctness; with it, that the queue is empty and no pair is named
\* whenever the loop of the queue is not running.
THEOREM PipelineTypes == Spec => []TypeOK
  BY InitType, NextType, PTL DEF Spec

-----------------------------------------------------------------------------
(* The pipeline implements a serial service *)

LEMMA InitServes == Init => Service!Init
  BY DEF Init, Service!Init

LEMMA NextServes == TypeOK /\ [Next]_vars => [Service!Next]_(Service!vars)
  <1> SUFFICES ASSUME TypeOK, [Next]_vars PROVE [Service!Next]_(Service!vars)
    OBVIOUS
  <1>s. ASSUME UNCHANGED << queue, served >> PROVE [Service!Next]_(Service!vars)
    BY <1>s DEF Service!vars
  <1>t. /\ (served = NoPair) <=> (phase = "off")
        /\ phase = "off" => queue = << >>
    BY DEF TypeOK
  <1>1. ASSUME NEW pair \in ComparePairs, Compare(pair)
        PROVE  [Service!Next]_(Service!vars)
    <2>1. Service!Ask(pair)
      BY <1>1, <1>t DEF Compare, Begin, Service!Ask
    <2> QED
      BY <2>1 DEF Service!Next
  <1>2. CASE Pass2Ends
    <2>1. Service!Finish
      BY <1>2, <1>t DEF Pass2Ends, Begin, Service!Finish
    <2> QED
      BY <2>1 DEF Service!Next
  <1>3. CASE Restart
    <2>1. Service!Forget
      BY <1>3 DEF Restart, Service!Forget
    <2> QED
      BY <2>1 DEF Service!Next
  <1>4. ASSUME NEW pair \in StopPairs, StopComparison(pair)
        PROVE  [Service!Next]_(Service!vars)
    BY <1>4, <1>s DEF StopComparison, queueVars
  <1>5. CASE Pass1Step
    BY <1>5, <1>s DEF Pass1Step, ListFails, ListSucceeds, queueVars
  <1>6. CASE SettlePoll
    BY <1>6, <1>s DEF SettlePoll
  <1>7. CASE ListRejects
    BY <1>7, <1>s DEF ListRejects, queueVars
  <1>8. ASSUME NEW path \in MayVanish, Vanish(path)
        PROVE  [Service!Next]_(Service!vars)
    BY <1>8, <1>s DEF Vanish, queueVars
  <1>9. CASE UNCHANGED vars
    BY <1>9, <1>s DEF vars, queueVars
  <1> QED
    BY <1>1, <1>2, <1>3, <1>4, <1>5, <1>6, <1>7, <1>8, <1>9 DEF Next

\* ComparisonQueue serves one comparison at a time, in the order of the
\* requests, and drops none but in a restart, whatever Stop and Pass 1 do.
THEOREM PipelineServesInOrder == Spec => ServesInOrder
  <1>1. Init => Service!Init
    BY InitServes
  <1>2. TypeOK /\ [Next]_vars => [Service!Next]_(Service!vars)
    BY NextServes
  <1> QED
    BY <1>1, <1>2, PipelineTypes, PTL DEF Spec, ServesInOrder, Service!Spec

-----------------------------------------------------------------------------
(* Pass 1 of an undisturbed comparison lists its trees, and nothing else *)

InFlight == IF EngineRunning THEN { active.path } ELSE {}
Waiting == QueuedPaths \cup InFlight

\* A directory exists only in one that does.
DiskClosed == \A path \in disk : Lineage(path) \subseteq disk

\* What waits was reached from the pair that is served.
OwnWork == phase # "off" /\ quiet => \A path \in Waiting : Below(served, path)

\* All that waits is pending, in the view of the poll.
AllPending == Waiting \subseteq Pending(rows, served)

\* A directory that has not been listed is waiting, or one above it is.
AllReached ==
    \A path \in disk : Below(served, path) =>
        \/ rows[path] = "done"
        \/ \E above \in Waiting : IsWithinSubtree(path, above)

Listing ==
    /\ stoppedRoots = {}
    /\ EachOnce
    /\ AllPending
    /\ AllReached
    /\ ~EngineRunning => stack = << >>

InvUndisturbed ==
    phase # "off" /\ Undisturbed =>
        /\ Listing
        /\ phase = "comparing" => ~EngineRunning /\ FullyListed

PipelineInv == TypeOK /\ DiskClosed /\ OwnWork /\ InvUndisturbed

LEMMA PathsAreSequences ==
    ASSUME NEW path \in Path
    PROVE  /\ path \in Seq(STRING)
           /\ path \in Lineage(path)
           /\ Lineage(path) \subseteq Path
           /\ IsWithinSubtree(path, path)
  BY PathAssumption, LineageReflexive DEF IsWithinSubtree

LEMMA WithinTransitive ==
    ASSUME NEW path \in Path, NEW mid \in Path, NEW top \in Path,
           IsWithinSubtree(path, mid), IsWithinSubtree(mid, top)
    PROVE  IsWithinSubtree(path, top)
  BY PathsAreSequences, LineageTransitive DEF IsWithinSubtree

\* Of two directories above one, one lies in the other.
LEMMA WithinLinear ==
    ASSUME NEW path \in Path, NEW p \in Path, NEW q \in Path,
           IsWithinSubtree(path, p), IsWithinSubtree(path, q)
    PROVE  IsWithinSubtree(p, q) \/ IsWithinSubtree(q, p)
  <1>1. path \in Seq(STRING) /\ p \in Lineage(path) /\ q \in Lineage(path)
    BY PathsAreSequences DEF IsWithinSubtree
  <1>2. Len(p) \in Nat /\ Len(q) \in Nat
    BY <1>1, LineageTypes
  <1>3. CASE Len(q) <= Len(p)
    BY <1>1, <1>3, LineageLinear DEF IsWithinSubtree
  <1>4. CASE Len(p) <= Len(q)
    BY <1>1, <1>4, LineageLinear DEF IsWithinSubtree
  <1> QED
    BY <1>2, <1>3, <1>4

LEMMA WithinAntisymmetric ==
    ASSUME NEW p \in Path, NEW q \in Path,
           IsWithinSubtree(p, q), IsWithinSubtree(q, p)
    PROVE  p = q
  <1>1. /\ p \in Seq(STRING) /\ q \in Seq(STRING)
        /\ p \in Lineage(q) /\ q \in Lineage(p)
    BY PathsAreSequences DEF IsWithinSubtree
  <1>2. Len(p) \in 0..Len(q) /\ Len(q) \in 0..Len(p) /\ (Len(p) = Len(q) => p = q)
    BY <1>1, LineageTypes
  <1>3. Len(p) \in Nat /\ Len(q) \in Nat
    BY <1>1
  <1> QED
    BY <1>2, <1>3

\* A child lies in its parent, and whatever it lies in, it or its parent is.
LEMMA ChildWithin ==
    ASSUME NEW kid \in Path, kid # Root
    PROVE  /\ ParentPath(kid) \in Path
           /\ ParentPath(kid) # kid
           /\ IsWithinSubtree(kid, ParentPath(kid))
           /\ ~IsWithinSubtree(ParentPath(kid), kid)
           /\ \A top \in Path : IsWithinSubtree(kid, top) =>
                 kid = top \/ IsWithinSubtree(ParentPath(kid), top)
  <1>1. /\ kid \in Seq(STRING)
        /\ Lineage(kid) = { kid } \cup Lineage(ParentPath(kid))
        /\ ParentPath(kid) \in Seq(STRING)
        /\ Len(ParentPath(kid)) = Len(kid) - 1 /\ Len(kid) \in Nat
    BY PathsAreSequences, LineageOfChild
  <1>2. ParentPath(kid) \in Lineage(kid)
    BY <1>1, LineageReflexive
  <1>3. ParentPath(kid) \in Path
    BY <1>2, PathsAreSequences
  <1>4. kid \notin Lineage(ParentPath(kid))
    <2>1. SUFFICES ASSUME kid \in Lineage(ParentPath(kid)) PROVE FALSE
      OBVIOUS
    <2>2. Len(kid) \in 0..Len(ParentPath(kid))
      BY <2>1, <1>1, LineageTypes
    <2> QED
      BY <2>2, <1>1
  <1>5. ParentPath(kid) # kid
    BY <1>4, <1>1, LineageReflexive
  <1> QED
    BY <1>1, <1>2, <1>3, <1>4, <1>5 DEF IsWithinSubtree

\* Below a directory, the way down begins with one of its children.
LEMMA WayDown ==
    ASSUME NEW path \in Path, NEW top \in Path, IsWithinSubtree(path, top), path # top
    PROVE  \E kid \in Lineage(path) :
              kid \in Path /\ kid # Root /\ ParentPath(kid) = top
  <1>1. path \in Seq(STRING) /\ top \in Lineage(path)
    BY PathsAreSequences DEF IsWithinSubtree
  <1>2. /\ top \in Seq(STRING) /\ Len(top) \in 0..Len(path)
        /\ top = SubSeq(path, 1, Len(top)) /\ Len(top) # Len(path)
    BY <1>1, LineageTypes
  <1>3. PICK k \in 0..Len(path) : k = Len(top) + 1
    BY <1>2
  <1> DEFINE kid == SubSeq(path, 1, k)
  <1>4. kid \in Seq(STRING) /\ Len(kid) = k
    BY <1>1, PrefixOfPrefix
  <1>5. Len(top) \in 0..k
    BY <1>2, <1>3
  <1>6. SubSeq(kid, 1, Len(top)) = top
    BY <1>1, <1>2, <1>5, PrefixOfPrefix
  <1>7. Len(kid) - 1 = Len(top)
    BY <1>2, <1>3, <1>4
  <1>8. ParentPath(kid) = top
    BY <1>6, <1>7 DEF ParentPath
  <1>9. kid # Root
    BY <1>2, <1>3, <1>4 DEF Root
  <1>10. kid \in Lineage(path)
    BY DEF Lineage
  <1> QED
    BY <1>8, <1>9, <1>10, PathsAreSequences

\* What the poll still waits for: rows with a way down to them from a root.
LEMMA PendingIsReached ==
    ASSUME NEW table, NEW pair, NEW path
    PROVE  path \in Pending(table, pair) <=>
              /\ path \in Path /\ table[path] = "pending"
              /\ \E root \in RootsOf(pair) :
                    /\ IsWithinSubtree(path, root)
                    /\ \A above \in Lineage(path) :
                          IsWithinSubtree(above, root) =>
                             above \in Path /\ table[above] # "none"
  BY DEF Pending, RowsOf, GetSubtree, RowSubtree

\* On an engine at rest a comparison begins with its two roots, and them only.
LEMMA BeginAtRest ==
    ASSUME TypeOK, NEW pair \in ComparePairs, Begin(pair), quiet'
    PROVE  /\ EngineRunning' /\ active' = Entry(pair.left, {})
           /\ stoppedRoots' = {}
           /\ stack' = IF pair.left = pair.right THEN << >>
                                                  ELSE << Entry(pair.right, {}) >>
           /\ Waiting' = RootsOf(pair)
  <1>1. /\ ~EngineRunning /\ stack = << >> /\ stoppedRoots = {}
        /\ EngineEnqueueAll(IF pair.left = pair.right
                             THEN << Entry(pair.left, {}) >>
                             ELSE << Entry(pair.left, {}), Entry(pair.right, {}) >>)
    BY DEF Begin
  <1>2. pair.left # Idle.path
    BY PathAssumption
  <1>3. /\ active' = Entry(pair.left, {}) /\ stoppedRoots' = {}
        /\ stack' = IF pair.left = pair.right THEN << >>
                                               ELSE << Entry(pair.right, {}) >>
    <2>1. CASE pair.left = pair.right
      <3>1. EngineEnqueueAll(<< Entry(pair.left, {}) >>)
        BY <1>1, <2>1
      <3>2. /\ Tail(<< Entry(pair.left, {}) >>) = << >>
            /\ Head(<< Entry(pair.left, {}) >>) = Entry(pair.left, {})
        OBVIOUS
      <3>3. << >> \o << >> = << >>
        OBVIOUS
      <3> QED
        BY <1>1, <2>1, <3>1, <3>2, <3>3 DEF EngineEnqueueAll
    <2>2. CASE pair.left # pair.right
      <3>1. EngineEnqueueAll(<< Entry(pair.left, {}), Entry(pair.right, {}) >>)
        BY <1>1, <2>2
      <3>2. /\ Tail(<< Entry(pair.left, {}), Entry(pair.right, {}) >>) = << Entry(pair.right, {}) >>
            /\ Head(<< Entry(pair.left, {}), Entry(pair.right, {}) >>) = Entry(pair.left, {})
        OBVIOUS
      <3>3. << >> \o << Entry(pair.right, {}) >> = << Entry(pair.right, {}) >>
        OBVIOUS
      <3> QED
        BY <1>1, <2>2, <3>1, <3>2, <3>3 DEF EngineEnqueueAll
    <2> QED
      BY <2>1, <2>2
  <1>4. EngineRunning' /\ InFlight' = { pair.left }
    BY <1>2, <1>3 DEF EngineRunning, Entry, InFlight
  <1>5. QueuedPaths' = IF pair.left = pair.right THEN {} ELSE { pair.right }
    BY <1>3 DEF QueuedPaths, Entry
  <1> QED
    BY <1>3, <1>4, <1>5 DEF Waiting, RootsOf

LEMMA BeginIsClean ==
    ASSUME PipelineInv, NEW pair \in ComparePairs, Begin(pair)
    PROVE  OwnWork' /\ InvUndisturbed'
  <1>1. /\ served' = pair /\ phase' = "listing"
        /\ rows' = UpsertPending(rows, RootsOf(pair))
    BY DEF Begin
  <1>2. RootsOf(pair) \subseteq Path
    BY PairInPath
  <1>3. OwnWork'
    <2> SUFFICES ASSUME quiet', NEW path \in Waiting' PROVE Below(pair, path)
      BY <1>1 DEF OwnWork
    <2>1. path \in RootsOf(pair)
      BY BeginAtRest DEF PipelineInv
    <2> QED
      BY <2>1, <1>2, PathsAreSequences DEF Below
  <1>4. InvUndisturbed'
    <2> SUFFICES ASSUME quiet', SidesApart(pair) PROVE Listing'
      BY <1>1 DEF InvUndisturbed, Undisturbed
    <2>1. /\ EngineRunning' /\ active' = Entry(pair.left, {})
          /\ stoppedRoots' = {}
          /\ stack' = IF pair.left = pair.right THEN << >>
                                                 ELSE << Entry(pair.right, {}) >>
          /\ Waiting' = RootsOf(pair)
      BY BeginAtRest DEF PipelineInv
    <2>2. EachOnce'
      <3>1. CASE pair.left = pair.right
        BY <2>1, <3>1 DEF EachOnce
      <3>2. CASE pair.left # pair.right
        <4>1. stack' = << Entry(pair.right, {}) >> /\ Apart(pair.right, pair.left)
          BY <2>1, <3>2 DEF SidesApart, Apart
        <4>2. /\ DOMAIN stack' = { 1 } /\ stack'[1].path = pair.right
              /\ active'.path = pair.left
          BY <2>1, <4>1 DEF Entry
        <4> QED
          BY <4>1, <4>2 DEF EachOnce
      <3> QED
        BY <3>1, <3>2
    <2>3. AllPending'
      <3> SUFFICES ASSUME NEW root \in RootsOf(pair) PROVE root \in Pending(rows', pair)
        BY <1>1, <2>1 DEF AllPending
      <3>1. root \in Path /\ rows'[root] = "pending" /\ IsWithinSubtree(root, root)
        BY <1>1, <1>2, PathsAreSequences DEF UpsertPending
      <3>2. ASSUME NEW above \in Lineage(root), IsWithinSubtree(above, root)
            PROVE  above = root
        <4>1. above \in Path /\ IsWithinSubtree(root, above)
          BY <1>2, PathsAreSequences DEF IsWithinSubtree
        <4> QED
          BY <4>1, <3>2, <1>2, WithinAntisymmetric
      <3>3. \A above \in Lineage(root) : IsWithinSubtree(above, root) =>
               above \in Path /\ rows'[above] # "none"
        BY <3>1, <3>2
      <3> QED
        BY <3>1, <3>3, PendingIsReached
    <2>4. AllReached'
      BY <1>1, <2>1 DEF AllReached, Below
    <2> QED
      BY <2>1, <2>2, <2>3, <2>4 DEF Listing
  <1> QED
    BY <1>3, <1>4

\* A listing that succeeds leaves its children waiting in its place.
LEMMA ListingGoesOn ==
    ASSUME PipelineInv, phase = "listing", Undisturbed, ListSucceeds
    PROVE  Listing'
  <1> DEFINE top == active.path
             kids == ChildDirs(top)
             gone == GetDirectChildren(rows, top) \ kids
             listed == UpsertPending(DeleteDirectorySubtree(rows, gone), kids)
  <1>t. /\ stack \in Seq(EntryOf(Path)) /\ active \in EntryOf(Path) /\ top \in Path
        /\ top \in disk /\ disk \subseteq Path /\ kids \subseteq Path
        /\ rows \in [Path -> Outcome] /\ EngineRunning
        /\ stoppedRoots \in SUBSET Path
    <2>1. stack \in Seq(EntryOf(Path)) /\ active \in EntryOf(Path) \cup { Idle }
          /\ disk \subseteq Path /\ rows \in [Path -> Outcome] /\ stoppedRoots \in SUBSET Path
      BY DEF PipelineInv, TypeOK, Outcome
    <2>2. EngineRunning /\ top \in disk
      BY DEF ListSucceeds
    <2> QED
      BY <2>1, <2>2 DEF EngineRunning, EntryOf, ChildDirs
  <1>i. Listing
    BY DEF PipelineInv, InvUndisturbed
  <1>c. CutChildren(kids) = {} /\ ~StoppedInFlight
    BY <1>i DEF Listing, StoppedInFlight, CutChildren
  <1>1. /\ EngineReturn(kids)
        /\ rows' = MarkStopped(RecordOwnResult(listed, top, "done"), {})
        /\ disk' = disk /\ served' = served
    BY <1>c DEF ListSucceeds, queueVars
  <1>2. /\ \A kid \in kids : /\ kid \in disk /\ kid \in Path /\ kid # Root
                             /\ ParentPath(kid) = top
                             /\ IsWithinSubtree(kid, top) /\ kid # top
                             /\ \A q \in Path : IsWithinSubtree(kid, q) =>
                                   kid = q \/ IsWithinSubtree(top, q)
    BY <1>t, ChildWithin DEF ChildDirs
  <1>3. \A g \in gone : /\ g \in Path /\ IsWithinSubtree(g, top) /\ g # top
                        /\ g \notin disk
    BY <1>t, ChildWithin DEF GetDirectChildren, ChildDirs
  <1>q. /\ QueuedPaths \subseteq Path
        /\ \A q \in QueuedPaths : Apart(q, top)
        /\ Waiting = QueuedPaths \cup { top }
    <2>1. \A i \in DOMAIN stack : stack[i] \in EntryOf(Path)
      BY <1>t
    <2>2. QueuedPaths \subseteq Path
      BY <2>1 DEF QueuedPaths, EntryOf
    <2> QED
      BY <2>2, <1>i, <1>t DEF Listing, EachOnce, QueuedPaths, Waiting, InFlight
  <1>p. top \in Pending(rows, served) /\ QueuedPaths \subseteq Pending(rows, served)
    BY <1>i, <1>q DEF Listing, AllPending
  <1>w. Waiting' = QueuedPaths \cup kids
    <2>1. IsFiniteSet(Path) /\ Idle.path \notin Path
      BY PathAssumption
    <2>2. /\ QueuedPaths \subseteq QueuedPaths' \cup { active'.path }
          /\ kids \ CutChildren(kids) \subseteq QueuedPaths' \cup { active'.path }
          /\ QueuedPaths' \subseteq QueuedPaths \cup (kids \ CutChildren(kids))
          /\ active' # Idle => active'.path \in QueuedPaths \cup (kids \ CutChildren(kids))
          /\ active' = Idle => stack' = << >>
          /\ active' \in EntryOf(Path) \cup { Idle }
      BY <1>1, <1>t, <2>1, ReturnKeepsQueue
    <2>3. CASE active' = Idle
      <3>1. QueuedPaths' = {} /\ InFlight' = {}
        BY <2>2, <2>3 DEF QueuedPaths, InFlight, EngineRunning
      <3>2. QueuedPaths \cup kids \subseteq { Idle.path }
        BY <2>2, <2>3, <3>1, <1>c
      <3>3. QueuedPaths \cup kids = {}
        BY <3>2, <2>1, <1>q, <1>t
      <3> QED
        BY <3>1, <3>3 DEF Waiting
    <2>4. CASE active' # Idle
      <3>1. InFlight' = { active'.path }
        BY <2>4 DEF InFlight, EngineRunning
      <3> QED
        BY <2>2, <2>4, <3>1, <1>c DEF Waiting
    <2> QED
      BY <2>3, <2>4
  <1>s. ~EngineRunning' => stack' = << >>
    <2>1. IsFiniteSet(Path) /\ Idle.path \notin Path
      BY PathAssumption
    <2> QED
      BY <1>1, <1>t, <2>1, ReturnKeepsQueue DEF EngineRunning
  <1>k. stoppedRoots' = {}
    BY <1>1, <1>i DEF EngineReturn, Listing
  \* The table after the listing.
  <1>r. ASSUME NEW path \in Path
        PROVE  rows'[path] =
                  IF path = top THEN "done"
                  ELSE IF path \in kids THEN "pending"
                  ELSE IF \E g \in gone : IsWithinSubtree(path, g) THEN "none"
                  ELSE rows[path]
    <2>1. rows[top] = "pending"
      BY <1>p, PendingIsReached
    <2>2. \A g \in gone : ~IsWithinSubtree(top, g)
      BY <1>3, <1>t, WithinAntisymmetric
    <2>3. top \notin kids
      BY <1>2
    <2>4. /\ listed \in [Path -> Outcome]
          /\ listed[top] = "pending"
          /\ listed[path] = IF path \in kids THEN "pending"
                            ELSE IF \E g \in gone : IsWithinSubtree(path, g) THEN "none"
                            ELSE rows[path]
      <3>1. listed \in [Path -> Outcome]
        BY <1>t, RowOperations
      <3> QED
        BY <2>1, <2>2, <2>3, <3>1, <1>t DEF UpsertPending, DeleteDirectorySubtree
    <2> HIDE DEF listed, kids, gone
    <2>5. rows'[path] = RecordOwnResult(listed, top, "done")[path]
      BY <1>1 DEF MarkStopped
    <2> QED
      BY <2>4, <2>5, <1>t DEF RecordOwnResult
  <1> HIDE DEF kids, gone, listed, top
  <1>4. EachOnce'
    <2>1. ASSUME NEW q \in QueuedPaths, NEW kid \in kids PROVE Apart(q, kid)
      <3>1. q \in Path /\ Apart(q, top)
        BY <1>q
      <3>2. ~IsWithinSubtree(q, kid)
        BY <3>1, <1>2, <1>t, WithinTransitive DEF Apart
      <3>3. ~IsWithinSubtree(kid, q)
        BY <3>1, <1>2 DEF Apart
      <3> QED
        BY <3>2, <3>3 DEF Apart
    <2>2. ASSUME NEW k \in kids, NEW l \in kids, k # l PROVE Apart(k, l)
      <3>1. ~IsWithinSubtree(top, l) /\ ~IsWithinSubtree(top, k)
        BY <1>2, <1>t, WithinAntisymmetric
      <3> QED
        BY <2>2, <3>1, <1>2, <1>t DEF Apart
    <2>3. \A i, j \in DOMAIN stack : i # j => Apart(stack[i].path, stack[j].path)
      BY <1>i DEF Listing, EachOnce
    <2>4. \A i \in DOMAIN stack : \A k \in kids : Apart(stack[i].path, k)
      BY <2>1 DEF QueuedPaths
    <2>5. IsFiniteSet(Path)
      BY PathAssumption
    <2>6. \A k, l \in kids : k # l => Apart(k, l)
      BY <2>2
    <2> QED
      BY <2>3, <2>4, <2>5, <2>6, <1>1, <1>t, ReturnKeepsApart
  \* A way down that the deletions do not touch, and that top is not on or is.
  <1>5. ASSUME NEW path \in Path, ~(\E g \in gone : IsWithinSubtree(path, g)),
               NEW above \in Lineage(path), rows[above] # "none"
        PROVE  above \in Path /\ rows'[above] # "none"
    <2>1. above \in Path /\ IsWithinSubtree(path, above)
      BY PathsAreSequences DEF IsWithinSubtree
    <2>2. ~(\E g \in gone : IsWithinSubtree(above, g))
      BY <2>1, <1>5, <1>3, WithinTransitive
    <2> QED
      BY <2>1, <2>2, <1>5, <1>r
  <1>6. AllPending'
    <2>1. ASSUME NEW q \in QueuedPaths PROVE q \in Pending(rows', served)
      <3>1. /\ q \in Path /\ rows[q] = "pending"
            /\ Apart(q, top)
        BY <1>p, <1>q, PendingIsReached
      <3>2. PICK root \in RootsOf(served) :
                /\ IsWithinSubtree(q, root)
                /\ \A above \in Lineage(q) : IsWithinSubtree(above, root) =>
                      above \in Path /\ rows[above] # "none"
        BY <1>p, PendingIsReached
      <3>3. ~(\E g \in gone : IsWithinSubtree(q, g))
        BY <3>1, <1>3, <1>t, WithinTransitive DEF Apart
      <3>4. q # top
        BY <3>1, PathsAreSequences DEF Apart
      <3>5. rows'[q] = "pending"
        BY <3>1, <3>3, <3>4, <1>r
      <3>6. \A above \in Lineage(q) : IsWithinSubtree(above, root) =>
               above \in Path /\ rows'[above] # "none"
        BY <3>1, <3>2, <3>3, <1>5
      <3> QED
        BY <3>1, <3>2, <3>5, <3>6, PendingIsReached
    <2>2. ASSUME NEW kid \in kids PROVE kid \in Pending(rows', served)
      <3>1. PICK root \in RootsOf(served) :
                /\ IsWithinSubtree(top, root)
                /\ \A above \in Lineage(top) : IsWithinSubtree(above, root) =>
                      above \in Path /\ rows[above] # "none"
        BY <1>p, PendingIsReached
      <3>2. /\ kid \in Path /\ kid # Root /\ ParentPath(kid) = top
            /\ IsWithinSubtree(kid, top)
        BY <1>2
      <3>3. root \in Path
        BY <3>1, <1>t, PathsAreSequences DEF IsWithinSubtree
      <3>4. IsWithinSubtree(kid, root)
        BY <3>1, <3>2, <3>3, <1>t, WithinTransitive
      <3>5. rows'[kid] = "pending"
        BY <3>2, <1>r, <1>2
      <3>6. ~(\E g \in gone : IsWithinSubtree(top, g))
        BY <1>3, <1>t, WithinAntisymmetric
      <3>7. ASSUME NEW above \in Lineage(kid), IsWithinSubtree(above, root)
            PROVE  above \in Path /\ rows'[above] # "none"
        <4>1. CASE above = kid
          BY <4>1, <3>2, <3>5
        <4>2. CASE above # kid
          <5>1. kid \in Seq(STRING)
            BY <3>2, PathsAreSequences
          <5>2. above \in Lineage(top)
            BY <4>2, <3>2, <5>1, LineageOfChild
          <5>3. rows[above] # "none"
            BY <5>2, <3>1, <3>7
          <5> QED
            BY <5>2, <5>3, <3>6, <1>5, <1>t
        <4> QED
          BY <4>1, <4>2
      <3>8. \A above \in Lineage(kid) : IsWithinSubtree(above, root) =>
               above \in Path /\ rows'[above] # "none"
        BY <3>7
      <3> QED
        BY <3>2, <3>4, <3>5, <3>8, PendingIsReached
    <2> QED
      BY <2>1, <2>2, <1>w, <1>1 DEF AllPending
  <1>7. AllReached'
    <2> SUFFICES ASSUME NEW path \in disk, Below(served, path)
                 PROVE  \/ rows'[path] = "done"
                        \/ \E above \in QueuedPaths \cup kids : IsWithinSubtree(path, above)
      BY <1>1, <1>w DEF AllReached, Below
    <2>1. path \in Path
      BY <1>t
    <2>2. \/ rows[path] = "done"
          \/ \E above \in QueuedPaths : IsWithinSubtree(path, above)
          \/ IsWithinSubtree(path, top)
      BY <1>i, <1>q DEF Listing, AllReached
    <2>3. CASE rows[path] = "done"
      <3>1. ~(\E g \in gone : IsWithinSubtree(path, g))
        BY <1>3 DEF PipelineInv, DiskClosed, IsWithinSubtree
      <3>2. path \notin kids => rows'[path] = "done"
        BY <2>1, <2>3, <3>1, <1>r
      <3> QED
        BY <3>2, <2>1, PathsAreSequences
    <2>4. CASE \E above \in QueuedPaths : IsWithinSubtree(path, above)
      BY <2>4
    <2>5. CASE IsWithinSubtree(path, top)
      <3>1. CASE path = top
        BY <3>1, <2>1, <1>r
      <3>2. CASE path # top
        <4>1. PICK kid \in Lineage(path) : kid \in Path /\ kid # Root /\ ParentPath(kid) = top
          BY <2>1, <2>5, <3>2, <1>t, WayDown
        <4>2. kid \in disk
          BY DEF PipelineInv, DiskClosed
        <4>3. kid \in kids
          BY <4>1, <4>2 DEF kids, ChildDirs
        <4> QED
          BY <4>3 DEF IsWithinSubtree
      <3> QED
        BY <3>1, <3>2
    <2> QED
      BY <2>2, <2>3, <2>4, <2>5
  <1> QED
    BY <1>4, <1>6, <1>7, <1>k, <1>s DEF Listing

\* One turn of the loop leaves only what waited, and children of its entry.
LEMMA ReturnWaits ==
    ASSUME TypeOK, EngineRunning, NEW kids \in SUBSET Path, EngineReturn(kids)
    PROVE  Waiting' \subseteq QueuedPaths \cup kids
  <1>1. /\ IsFiniteSet(Path) /\ Idle.path \notin Path
        /\ stack \in Seq(EntryOf(Path)) /\ active \in EntryOf(Path)
        /\ stoppedRoots \in SUBSET Path
    BY PathAssumption DEF TypeOK, EngineRunning
  <1>2. /\ QueuedPaths' \subseteq QueuedPaths \cup (kids \ CutChildren(kids))
        /\ active' # Idle => active'.path \in QueuedPaths \cup (kids \ CutChildren(kids))
    BY <1>1, ReturnKeepsQueue
  <1> QED
    BY <1>2 DEF Waiting, InFlight, EngineRunning

LEMMA WaitingInPath ==
    ASSUME TypeOK
    PROVE  /\ Waiting \subseteq Path
           /\ EngineRunning => active.path \in Waiting
  <1>1. /\ \A i \in DOMAIN stack : stack[i] \in EntryOf(Path)
        /\ EngineRunning => active \in EntryOf(Path)
    BY DEF TypeOK, EngineRunning
  <1> QED
    BY <1>1 DEF Waiting, InFlight, QueuedPaths, EntryOf

LEMMA NextDiskClosed == PipelineInv /\ [Next]_vars => DiskClosed'
  <1> SUFFICES ASSUME PipelineInv, [Next]_vars PROVE DiskClosed'
    OBVIOUS
  <1>1. CASE disk' = disk
    BY <1>1 DEF PipelineInv, DiskClosed
  <1>2. ASSUME NEW path \in MayVanish, Vanish(path) PROVE DiskClosed'
    <2>1. /\ path \in Path /\ disk \subseteq Path
          /\ disk' = disk \ LexicalSubtree(Path, path)
      BY <1>2 DEF Vanish, PipelineInv, TypeOK
    <2> SUFFICES ASSUME NEW p \in disk', NEW above \in Lineage(p) PROVE above \in disk'
      BY DEF DiskClosed
    <2>2. p \in disk /\ p \in Path /\ ~IsWithinSubtree(p, path)
      BY <2>1 DEF LexicalSubtree
    <2>3. above \in disk /\ above \in Path /\ IsWithinSubtree(p, above)
      BY <2>1, <2>2 DEF PipelineInv, DiskClosed, IsWithinSubtree
    <2>4. ~IsWithinSubtree(above, path)
      BY <2>1, <2>2, <2>3, WithinTransitive
    <2> QED
      BY <2>1, <2>3, <2>4 DEF LexicalSubtree
  <1>3. CASE Next
    BY <1>1, <1>2, <1>3 DEF Next, Compare, StopComparison, Pass1Step, ListFails,
       ListSucceeds, SettlePoll, Pass2Ends, ListRejects, Restart, repoVars
  <1> QED
    BY <1>1, <1>3 DEF vars, repoVars

LEMMA NextOwnWork == PipelineInv /\ [Next]_vars => OwnWork'
  <1> SUFFICES ASSUME PipelineInv, [Next]_vars PROVE OwnWork'
    OBVIOUS
  <1>t. TypeOK /\ OwnWork
    BY DEF PipelineInv
  \* Nothing new waits, for the same pair.
  <1>s. ASSUME Waiting' \subseteq Waiting, UNCHANGED << served, phase, quiet >>
        PROVE  OwnWork'
    BY <1>s, <1>t DEF OwnWork, Below
  <1>u. ASSUME UNCHANGED << stack, active >> PROVE Waiting' = Waiting
    BY <1>u DEF Waiting, QueuedPaths, InFlight, EngineRunning
  <1>1. ASSUME NEW pair \in ComparePairs, Compare(pair) PROVE OwnWork'
    <2>1. CASE phase = "off"
      <3>1. Begin(pair)
        BY <1>1, <2>1 DEF Compare
      <3> QED
        BY <3>1, BeginIsClean
    <2>2. CASE phase # "off"
      BY <1>1, <2>2, <1>s, <1>u DEF Compare, engineVars, historyVars
    <2> QED
      BY <2>1, <2>2
  <1>2. ASSUME NEW pair \in StopPairs, StopComparison(pair) PROVE OwnWork'
    <2>1. EngineRequestStops(RootsOf(pair)) /\ UNCHANGED << served, phase, quiet >>
      BY <1>2 DEF StopComparison, queueVars
    <2>2. stack \in Seq(EntryOf(Path))
      BY <1>t DEF TypeOK
    <2>3. QueuedPaths' \subseteq QueuedPaths
      BY <2>1, <2>2, KeptQueueAll
    <2>4. active' = active
      BY <2>1 DEF EngineRequestStops
    <2>5. Waiting' \subseteq Waiting
      BY <2>3, <2>4 DEF Waiting, InFlight, EngineRunning
    <2> QED
      BY <2>1, <2>5, <1>s
  <1>3. CASE ListFails
    <2>1. EngineRunning /\ EngineReturn({}) /\ UNCHANGED << served, phase, quiet >>
      BY <1>3 DEF ListFails, queueVars
    <2>2. Waiting' \subseteq QueuedPaths
      BY <2>1, <1>t, ReturnWaits
    <2> QED
      BY <2>1, <2>2, <1>s DEF Waiting
  <1>4. CASE ListSucceeds
    <2> DEFINE kids == ChildDirs(active.path)
    <2>1. EngineRunning /\ EngineReturn(kids) /\ UNCHANGED << served, phase, quiet >>
      BY <1>4 DEF ListSucceeds, queueVars, historyVars
    <2>2. kids \in SUBSET Path
      BY <1>t DEF TypeOK, ChildDirs
    <2>3. Waiting' \subseteq QueuedPaths \cup kids
      BY <2>1, <2>2, <1>t, ReturnWaits
    <2> SUFFICES ASSUME phase # "off", quiet, NEW path \in QueuedPaths \cup kids
                 PROVE  Below(served, path)
      BY <2>1, <2>3 DEF OwnWork, Below
    <2>4. CASE path \in QueuedPaths
      BY <2>4, <1>t DEF OwnWork, Waiting
    <2>5. CASE path \in kids
      <3>1. /\ active.path \in Path /\ Below(served, active.path)
        BY <2>1, <1>t, WaitingInPath DEF OwnWork
      <3>2. path \in Path /\ path # Root /\ ParentPath(path) = active.path
        BY <2>5, <2>2 DEF ChildDirs
      <3>3. IsWithinSubtree(path, active.path)
        BY <3>2, ChildWithin
      <3>4. PICK root \in RootsOf(served) : IsWithinSubtree(active.path, root)
        BY <3>1 DEF Below
      <3>5. root \in Path
        BY <3>1, <3>4, PathsAreSequences DEF IsWithinSubtree
      <3> QED
        BY <3>1, <3>2, <3>3, <3>4, <3>5, WithinTransitive DEF Below
    <2> QED
      BY <2>4, <2>5
  <1>5. CASE SettlePoll
    <2>1. phase # "off" /\ UNCHANGED << stack, active, served, quiet >>
      BY <1>5 DEF SettlePoll, engineVars, historyVars
    <2> QED
      BY <2>1, <1>t, <1>u DEF OwnWork, Below
  <1>6. CASE Pass2Ends
    <2>1. CASE queue = << >>
      BY <1>6, <2>1 DEF Pass2Ends, OwnWork
    <2>2. CASE queue # << >>
      <3>1. Begin(Head(queue)) /\ Head(queue) \in ComparePairs
        BY <1>6, <2>2, <1>t DEF Pass2Ends, TypeOK
      <3> QED
        BY <3>1, BeginIsClean
    <2> QED
      BY <2>1, <2>2
  <1>7. CASE ListRejects
    <2>1. stack' = stack /\ active' = Idle /\ UNCHANGED << served, phase, quiet >>
      BY <1>7 DEF ListRejects, EngineThrow, queueVars
    <2>2. Waiting' \subseteq Waiting
      BY <2>1 DEF Waiting, QueuedPaths, InFlight, EngineRunning
    <2> QED
      BY <2>1, <2>2, <1>s
  <1>8. CASE Restart
    BY <1>8 DEF Restart, OwnWork
  <1>9. ASSUME NEW path \in MayVanish, Vanish(path) PROVE OwnWork'
    BY <1>9, <1>s, <1>u DEF Vanish, engineVars, queueVars
  <1>10. CASE UNCHANGED vars
    BY <1>10, <1>s, <1>u DEF vars, engineVars, queueVars, historyVars
  <1> QED
    BY <1>1, <1>2, <1>3, <1>4, <1>5, <1>6, <1>7, <1>8, <1>9, <1>10 DEF Next, Pass1Step

LEMMA NextUndisturbed == PipelineInv /\ [Next]_vars => InvUndisturbed'
  <1> SUFFICES ASSUME PipelineInv, [Next]_vars PROVE InvUndisturbed'
    OBVIOUS
  <1>t. TypeOK /\ InvUndisturbed
    BY DEF PipelineInv
  \* What the invariant speaks of stays, whatever else changes.
  <1>s. ASSUME UNCHANGED << engineVars, rows, disk, served, phase, historyVars >>
        PROVE  InvUndisturbed'
    BY <1>s, <1>t DEF InvUndisturbed, Undisturbed, Listing, EachOnce, AllPending,
       AllReached, FullyListed, Waiting, InFlight, QueuedPaths, EngineRunning,
       SidesApart, engineVars, historyVars, Below
  <1>d. ASSUME undisturbed' = FALSE PROVE InvUndisturbed'
    BY <1>d DEF InvUndisturbed, Undisturbed
  <1>1. ASSUME NEW pair \in ComparePairs, Compare(pair) PROVE InvUndisturbed'
    <2>1. CASE phase = "off"
      <3>1. Begin(pair)
        BY <1>1, <2>1 DEF Compare
      <3> QED
        BY <3>1, BeginIsClean
    <2>2. CASE phase # "off"
      BY <1>1, <2>2, <1>s DEF Compare
    <2> QED
      BY <2>1, <2>2
  <1>2. ASSUME NEW pair \in StopPairs, StopComparison(pair) PROVE InvUndisturbed'
    BY <1>2, <1>d DEF StopComparison
  <1>3. CASE ListFails
    BY <1>3, <1>d DEF ListFails
  <1>4. CASE ListSucceeds
    <2> SUFFICES ASSUME phase # "off", Undisturbed
                 PROVE  Listing' /\ phase = "listing"
      <3>1. UNCHANGED << served, phase, historyVars >>
        BY <1>4 DEF ListSucceeds, queueVars
      <3> QED
        BY <3>1 DEF InvUndisturbed, Undisturbed, SidesApart, historyVars
    <2>1. EngineRunning
      BY <1>4 DEF ListSucceeds
    <2>2. phase = "listing"
      BY <2>1, <1>t DEF InvUndisturbed, TypeOK
    <2> QED
      BY <2>2, <1>4, ListingGoesOn
  <1>5. CASE SettlePoll
    <2>1. /\ phase = "listing" /\ FullyListed /\ phase' = "comparing"
          /\ UNCHANGED << engineVars, rows, disk, served, historyVars >>
      BY <1>5 DEF SettlePoll, repoVars
    <2> SUFFICES ASSUME Undisturbed
                 PROVE  Listing' /\ ~EngineRunning' /\ FullyListed'
      BY <2>1 DEF InvUndisturbed, Undisturbed, SidesApart, historyVars
    <2>2. Listing
      BY <2>1, <1>t DEF InvUndisturbed
    <2>3. ~EngineRunning
      BY <2>1, <2>2, <1>t, WaitingInPath DEF Listing, AllPending, FullyListed
    <2> QED
      BY <2>1, <2>2, <2>3 DEF Listing, EachOnce, AllPending, AllReached, FullyListed,
         Waiting, InFlight, QueuedPaths, EngineRunning, engineVars, Below
  <1>6. CASE Pass2Ends
    <2>1. CASE queue = << >>
      BY <1>6, <2>1 DEF Pass2Ends, InvUndisturbed
    <2>2. CASE queue # << >>
      <3>1. Begin(Head(queue)) /\ Head(queue) \in ComparePairs
        BY <1>6, <2>2, <1>t DEF Pass2Ends, TypeOK
      <3> QED
        BY <3>1, BeginIsClean
    <2> QED
      BY <2>1, <2>2
  <1>7. CASE ListRejects
    BY <1>7, <1>d DEF ListRejects
  <1>8. CASE Restart
    BY <1>8 DEF Restart, InvUndisturbed
  <1>9. ASSUME NEW path \in MayVanish, Vanish(path) PROVE InvUndisturbed'
    BY <1>9, <1>d DEF Vanish
  <1>10. CASE UNCHANGED vars
    BY <1>10, <1>s DEF vars, repoVars, queueVars
  <1> QED
    BY <1>1, <1>2, <1>3, <1>4, <1>5, <1>6, <1>7, <1>8, <1>9, <1>10 DEF Next, Pass1Step

LEMMA InitPipelineInv == Init => PipelineInv
  <1> SUFFICES ASSUME Init PROVE PipelineInv
    OBVIOUS
  <1>1. DiskClosed
    BY PathAssumption DEF Init, DiskClosed
  <1> QED
    BY <1>1, InitType DEF Init, PipelineInv, OwnWork, InvUndisturbed

LEMMA NextPipelineInv == PipelineInv /\ [Next]_vars => PipelineInv'
  BY NextType, NextDiskClosed, NextOwnWork, NextUndisturbed DEF PipelineInv

LEMMA InvOnePair == PipelineInv => OnePairAtATime
  <1> SUFFICES ASSUME PipelineInv PROVE OnePairAtATime
    OBVIOUS
  <1>1. quiet => QueueBelongsToServed
    BY DEF PipelineInv, OwnWork, QueueBelongsToServed, Waiting
  <1>2. Pass2SeesWholeTree
    <2> SUFFICES ASSUME phase = "comparing", Undisturbed,
                        NEW path \in disk, Below(served, path)
                 PROVE  rows[path] = "done"
      BY DEF Pass2SeesWholeTree
    <2>1. Listing /\ ~EngineRunning
      BY DEF PipelineInv, InvUndisturbed
    <2>2. Waiting = {}
      BY <2>1 DEF Listing, Waiting, QueuedPaths, InFlight
    <2> QED
      BY <2>1, <2>2 DEF Listing, AllReached
  <1> QED
    BY <1>1, <1>2 DEF OnePairAtATime

\* While a pair that began on an engine at rest is served, all that Pass 1 has
\* queued lies below its roots; and when nothing disturbs Pass 1, Pass 2 finds
\* every directory of both sides listed. For every tree and set of pairs.
THEOREM OnePairAtATimeHolds == Spec => []OnePairAtATime
  BY InitPipelineInv, NextPipelineInv, InvOnePair, PTL DEF Spec

\* During Pass 2 the engine is at rest, so only a Stop could write a row, and
\* none of those that Pass 2 reads is pending.
LEMMA NextReadsStable ==
    PipelineInv /\ [Next]_vars =>
       (phase = "comparing" /\ phase' = "comparing" /\ Undisturbed =>
           Readable(rows', served) = Readable(rows, served))
  <1> SUFFICES ASSUME PipelineInv, [Next]_vars, phase = "comparing",
                      phase' = "comparing", Undisturbed
               PROVE  Readable(rows', served) = Readable(rows, served)
    OBVIOUS
  <1>t. TypeOK /\ ~EngineRunning /\ Pending(rows, served) = {}
    BY DEF PipelineInv, InvUndisturbed, FullyListed
  <1>s. CASE rows' = rows
    BY <1>s
  <1>1. ASSUME NEW pair \in StopPairs, StopComparison(pair)
        PROVE  Readable(rows', served) = Readable(rows, served)
    <2>1. rows' = MarkStopped(rows, Pending(rows, pair))
      BY <1>1 DEF StopComparison
    <2>2. rows \in [Path -> Outcome]
      BY <1>t DEF TypeOK, Outcome
    <2>3. \A path \in Path : (rows'[path] # "none") <=> (rows[path] # "none")
      BY <2>1, <2>2 DEF MarkStopped
    <2>4. RowsOf(rows', served) = RowsOf(rows, served)
      <3>1. { path \in Path : rows'[path] # "none" } = { path \in Path : rows[path] # "none" }
        BY <2>3
      <3> QED
        BY <3>1 DEF RowsOf, GetSubtree
    <2>5. ASSUME NEW path \in RowsOf(rows, served) PROVE rows'[path] = rows[path]
      <3>1. path \in Path
        BY GetSubtreeInPath DEF RowsOf
      <3>2. rows[path] # "pending"
        BY <1>t DEF Pending
      <3>3. path \notin Pending(rows, pair)
        BY <3>2 DEF Pending
      <3> QED
        BY <2>1, <3>1, <3>3 DEF MarkStopped
    <2> QED
      BY <2>4, <2>5 DEF Readable
  <1>2. ASSUME NEW pair \in ComparePairs, Compare(pair) PROVE rows' = rows
    BY <1>2 DEF Compare
  <1>3. ~Pass1Step /\ ~ListRejects
    BY <1>t DEF Pass1Step, ListFails, ListSucceeds, ListRejects, EngineThrow
  <1>4. ~Pass2Ends
    BY DEF Pass2Ends, Begin
  <1>5. ~Restart /\ ~SettlePoll
    BY DEF Restart, SettlePoll
  <1>6. ASSUME NEW path \in MayVanish, Vanish(path) PROVE rows' = rows
    BY <1>6 DEF Vanish
  <1>7. CASE UNCHANGED vars
    BY <1>7, <1>s DEF vars, repoVars
  <1> QED
    BY <1>s, <1>1, <1>2, <1>3, <1>4, <1>5, <1>6, <1>7 DEF Next

\* While Pass 2 of an undisturbed comparison runs, no row that it can read
\* changes, appears or goes.
THEOREM Pass2ReadsStableRowsHolds == Spec => Pass2ReadsStableRows
  <1>1. PipelineInv /\ [Next]_vars =>
           [phase = "comparing" /\ phase' = "comparing" /\ Undisturbed =>
               Readable(rows', served) = Readable(rows, served)]_vars
    BY NextReadsStable
  <1> QED
    BY <1>1, InitPipelineInv, NextPipelineInv, PTL DEF Spec, Pass2ReadsStableRows
=============================================================================
