-------------------------- MODULE ScanEngineProofs --------------------------
(***************************************************************************)
(* Facts about paths and about the engine's operators, for the proofs of   *)
(* every tool that runs on the engine.                                     *)
(***************************************************************************)
EXTENDS ScanEngine, ScanRows, FiniteSetTheorems, TLAPS

-----------------------------------------------------------------------------
(* Paths: the prefixes of a path are a chain, and a child adds one to     *)
(* those of its parent. (ComparePassStepsProofs, which has none of these  *)
(* variables, states the same.)                                           *)

LEMMA PrefixOfPrefix ==
    ASSUME NEW path \in Seq(STRING), NEW k \in 0..Len(path), NEW j \in 0..k
    PROVE  /\ SubSeq(path, 1, k) \in Seq(STRING)
           /\ Len(SubSeq(path, 1, k)) = k
           /\ SubSeq(SubSeq(path, 1, k), 1, j) = SubSeq(path, 1, j)
  OBVIOUS

LEMMA LineageTypes ==
    ASSUME NEW path \in Seq(STRING), NEW above \in Lineage(path)
    PROVE  /\ above \in Seq(STRING)
           /\ Len(above) \in 0..Len(path)
           /\ above = SubSeq(path, 1, Len(above))
           /\ Len(above) = Len(path) => above = path
  <1>1. PICK k \in 0..Len(path) : above = SubSeq(path, 1, k)
    BY DEF Lineage
  <1>2. above \in Seq(STRING) /\ Len(above) = k
    BY <1>1, PrefixOfPrefix
  <1>3. SubSeq(path, 1, Len(path)) = path
    OBVIOUS
  <1> QED
    BY <1>1, <1>2, <1>3

LEMMA LineageReflexive ==
    ASSUME NEW path \in Seq(STRING)
    PROVE  path \in Lineage(path)
  <1>1. SubSeq(path, 1, Len(path)) = path /\ Len(path) \in 0..Len(path)
    OBVIOUS
  <1> QED
    BY <1>1 DEF Lineage

LEMMA LineageTransitive ==
    ASSUME NEW path \in Seq(STRING), NEW mid \in Lineage(path), NEW top \in Lineage(mid)
    PROVE  top \in Lineage(path)
  <1>1. PICK k \in 0..Len(path) : mid = SubSeq(path, 1, k)
    BY DEF Lineage
  <1>2. Len(mid) = k
    BY <1>1, PrefixOfPrefix
  <1>3. PICK j \in 0..k : top = SubSeq(mid, 1, j)
    BY <1>2 DEF Lineage
  <1>4. top = SubSeq(path, 1, j)
    BY <1>1, <1>3, PrefixOfPrefix
  <1> QED
    BY <1>4 DEF Lineage

LEMMA LineageLinear ==
    ASSUME NEW path \in Seq(STRING), NEW p \in Lineage(path), NEW q \in Lineage(path),
           Len(q) <= Len(p)
    PROVE  q \in Lineage(p)
  <1>1. Len(p) \in 0..Len(path) /\ p = SubSeq(path, 1, Len(p))
    BY LineageTypes
  <1>2. Len(q) \in 0..Len(p) /\ q = SubSeq(path, 1, Len(q))
    BY LineageTypes
  <1>3. q = SubSeq(p, 1, Len(q))
    BY <1>1, <1>2, PrefixOfPrefix
  <1> QED
    BY <1>2, <1>3 DEF Lineage

LEMMA LineageAntisymmetric ==
    ASSUME NEW low \in Seq(STRING), NEW high \in Lineage(low), low \in Lineage(high)
    PROVE  low = high
  <1>1. high \in Seq(STRING) /\ Len(high) \in 0..Len(low)
    BY LineageTypes
  <1>2. Len(low) \in 0..Len(high)
    BY <1>1, LineageTypes
  <1>3. Len(high) = Len(low)
    BY <1>1, <1>2
  <1> QED
    BY <1>3, LineageTypes

LEMMA LineageOfChild ==
    ASSUME NEW path \in Seq(STRING), path # Root
    PROVE  /\ Lineage(path) = { path } \cup Lineage(ParentPath(path))
           /\ ParentPath(path) \in Seq(STRING)
           /\ Len(ParentPath(path)) = Len(path) - 1
           /\ Len(path) > 0
  <1>1. Len(path) > 0 /\ Len(path) - 1 \in 0..Len(path)
    BY DEF Root
  <1>2. PICK k \in 0..Len(path) : k = Len(path) - 1 /\ 0 \in 0..k
    BY <1>1
  <1>3. /\ ParentPath(path) = SubSeq(path, 1, k)
        /\ ParentPath(path) \in Seq(STRING) /\ Len(ParentPath(path)) = k
    BY <1>2, PrefixOfPrefix DEF ParentPath
  <1>4. SubSeq(path, 1, Len(path)) = path
    OBVIOUS
  <1>5. \A j \in 0..k : SubSeq(ParentPath(path), 1, j) = SubSeq(path, 1, j)
    BY <1>3, PrefixOfPrefix
  <1>6. 0..Len(path) = (0..k) \cup { Len(path) }
    BY <1>1, <1>2
  <1>7. Lineage(ParentPath(path)) = { SubSeq(path, 1, j) : j \in 0..k }
    BY <1>3, <1>5 DEF Lineage
  <1> QED
    BY <1>1, <1>2, <1>3, <1>4, <1>6, <1>7 DEF Lineage

-----------------------------------------------------------------------------
(* The engine *)

\* Mapping an ordering of a finite set gives a sequence with the same members.
LEMMA OrderingIsSequence ==
    ASSUME NEW S, IsFiniteSet(S), NEW s \in Orderings(S)
    PROVE  /\ Cardinality(S) \in Nat
           /\ DOMAIN s = 1..Cardinality(S)
           /\ \A i \in DOMAIN s : s[i] \in S
           /\ \A x \in S : \E i \in DOMAIN s : s[i] = x
  BY FS_CardinalityType DEF Orderings

\* What one turn of the loop leaves queued and in flight: all that was queued,
\* and the children unless the path was stopped; nothing else.
LEMMA ReturnKeepsQueue ==
    ASSUME NEW P, NEW kids \in SUBSET P, IsFiniteSet(P), Idle.path \notin P,
           stack \in Seq(EntryOf(P)), active \in EntryOf(P),
           stoppedRoots \in SUBSET P,
           EngineReturn(kids)
    PROVE  /\ stack' \in Seq(EntryOf(P))
           /\ active' \in EntryOf(P) \cup { Idle }
           /\ stoppedRoots' \in SUBSET P
           /\ QueuedPaths \subseteq QueuedPaths' \cup { active'.path }
           /\ kids \ CutChildren(kids) \subseteq QueuedPaths' \cup { active'.path }
           /\ QueuedPaths' \subseteq QueuedPaths \cup (kids \ CutChildren(kids))
           /\ active' # Idle => active'.path \in QueuedPaths \cup (kids \ CutChildren(kids))
           /\ active' = Idle => stack' = << >>
  <1> DEFINE added == IF StoppedInFlight THEN {} ELSE kids
  <1>1. added = kids \ CutChildren(kids) /\ added \subseteq P
    BY DEF CutChildren
  <1>2. IsFiniteSet(added)
    BY <1>1, FS_Subset
  <1> DEFINE tail(order) == [i \in DOMAIN order |-> Entry(order[i], active.done)]
             pushed(order) == stack \o tail(order)
  <1>3. PICK order \in Orderings(added) :
           IF pushed(order) = << >>
             THEN stack' = << >> /\ active' = Idle /\ stoppedRoots' = {}
             ELSE /\ stack' = SubSeq(pushed(order), 1, Len(pushed(order)) - 1)
                  /\ active' = pushed(order)[Len(pushed(order))]
                  /\ stoppedRoots' = stoppedRoots
    BY DEF EngineReturn
  <1> DEFINE t == tail(order)
             all == pushed(order)
             n == Cardinality(added)
  <1>4. /\ n \in Nat
        /\ DOMAIN order = 1..n
        /\ \A i \in 1..n : order[i] \in added
        /\ \A x \in added : \E i \in 1..n : order[i] = x
    BY <1>2, OrderingIsSequence
  <1>5. \A i \in 1..n : t[i] \in EntryOf(P) /\ t[i].path = order[i]
    BY <1>1, <1>4 DEF EntryOf, Entry
  <1>6. t \in Seq(EntryOf(P)) /\ Len(t) = n
    BY <1>4, <1>5
  <1>7. /\ all \in Seq(EntryOf(P))
        /\ Len(all) = Len(stack) + n
        /\ \A i \in 1..Len(stack) : all[i] = stack[i]
        /\ \A i \in 1..n : all[Len(stack) + i] = t[i]
    BY <1>4, <1>6
  <1> HIDE DEF t, all, n, added
  <1> DEFINE paths == { all[i].path : i \in 1..Len(all) }
  <1>8. QueuedPaths = { stack[i].path : i \in 1..Len(stack) }
    BY DEF QueuedPaths
  <1>9. paths = QueuedPaths \cup added
    <2>1. paths \subseteq QueuedPaths \cup added
      <3> SUFFICES ASSUME NEW i \in 1..Len(all) PROVE all[i].path \in QueuedPaths \cup added
        OBVIOUS
      <3>1. CASE i \in 1..Len(stack)
        BY <3>1, <1>7, <1>8
      <3>2. CASE i \notin 1..Len(stack)
        <4>1. PICK j \in 1..n : i = Len(stack) + j
          <5>1. i - Len(stack) \in 1..n /\ i = Len(stack) + (i - Len(stack))
            BY <3>2, <1>7, <1>4
          <5> QED
            BY <5>1
        <4> QED
          BY <4>1, <1>4, <1>5, <1>7
      <3> QED
        BY <3>1, <3>2
    <2>2. QueuedPaths \subseteq paths
      BY <1>4, <1>7, <1>8
    <2>3. added \subseteq paths
      <3> SUFFICES ASSUME NEW x \in added PROVE x \in paths
        OBVIOUS
      <3>1. PICK i \in 1..n : order[i] = x
        BY <1>4
      <3>2. Len(stack) + i \in 1..Len(all) /\ all[Len(stack) + i].path = x
        <4>1. all[Len(stack) + i] = t[i] /\ t[i].path = x
          BY <3>1, <1>5, <1>7
        <4>2. Len(stack) \in Nat /\ i \in 1..n /\ n \in Nat /\ Len(all) = Len(stack) + n
          BY <1>4, <1>7
        <4>3. Len(stack) + i \in 1..Len(all)
          BY <4>2
        <4> QED
          BY <4>1, <4>3
      <3> QED
        BY <3>2
    <2> QED
      BY <2>1, <2>2, <2>3
  <1>10. CASE all = << >>
    <2>1. paths = {}
      BY <1>10
    <2>2. stack' = << >> /\ active' = Idle /\ stoppedRoots' = {}
      BY <1>3, <1>10 DEF all
    <2>3. QueuedPaths' = {}
      BY <2>2 DEF QueuedPaths
    <2>4. QueuedPaths = {} /\ kids \ CutChildren(kids) = {}
      BY <1>1, <1>9, <2>1
    <2>5. stack' \in Seq(EntryOf(P))
      BY <2>2
    <2> QED
      BY <2>2, <2>3, <2>4, <2>5
  <1>11. CASE all # << >>
    <2>1. Len(all) \in Nat /\ Len(all) > 0
      BY <1>7, <1>11
    <2>2. /\ stack' = SubSeq(all, 1, Len(all) - 1)
          /\ active' = all[Len(all)]
          /\ stoppedRoots' = stoppedRoots
      BY <1>3, <1>11 DEF all
    <2>3. /\ stack' \in Seq(EntryOf(P)) /\ Len(stack') = Len(all) - 1
          /\ \A i \in 1..Len(stack') : stack'[i] = all[i]
      BY <1>7, <2>1, <2>2
    <2>4. active' \in EntryOf(P) /\ active'.path \in paths
      BY <1>7, <2>1, <2>2
    <2>5. QueuedPaths' = { all[i].path : i \in 1..(Len(all) - 1) }
      BY <2>1, <2>3 DEF QueuedPaths
    <2>6. paths = QueuedPaths' \cup { active'.path }
      BY <2>1, <2>2, <2>5
    <2>7. active' # Idle
      BY <2>4 DEF EntryOf
    <2>8. paths = QueuedPaths \cup (kids \ CutChildren(kids))
      BY <1>1, <1>9
    <2> HIDE DEF paths
    <2> QED
      BY <2>2, <2>3, <2>4, <2>6, <2>7, <2>8
  <1> QED
    BY <1>10, <1>11

\* requestStop keeps exactly the entries outside the stopped subtrees.
LEMMA KeptQueueAll ==
    ASSUME NEW P, stack \in Seq(EntryOf(P)), NEW roots, EngineRequestStops(roots)
    PROVE  /\ stack' \in Seq(EntryOf(P))
           /\ QueuedPaths' = { path \in QueuedPaths :
                                  \A root \in roots : ~IsInSubtree(path, root) }
  <1> DEFINE kept == { i \in DOMAIN stack :
                         \A root \in roots : ~IsInSubtree(stack[i].path, root) }
  <1>1. PICK position \in Orderings(kept) :
           stack' = [i \in DOMAIN position |-> stack[position[i]]]
    BY DEF EngineRequestStops
  <1>2. IsFiniteSet(kept)
    <2>1. DOMAIN stack = 1..Len(stack) /\ Len(stack) \in Nat
      OBVIOUS
    <2>2. IsFiniteSet(1..Len(stack))
      BY <2>1, FS_Interval
    <2> QED
      BY <2>1, <2>2, FS_Subset
  <1> DEFINE n == Cardinality(kept)
  <1>k. \A k \in kept : k \in DOMAIN stack
    OBVIOUS
  <1> HIDE DEF kept
  <1>3. /\ n \in Nat /\ DOMAIN position = 1..n
        /\ \A i \in 1..n : position[i] \in kept
        /\ \A k \in kept : \E i \in 1..n : position[i] = k
    BY <1>2, OrderingIsSequence
  <1>4. \A i \in DOMAIN stack : stack[i] \in EntryOf(P)
    OBVIOUS
  <1> HIDE DEF n
  <1>5. stack' \in Seq(EntryOf(P)) /\ DOMAIN stack' = 1..n
    BY <1>1, <1>3, <1>4, <1>k
  <1>6. QueuedPaths' = { stack[k].path : k \in kept }
    BY <1>1, <1>3, <1>5 DEF QueuedPaths
  <1> QED
    BY <1>5, <1>6 DEF QueuedPaths, kept

LEMMA KeptQueue ==
    ASSUME NEW P, stack \in Seq(EntryOf(P)), NEW root, EngineRequestStop(root)
    PROVE  /\ stack' \in Seq(EntryOf(P))
           /\ QueuedPaths' = { path \in QueuedPaths : ~IsInSubtree(path, root) }
  BY KeptQueueAll DEF EngineRequestStop

\* enqueue adds its entry to the queue, or takes it up when the loop is idle.
LEMMA EnqueueFacts ==
    ASSUME NEW P, stack \in Seq(EntryOf(P)), NEW entry \in EntryOf(P),
           EngineEnqueue(entry)
    PROVE  /\ stack' \in Seq(EntryOf(P))
           /\ QueuedPaths' \subseteq QueuedPaths \cup { entry.path }
           /\ QueuedPaths \subseteq QueuedPaths'
           /\ IF EngineRunning THEN active' = active /\ entry.path \in QueuedPaths'
                               ELSE active' = entry /\ stack' = stack
  <1>1. CASE EngineRunning
    <2>1. stack' = stack \o << entry >> /\ active' = active
      BY <1>1 DEF EngineEnqueue, EngineEnqueueAll
    <2>2. /\ stack' \in Seq(EntryOf(P)) /\ Len(stack') = Len(stack) + 1
          /\ \A i \in 1..Len(stack) : stack'[i] = stack[i]
          /\ stack'[Len(stack) + 1] = entry
      BY <2>1
    <2>3. DOMAIN stack' = 1..(Len(stack) + 1) /\ DOMAIN stack = 1..Len(stack)
      BY <2>2
    <2>4. QueuedPaths' = QueuedPaths \cup { entry.path }
      BY <2>2, <2>3 DEF QueuedPaths
    <2> QED
      BY <1>1, <2>1, <2>2, <2>4
  <1>2. CASE ~EngineRunning
    <2>1. stack' = stack \o Tail(<< entry >>) /\ active' = Head(<< entry >>)
      BY <1>2 DEF EngineEnqueue, EngineEnqueueAll
    <2>2. stack' = stack /\ active' = entry
      BY <2>1
    <2> QED
      BY <1>2, <2>2 DEF QueuedPaths
  <1> QED
    BY <1>1, <1>2

-----------------------------------------------------------------------------
(* What waits, waits once *)

\* Neither of two directories is the other or lies in it.
Apart(p, q) == ~IsWithinSubtree(p, q) /\ ~IsWithinSubtree(q, p)

\* No directory waits twice, nor does one that lies in another that waits.
EachOnce ==
    /\ \A i, j \in DOMAIN stack : i # j => Apart(stack[i].path, stack[j].path)
    /\ EngineRunning => \A i \in DOMAIN stack : Apart(stack[i].path, active.path)

\* An ordering of a finite set lists each element once.
LEMMA OrderingIsInjective ==
    ASSUME NEW S, IsFiniteSet(S), NEW s \in Orderings(S),
           NEW i \in DOMAIN s, NEW j \in DOMAIN s, s[i] = s[j]
    PROVE  i = j
  <1> DEFINE n == Cardinality(S)
  <1>1. n \in Nat /\ IsFiniteSet(1..n) /\ Cardinality(1..n) = n
    BY FS_CardinalityType, FS_Interval
  <1>2. s \in Surjection(1..n, S)
    BY DEF Orderings, Surjection
  <1>3. s \in Injection(1..n, S)
    BY <1>1, <1>2, FS_SurjSameCardinalityImpliesInj
  <1>4. DOMAIN s = 1..n
    BY DEF Orderings
  <1> QED
    BY <1>3, <1>4 DEF Injection, IsInjective

\* A turn of the loop pushes each child once: what is pushed are entries
\* that keep apart, if the children keep apart from what waits.
LEMMA ReturnKeepsApart ==
    ASSUME NEW P, NEW kids \in SUBSET P, IsFiniteSet(P),
           stack \in Seq(EntryOf(P)), active \in EntryOf(P),
           EngineReturn(kids),
           \A i, j \in DOMAIN stack : i # j => Apart(stack[i].path, stack[j].path),
           \A i \in DOMAIN stack : \A k \in kids : Apart(stack[i].path, k),
           \A k, m \in kids : k # m => Apart(k, m)
    PROVE  EachOnce'
  <1> DEFINE added == IF StoppedInFlight THEN {} ELSE kids
  <1>1. added \subseteq kids /\ added \subseteq P
    OBVIOUS
  <1>2. IsFiniteSet(added)
    BY <1>1, FS_Subset
  <1> DEFINE tail(order) == [i \in DOMAIN order |-> Entry(order[i], active.done)]
             pushed(order) == stack \o tail(order)
  <1>3. PICK order \in Orderings(added) :
           IF pushed(order) = << >>
             THEN stack' = << >> /\ active' = Idle /\ stoppedRoots' = {}
             ELSE /\ stack' = SubSeq(pushed(order), 1, Len(pushed(order)) - 1)
                  /\ active' = pushed(order)[Len(pushed(order))]
                  /\ stoppedRoots' = stoppedRoots
    BY DEF EngineReturn
  <1> DEFINE t == tail(order)
             all == pushed(order)
             n == Cardinality(added)
             m == Len(stack)
  <1>4. /\ n \in Nat
        /\ DOMAIN order = 1..n
        /\ \A i \in 1..n : order[i] \in added
    BY <1>2, OrderingIsSequence
  <1>inj. \A i, j \in 1..n : i # j => order[i] # order[j]
    BY <1>2, <1>4, OrderingIsInjective
  <1>5. \A i \in 1..n : t[i] \in EntryOf(P) /\ t[i].path = order[i]
    BY <1>1, <1>4 DEF EntryOf, Entry
  <1>6. t \in Seq(EntryOf(P)) /\ Len(t) = n
    BY <1>4, <1>5
  <1>7. /\ all \in Seq(EntryOf(P)) /\ m \in Nat
        /\ Len(all) = m + n
        /\ \A i \in 1..m : all[i] = stack[i]
        /\ \A i \in 1..n : all[m + i] = t[i]
    BY <1>4, <1>6
  <1>d. DOMAIN stack = 1..m
    OBVIOUS
  <1>e. /\ all = << >> => stack' = << >> /\ active' = Idle
        /\ all # << >> => /\ stack' = SubSeq(all, 1, Len(all) - 1)
                          /\ active' = all[Len(all)]
    BY <1>3
  <1> HIDE DEF t, all, n, added, m
  <1>8. ASSUME NEW i \in 1..Len(all)
        PROVE  \/ i \in 1..m /\ all[i] = stack[i]
               \/ \E k \in 1..n : i = m + k /\ all[i].path = order[k] /\ order[k] \in kids
    <2>1. CASE i \in 1..m
      BY <2>1, <1>7
    <2>2. CASE i \notin 1..m
      <3>1. i - m \in 1..n /\ i = m + (i - m)
        BY <2>2, <1>7, <1>4
      <3>2. all[i] = t[i - m] /\ t[i - m].path = order[i - m] /\ order[i - m] \in kids
        BY <3>1, <1>7, <1>5, <1>4, <1>1
      <3> QED
        BY <3>1, <3>2
    <2> QED
      BY <2>1, <2>2
  <1>9. ASSUME NEW i \in 1..Len(all), NEW j \in 1..Len(all), i # j
        PROVE  Apart(all[i].path, all[j].path)
    <2>1. CASE i \in 1..m /\ all[i] = stack[i]
      <3>1. CASE j \in 1..m /\ all[j] = stack[j]
        BY <2>1, <3>1, <1>9, <1>d
      <3>2. CASE \E k \in 1..n : j = m + k /\ all[j].path = order[k] /\ order[k] \in kids
        BY <2>1, <3>2, <1>d
      <3> QED
        BY <3>1, <3>2, <1>8
    <2>2. CASE \E k \in 1..n : i = m + k /\ all[i].path = order[k] /\ order[k] \in kids
      <3>1. CASE j \in 1..m /\ all[j] = stack[j]
        BY <2>2, <3>1, <1>d DEF Apart
      <3>2. CASE \E k \in 1..n : j = m + k /\ all[j].path = order[k] /\ order[k] \in kids
        <4>1. PICK k \in 1..n : i = m + k /\ all[i].path = order[k] /\ order[k] \in kids
          BY <2>2
        <4>2. PICK l \in 1..n : j = m + l /\ all[j].path = order[l] /\ order[l] \in kids
          BY <3>2
        <4>3. k # l
          BY <4>1, <4>2, <1>9
        <4> QED
          BY <4>1, <4>2, <4>3, <1>inj
      <3> QED
        BY <3>1, <3>2, <1>8
    <2> QED
      BY <2>1, <2>2, <1>8
  <1>10. CASE all = << >>
    BY <1>e, <1>10 DEF EachOnce, EngineRunning
  <1>11. CASE all # << >>
    <2>1. Len(all) \in Nat /\ Len(all) > 0
      BY <1>7, <1>11
    <2>2. stack' = SubSeq(all, 1, Len(all) - 1) /\ active' = all[Len(all)]
      BY <1>e, <1>11
    <2>3. /\ DOMAIN stack' = 1..(Len(all) - 1)
          /\ \A i \in DOMAIN stack' : stack'[i] = all[i] /\ i \in 1..Len(all) /\ i # Len(all)
      BY <1>7, <2>1, <2>2
    <2>4. Len(all) \in 1..Len(all)
      BY <2>1
    <2> QED
      BY <1>9, <2>2, <2>3, <2>4 DEF EachOnce
  <1> QED
    BY <1>10, <1>11

-----------------------------------------------------------------------------
(* The statements on the rows keep the table a table *)

Outcome == OwnOutcome \cup { "none" }

\* Every statement gives back a table of outcomes.
LEMMA RowOperations ==
    ASSUME NEW table \in [Path -> Outcome], NEW paths, NEW target \in Path,
           NEW result \in { "done", "partial", "error" }
    PROVE  /\ UpsertPending(table, paths) \in [Path -> Outcome]
           /\ MarkStopped(table, paths) \in [Path -> Outcome]
           /\ DeleteDirectorySubtree(table, paths) \in [Path -> Outcome]
           /\ RecordOwnResult(table, target, result) \in [Path -> Outcome]
  BY DEF UpsertPending, MarkStopped, DeleteDirectorySubtree, RecordOwnResult,
         Outcome, OwnOutcome

\* The row walk only returns paths of the table.
LEMMA GetSubtreeInPath ==
    ASSUME NEW table, NEW path
    PROVE  GetSubtree(table, path) \in SUBSET Path
  BY DEF GetSubtree, RowSubtree
=============================================================================
