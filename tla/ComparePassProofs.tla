-------------------------- MODULE ComparePassProofs --------------------------
(***************************************************************************)
(* Proofs about what ComparePass shows, for every tree, every content and  *)
(* every bound: that a full comparison nobody interferes with, and which   *)
(* meets no Stop still on the engine's mind, is shown as what is on disk,  *)
(* whatever happened before; that an incremental one is too, and that one  *)
(* which has nothing new to find reads no file, where no deletion, end of  *)
(* an ignore, Stop or restart spoils what is cached.                       *)
(***************************************************************************)
EXTENDS ComparePassStepsProofs

-----------------------------------------------------------------------------
(* What the rows say of files that have not changed *)

\* What exists has directories above it.
LEMMA AboveExists ==
    ASSUME TreesInv, NEW side \in Side, NEW path \in AllPaths, Holds(side, path),
           NEW above \in Lineage(path)
    PROVE  /\ above \in AllPaths /\ Holds(side, above)
           /\ above # path => above \in dirs[side]
  <1>0. path \in Seq(STRING) /\ Len(path) \in Nat
    BY PathFacts, LenProperties
  <1>a. \A a \in Lineage(path) : a \in AllPaths /\ Len(a) \in 0..Len(path)
    BY <1>0, LineageInDirs, LineageTypes
  <1> DEFINE Bad(a) == a # path /\ a \notin dirs[side]
             T == { Len(path) - Len(a) : a \in { q \in Lineage(path) : Bad(q) } }
  <1>1. T \subseteq Nat
    BY <1>0, <1>a
  <1>2. ASSUME T # {} PROVE FALSE
    <2>1. PICK n \in T : \A m \in T : n <= m
      BY <1>1, <1>2, LeastNatural
    <2>2. PICK a \in Lineage(path) : Bad(a) /\ n = Len(path) - Len(a)
      BY <2>1
    <2>3. PICK c \in Lineage(path) : c \in AllPaths \ { Root } /\ ParentPath(c) = a
      BY <2>2, ChildToward
    <2>4. Holds(side, c)
      <3>1. CASE c = path
        BY <3>1
      <3>2. CASE c # path
        <4>1. ASSUME c \notin dirs[side] PROVE FALSE
          <5>1. Len(path) - Len(c) \in T
            BY <3>2, <4>1
          <5>2. Len(c) = Len(a) + 1
            <6>1. c \in Seq(STRING) /\ c # Root
              BY <2>3, PathFacts
            <6>2. Len(a) = Len(c) - 1
              BY <2>3, <6>1, LineageOfChild
            <6> QED
              BY <1>a, <2>3, <6>2
          <5> HIDE DEF T
          <5>3. n <= Len(path) - Len(c)
            BY <2>1, <5>1
          <5> QED
            BY <1>0, <1>a, <2>2, <2>3, <5>2, <5>3
        <4> QED
          BY <4>1 DEF Holds
      <3> QED
        BY <3>1, <3>2
    <2>5. a \in dirs[side]
      BY <2>3, <2>4 DEF TreesInv
    <2> QED
      BY <2>2, <2>5
  <1>3. above # path => above \in dirs[side]
    BY <1>2
  <1> QED
    BY <1>a, <1>3 DEF Holds

\* What a row says of a file that has not changed since it was listed is so.
IsTrue(row, file) ==
    row.version = file.version /\ file # NoFile =>
        /\ row.size = SizeOf[file.content]
        /\ row.partial \in { 0, PartialOf[file.content] }
        /\ row.full \in { 0, file.content }

FactsTrue == \A side \in Side, file \in Files : IsTrue(facts[side][file], disk[side][file])

LEMMA FactsAfterChange ==
    ASSUME TInv, FactsTrue, facts' = facts, [Next]_vars
    PROVE  FactsTrue'
  <1>0. TreesInv
    BY DEF TInv
  <1>1. ASSUME NEW side \in Side, NEW file \in Files,
               \/ disk'[side][file] \in { disk[side][file], NoFile }
               \/ disk'[side][file].version # facts[side][file].version
        PROVE  IsTrue(facts[side][file], disk'[side][file])
    BY <1>1 DEF FactsTrue, IsTrue
  <1>2. \A side \in Side, file \in Files :
               \/ disk'[side][file] \in { disk[side][file], NoFile }
               \/ disk'[side][file].version # facts[side][file].version
    <2>1. CASE disk' = disk
      BY <2>1
    <2>2. ASSUME NEW s \in Side, NEW f \in MayEdit, Edit(s, f)
          PROVE  \A side \in Side, file \in Files :
                   \/ disk'[side][file] \in { disk[side][file], NoFile }
                   \/ disk'[side][file].version # facts[side][file].version
      <3>1. PICK content \in Content, version \in 1..3 :
               /\ version # facts[s][f].version
               /\ disk' = [disk EXCEPT ![s][f] = [content |-> content, version |-> version]]
        BY <2>2 DEF Edit
      <3> QED
        BY <1>0, <3>1 DEF TreesInv
    <2>3. ASSUME NEW s \in Side, NEW path \in MayDelete, Delete(s, path)
          PROVE  \A side \in Side, file \in Files : disk'[side][file] \in { disk[side][file], NoFile }
      <3>1. disk' = [disk EXCEPT ![s] = [file \in Files |->
                        IF IsWithinSubtree(file, path) THEN NoFile ELSE @[file]]]
        BY <2>3 DEF Delete
      <3> QED
        BY <1>0, <3>1 DEF TreesInv
    <2>4. \/ disk' = disk
          \/ \E side \in Side, file \in MayEdit : Edit(side, file)
          \/ \E side \in Side, path \in MayDelete : Delete(side, path)
      BY WorldSteps DEF worldVars, SetIgnored
    <2> QED
      BY <2>1, <2>2, <2>3, <2>4
  <1> QED
    BY <1>1, <1>2 DEF FactsTrue

LEMMA FactsNext == TInv /\ FactsTrue /\ [Next]_vars => FactsTrue'
  <1> SUFFICES ASSUME TInv, FactsTrue, [Next]_vars PROVE FactsTrue'
    OBVIOUS
  <1>0. /\ TreesInv /\ RowsInv /\ IsNest(frames) /\ PairInv
        /\ \A side \in Side, file \in Files : facts[side][file] \in FactRow
        /\ \A side \in Side, file \in Files : IsTrue(facts[side][file], disk[side][file])
    BY DEF TInv, RowsInv, FactsTrue
  <1>1. CASE facts' = facts
    BY <1>1, FactsAfterChange
  <1>2. ASSUME disk' = disk,
               \A side \in Side, file \in Files :
                   IsTrue(facts'[side][file], disk[side][file])
        PROVE  FactsTrue'
    BY <1>2 DEF FactsTrue
  <1>3. ASSUME NEW m \in Modes, Compare(m) PROVE FactsTrue'
    <2>1. /\ disk' = disk
          /\ \A side \in Side, file \in Files :
                LET old == facts[side][file]
                    new == facts'[side][file]
                IN  /\ new.size = old.size /\ new.version = old.version
                    /\ m = "full" => new.partial = 0 /\ new.full = 0
                    /\ m # "full" => new = old
      BY <1>0, <1>3, CompareRows DEF Compare, worldVars
    <2>2. \A side \in Side, file \in Files : IsTrue(facts'[side][file], disk[side][file])
      BY <1>0, <2>1 DEF IsTrue
    <2> QED
      BY <1>2, <2>1, <2>2
  <1>4. ASSUME NEW side \in Side, NEW dir \in Dirs, NEW hidden, ListChildren(side, dir, hidden),
               disk' = disk
        PROVE  FactsTrue'
    <2>1. /\ \A file \in Files : facts'[side][file] =
                IF file \in FilesSeen(side, dir, hidden)
                  THEN FileFacts(facts[side][file], disk[side][file])
                ELSE IF ParentPath(file) = dir \/ Forgotten(side, dir, file) THEN NoFacts
                ELSE facts[side][file]
          /\ \A s \in Side \ { side } : facts'[s] = facts[s]
      BY <1>0, <1>4, ListChildrenRows
    <2>2. ASSUME NEW file \in Files PROVE IsTrue(facts'[side][file], disk[side][file])
      <3>1. CASE file \in FilesSeen(side, dir, hidden)
        <4> DEFINE row == facts[side][file]
                   there == disk[side][file]
                   new == FileFacts(row, there)
        <4>1. there # NoFile /\ row \in FactRow /\ IsTrue(row, there) /\ facts'[side][file] = new
          BY <1>0, <2>1, <3>1 DEF FilesSeen
        <4>2. /\ new.version = there.version /\ new.size = SizeOf[there.content]
              /\ new = row \/ (new.partial = 0 /\ new.full = 0 /\ ~new.failed)
          BY <1>0, <4>1, ListedFacts
        <4> HIDE DEF new, row, there
        <4>3. IsTrue(new, there)
          BY <4>1, <4>2 DEF IsTrue
        <4> QED
          BY <4>1, <4>3 DEF there
      <3>2. CASE facts'[side][file] = NoFacts
        <4>1. disk[side][file] # NoFile => disk[side][file].version # 0
          BY <1>0 DEF TreesInv
        <4> QED
          BY <3>2, <4>1, NoFactsIsRow DEF IsTrue
      <3>3. CASE facts'[side][file] = facts[side][file]
        BY <1>0, <3>3
      <3> QED
        BY <2>1, <3>1, <3>2, <3>3
    <2>3. \A s \in Side, file \in Files : IsTrue(facts'[s][file], disk[s][file])
      BY <1>0, <2>1, <2>2
    <2> QED
      BY <1>2, <1>4, <2>3
  <1>5. CASE HashSucceeds
    <2>1. disk' = disk /\ at = "hash"
      BY <1>5 DEF HashSucceeds, worldVars
    <2> DEFINE content == disk[Reader][pair.file].content
               value == IF Stage = "partial" THEN PartialOf[content] ELSE content
    <2>2. \A side \in Side, file \in Files :
             LET old == facts[side][file]
                 new == facts'[side][file]
             IN  IF side = Reader /\ file = pair.file /\ old.version # 0
                 THEN /\ new.size = old.size /\ new.version = old.version
                      /\ new.partial = IF Stage = "partial" THEN value ELSE old.partial
                      /\ new.full = IF Stage = "full" THEN value ELSE old.full
                 ELSE new = old
      BY <1>0, <1>5, ReadRows
    <2>3. Stage \in { "partial", "full" }
      BY <1>0, <2>1, ReaderFacts
    <2>4. \A side \in Side, file \in Files : IsTrue(facts'[side][file], disk[side][file])
      <3> SUFFICES ASSUME NEW side \in Side, NEW file \in Files
                   PROVE  IsTrue(facts'[side][file], disk[side][file])
        OBVIOUS
      <3>1. CASE side = Reader /\ file = pair.file /\ facts[side][file].version # 0
        <4> DEFINE old == facts[side][file]
                   new == facts'[side][file]
        <4>1. /\ new.size = old.size /\ new.version = old.version
              /\ new.partial = IF Stage = "partial" THEN value ELSE old.partial
              /\ new.full = IF Stage = "full" THEN value ELSE old.full
              /\ IsTrue(old, disk[side][file])
          BY <1>0, <2>2, <3>1
        <4>2. content = disk[side][file].content
          BY <3>1
        <4> HIDE DEF old, new, content
        <4> QED
          BY <2>3, <4>1, <4>2 DEF IsTrue, new
      <3>2. CASE ~(side = Reader /\ file = pair.file /\ facts[side][file].version # 0)
        BY <1>0, <2>2, <3>2
      <3> QED
        BY <3>1, <3>2
    <2> QED
      BY <1>2, <2>1, <2>4
  <1>6. CASE HashFails
    <2>1. disk' = disk
      BY <1>6 DEF HashFails, worldVars
    <2>2. \A side \in Side, file \in Files :
             /\ facts'[side][file].size = facts[side][file].size
             /\ facts'[side][file].version = facts[side][file].version
             /\ facts'[side][file].partial = facts[side][file].partial
             /\ facts'[side][file].full = facts[side][file].full
      BY <1>0, <1>6, FailRows
    <2>3. \A side \in Side, file \in Files : IsTrue(facts'[side][file], disk[side][file])
      BY <1>0, <2>2 DEF IsTrue
    <2> QED
      BY <1>2, <2>1, <2>3
  <1>8. CASE FinishDir
    <2>1. disk' = disk /\ frames # << >>
      BY <1>8 DEF FinishDir, Loops, worldVars
    <2>2. \A side \in Side, file \in Files :
             facts'[side][file] \in { facts[side][file], UnreadFile(facts[side][file]) }
      BY <1>0, <1>8, <2>1, FinishRows
    <2>3. \A side \in Side, file \in Files : IsTrue(UnreadFile(facts[side][file]), disk[side][file])
      <3> SUFFICES ASSUME NEW side \in Side, NEW file \in Files
                   PROVE  IsTrue(UnreadFile(facts[side][file]), disk[side][file])
        OBVIOUS
      <3> DEFINE row == facts[side][file]
                 new == UnreadFile(row)
      <3>1. row \in FactRow /\ IsTrue(row, disk[side][file])
        BY <1>0
      <3> HIDE DEF row
      <3>2. /\ new.size = row.size /\ new.version = row.version
            /\ new.partial = row.partial /\ new.full = row.full
        BY <3>1 DEF UnreadFile, FactRow
      <3> HIDE DEF new
      <3>3. IsTrue(new, disk[side][file])
        BY <3>1, <3>2 DEF IsTrue
      <3> QED
        BY <3>3 DEF new, row
    <2>4. \A side \in Side, file \in Files : IsTrue(facts'[side][file], disk[side][file])
      BY <1>0, <2>2, <2>3
    <2> QED
      BY <1>2, <2>1, <2>4
  <1>7. \/ facts' = facts
        \/ \E m \in Modes : Compare(m)
        \/ \E side \in Side, dir \in Dirs : \E hidden : ListChildren(side, dir, hidden) /\ disk' = disk
        \/ HashSucceeds \/ HashFails \/ FinishDir
    <2>1. CASE Pass1
      BY <2>1 DEF Pass1, StartPass2, List, OnlyRecord, rowVars, worldVars
    <2>2. CASE Pass2
      BY <2>2 DEF Pass2, Enter, FinishDir, ReadNext, Cancel, PairDone, EndPass2, NextEntry, rowVars
    <2>3. CASE Environment
      BY <2>3 DEF Environment, Stop, Restart, Edit, Delete, SetIgnored, Changes, rowVars
    <2>4. CASE UNCHANGED vars
      BY <2>4 DEF vars, rowVars
    <2> QED
      BY <2>1, <2>2, <2>3, <2>4 DEF Next
  <1> QED
    BY <1>1, <1>3, <1>4, <1>5, <1>6, <1>7, <1>8

\* What holds of a path and passes to the directory above holds of them all.
LEMMA Upward ==
    ASSUME NEW path \in AllPaths, NEW S, path \in S,
           \A a \in Lineage(path) : a # Root /\ a \in S => ParentPath(a) \in S
    PROVE  Lineage(path) \subseteq S
  <1>0. path \in Seq(STRING) /\ Len(path) \in Nat
    BY PathFacts, LenProperties
  <1>a. \A a \in Lineage(path) : a \in AllPaths /\ Len(a) \in 0..Len(path)
    BY <1>0, LineageInDirs, LineageTypes
  <1> DEFINE T == { Len(path) - Len(a) : a \in { q \in Lineage(path) : q \notin S } }
  <1>1. T \subseteq Nat
    BY <1>0, <1>a
  <1>2. ASSUME T # {} PROVE FALSE
    <2>1. PICK n \in T : \A m \in T : n <= m
      BY <1>1, <1>2, LeastNatural
    <2>2. PICK a \in Lineage(path) : a \notin S /\ n = Len(path) - Len(a)
      BY <2>1
    <2>3. PICK c \in Lineage(path) : c \in AllPaths \ { Root } /\ ParentPath(c) = a
      BY <2>2, ChildToward
    <2>4. c \in S
      <3> SUFFICES ASSUME c \notin S PROVE FALSE
        OBVIOUS
      <3>1. Len(path) - Len(c) \in T
        OBVIOUS
      <3>2. Len(c) = Len(a) + 1
        <4>1. c \in Seq(STRING) /\ c # Root
          BY <2>3, PathFacts
        <4>2. Len(a) = Len(c) - 1
          BY <2>3, <4>1, LineageOfChild
        <4> QED
          BY <1>a, <2>3, <4>2
      <3> HIDE DEF T
      <3>3. n <= Len(path) - Len(c)
        BY <2>1, <3>1
      <3> QED
        BY <1>0, <1>a, <2>2, <2>3, <3>2, <3>3
    <2> QED
      BY <2>2, <2>3, <2>4
  <1> QED
    BY <1>2

\* What holds of a directory and passes to each one below holds on the way to a path.
LEMMA Downward ==
    ASSUME NEW path \in AllPaths, NEW dir \in Lineage(path), NEW S, dir \in S,
           \A a \in Lineage(path) :
               a # dir /\ IsWithinSubtree(a, dir) /\ ParentPath(a) \in S => a \in S
    PROVE  \A a \in Lineage(path) : IsWithinSubtree(a, dir) => a \in S
  <1>0. path \in Seq(STRING) /\ Len(path) \in Nat
    BY PathFacts, LenProperties
  <1>a. \A a \in Lineage(path) : a \in AllPaths /\ Len(a) \in 0..Len(path)
    BY <1>0, LineageInDirs, LineageTypes
  <1> DEFINE T == { Len(a) : a \in { q \in Lineage(path) : IsWithinSubtree(q, dir) /\ q \notin S } }
  <1>1. T \subseteq Nat
    BY <1>0, <1>a
  <1>2. ASSUME T # {} PROVE FALSE
    <2>1. PICK n \in T : \A m \in T : n <= m
      BY <1>1, <1>2, LeastNatural
    <2>2. PICK a \in Lineage(path) : IsWithinSubtree(a, dir) /\ a \notin S /\ n = Len(a)
      BY <2>1
    <2>3. a # dir /\ a \in AllPaths
      BY <1>a, <2>2
    <2>4. a # Root
      BY <2>2, <2>3, RootLineage DEF IsWithinSubtree
    <2> DEFINE p == ParentPath(a)
    <2>5. IsWithinSubtree(a, p) /\ IsWithinSubtree(p, dir)
      BY <2>2, <2>3, <2>4, ChildWithin
    <2>6. p \in Lineage(path)
      BY <2>2, <2>5, WithinTransitive DEF IsWithinSubtree
    <2>7. a \in Seq(STRING) /\ Len(p) = Len(a) - 1 /\ Len(a) > 0
      BY <2>3, <2>4, PathFacts, LineageOfChild
    <2> HIDE DEF p
    <2>8. p \in S
      <3> SUFFICES ASSUME p \notin S PROVE FALSE
        OBVIOUS
      <3>1. Len(p) \in T
        BY <2>5, <2>6
      <3> HIDE DEF T
      <3>2. n <= Len(p)
        BY <2>1, <3>1
      <3> QED
        BY <1>a, <2>2, <2>6, <2>7, <3>2
    <2> QED
      BY <2>2, <2>3, <2>8 DEF p
  <1> QED
    BY <1>2

-----------------------------------------------------------------------------
(* What the rows know *)

Known(side) == KnownDirs(side) \cup KnownFiles(side)

\* What is known lies in a directory that is known, and what is listed is known.
KnownClosed ==
    /\ \A side \in Side : \A path \in AllPaths \ { Root } :
          path \in Known(side) => ParentPath(path) \in KnownDirs(side)
    /\ \A side \in Side : \A dir \in dirs[side] :
          << side, dir >> \in leftover \/ dir \in toList[side] => dir \in KnownDirs(side)

LEMMA KnownAbove ==
    ASSUME KnownClosed, NEW side \in Side, NEW path \in AllPaths, path \in Known(side),
           NEW above \in Lineage(path), above # path
    PROVE  above \in KnownDirs(side)
  <1> DEFINE S == KnownDirs(side) \cup { path }
  <1>1. \A a \in Lineage(path) : a \in AllPaths
    BY LineageInDirs
  <1>2. \A a \in Lineage(path) : a # Root /\ a \in S => ParentPath(a) \in S
    BY <1>1 DEF KnownClosed, Known
  <1> HIDE DEF S
  <1>3. path \in S
    BY DEF S
  <1>4. Lineage(path) \subseteq S
    BY <1>2, <1>3, Upward
  <1> QED
    BY <1>4 DEF S

\* Only the children are added to what is to be listed.
LEMMA LoopAdds ==
    ASSUME ListInv, NEW side \in Side, NEW dir \in Dirs, NEW kids, LoopGoesOn(side, dir, kids)
    PROVE  \A s \in Side : \A d \in Dirs :
              << s, d >> \in leftover' \/ d \in toList'[s] =>
                  \/ << s, d >> \in leftover \/ d \in toList[s]
                  \/ s = side /\ d \in kids
  <1>1. CASE leftover = {}
    <2>1. /\ \A s \in Side : toList'[s] =
                IF s = side THEN (toList[s] \ { dir }) \cup (IF stopMark THEN {} ELSE kids)
                ELSE toList[s]
          /\ leftover' = {}
      BY <1>1, LoopLists
    <2>2. ASSUME NEW s \in Side, NEW d \in Dirs, d \in toList'[s]
          PROVE  d \in toList[s] \/ (s = side /\ d \in kids)
      BY <2>1, <2>2
    <2> QED
      BY <2>1, <2>2
  <1>2. CASE leftover # {}
    BY <1>2, LoopLeaves
  <1> QED
    BY <1>1, <1>2

LEMMA ClosedAfterListing ==
    ASSUME TInv, KnownClosed, NEW side \in Side, NEW dir \in Dirs, NEW hidden,
           InTurn(side, dir), dir \in dirs[side], UNCHANGED worldVars,
           ListChildren(side, dir, hidden)
    PROVE  KnownClosed'
  <1>0. TreesInv /\ RowsInv /\ ListInv /\ dir \in KnownDirs(side)
    BY DEF TInv, KnownClosed, InTurn
  <1>1. /\ \A d \in Dirs : node'[side][d] =
             IF d = dir THEN OwnResult(node[side][d], "done", hidden # {})
             ELSE IF d \in Kids(side, dir) THEN ChildRow(node[side][d])
             ELSE IF Forgotten(side, dir, d) THEN NoNode
             ELSE node[side][d]
        /\ \A file \in Files : facts'[side][file] =
             IF file \in FilesSeen(side, dir, hidden)
               THEN FileFacts(facts[side][file], disk[side][file])
             ELSE IF ParentPath(file) = dir \/ Forgotten(side, dir, file) THEN NoFacts
             ELSE facts[side][file]
        /\ \A s \in Side \ { side } : node'[s] = node[s] /\ facts'[s] = facts[s]
    BY <1>0, ListChildrenRows
  <1>2. ASSUME NEW s \in Side \ { side }, NEW path \in AllPaths \ { Root }, path \in Known(s)'
        PROVE  ParentPath(path) \in KnownDirs(s)'
    <2>1. Known(s)' = Known(s) /\ KnownDirs(s)' = KnownDirs(s)
      BY <1>1 DEF Known, KnownDirs, KnownFiles
    <2> QED
      BY <1>2, <2>1 DEF KnownClosed
  <1>3. dir \in KnownDirs(side)'
    <2>1. IsRow(node[side][dir]) /\ node[side][dir].outcome # "none"
      BY <1>0 DEF RowsInv, IsTable, KnownDirs
    <2> DEFINE row == node[side][dir]
               unreadable == hidden # {}
    <2> HIDE DEF row
    <2>2. IsRow(row) /\ row.outcome # "none" /\ unreadable \in BOOLEAN
      BY <2>1 DEF row
    <2>3. node'[side][dir] = OwnResult(row, "done", unreadable)
      BY <1>1 DEF row
    <2> HIDE DEF unreadable
    <2>4. OwnResult(row, "done", unreadable).outcome # "none"
      BY <2>2, OwnResultRow
    <2> QED
      BY <2>3, <2>4 DEF KnownDirs
  <1>4. \A d \in Kids(side, dir) : d \in KnownDirs(side)'
    <2> SUFFICES ASSUME NEW d \in Kids(side, dir), d # dir PROVE d \in KnownDirs(side)'
      BY <1>3
    <2>1. d \in Dirs
      BY <1>0 DEF Kids, ChildrenOf, TreesInv
    <2>2. node'[side][d] = ChildRow(node[side][d]) /\ IsRow(node[side][d])
      BY <1>0, <1>1, <2>1 DEF RowsInv, IsTable
    <2> DEFINE row == node[side][d]
    <2> HIDE DEF row
    <2>3. ChildRow(row).outcome # "none"
      BY <2>2, ListedRow DEF row
    <2> QED
      BY <2>1, <2>2, <2>3 DEF row, KnownDirs
  <1>5. \A path \in AllPaths : path \in Known(side)' =>
           \/ path = dir \/ (path # Root /\ ParentPath(path) = dir)
           \/ path \in Known(side) /\ ~Forgotten(side, dir, path)
    <2> SUFFICES ASSUME NEW path \in AllPaths, path \in Known(side)', path # dir,
                        path # Root => ParentPath(path) # dir
                 PROVE  path \in Known(side) /\ ~Forgotten(side, dir, path)
      OBVIOUS
    <2>1. CASE path \in KnownDirs(side)'
      <3>1. path \in Dirs /\ node'[side][path].outcome # "none"
        BY <2>1 DEF KnownDirs
      <3>2. path \notin Kids(side, dir)
        BY DEF Kids, ChildrenOf
      <3>3. ~Forgotten(side, dir, path) /\ node'[side][path] = node[side][path]
        BY <1>1, <3>1, <3>2, NoNodeIsRow
      <3> QED
        BY <3>1, <3>3 DEF Known, KnownDirs
    <2>2. CASE path \in KnownFiles(side)'
      <3>1. path \in Files /\ facts'[side][path].version # 0 /\ path # Root
        BY <2>2, PassAssumption DEF KnownFiles
      <3>2. path \notin FilesSeen(side, dir, hidden)
        BY DEF FilesSeen, ChildrenOf
      <3>3. ~Forgotten(side, dir, path) /\ facts'[side][path] = facts[side][path]
        BY <1>1, <3>1, <3>2, NoFactsIsRow
      <3> QED
        BY <3>1, <3>3 DEF Known, KnownFiles
    <2> QED
      BY <2>1, <2>2 DEF Known
  <1>6. ASSUME NEW path \in AllPaths \ { Root }, path \in Known(side)'
        PROVE  ParentPath(path) \in KnownDirs(side)'
    <2> DEFINE over == ParentPath(path)
    <2>1. over \in Dirs /\ IsWithinSubtree(path, over) /\ ~IsWithinSubtree(over, path)
      BY ChildWithin
    <2>2. CASE over = dir
      BY <1>3, <2>2
    <2>3. CASE over # dir /\ path # dir
      <3>1. path \in Known(side) /\ ~Forgotten(side, dir, path)
        BY <1>5, <1>6, <2>3
      <3>2. over \in KnownDirs(side)
        BY <3>1 DEF KnownClosed
      <3>3. ~Forgotten(side, dir, over)
        <4> SUFFICES ASSUME NEW top \in ChildrenOf(dir, KnownDirs(side)) \ Kids(side, dir),
                            IsWithinSubtree(over, top)
                     PROVE  FALSE
          BY DEF Forgotten
        <4>1. IsWithinSubtree(path, top)
          BY <2>1, WithinTransitive
        <4> QED
          BY <3>1, <4>1 DEF Forgotten
      <3>4. CASE over \in Kids(side, dir)
        BY <1>4, <3>4
      <3>5. CASE over \notin Kids(side, dir)
        <4>1. node'[side][over] = node[side][over]
          BY <1>1, <2>1, <2>3, <3>3, <3>5
        <4> QED
          BY <3>2, <4>1 DEF KnownDirs
      <3> QED
        BY <3>4, <3>5
    <2>4. CASE over # dir /\ path = dir
      <3>1. dir \in KnownDirs(side)
        BY <1>0
      <3>2. over \in KnownDirs(side)
        BY <2>4, <3>1 DEF KnownClosed, Known
      <3>3. ~Forgotten(side, dir, over) /\ over \notin Kids(side, dir)
        <4>1. ASSUME NEW top \in Dirs, top # Root, ParentPath(top) = dir,
                     IsWithinSubtree(over, top)
              PROVE  FALSE
          <5>1. top \in AllPaths
            BY DEF AllPaths
          <5>2. IsWithinSubtree(top, dir) /\ ~IsWithinSubtree(dir, top)
            BY <4>1, <5>1, ChildWithin
          <5>3. IsWithinSubtree(dir, top)
            BY <2>1, <2>4, <4>1, WithinTransitive
          <5> QED
            BY <5>2, <5>3
        <4>2. IsWithinSubtree(over, over)
          BY <2>1, PathFacts DEF AllPaths, IsWithinSubtree
        <4> QED
          BY <2>1, <4>1, <4>2 DEF Forgotten, Kids, ChildrenOf, KnownDirs
      <3>4. node'[side][over] = node[side][over]
        BY <1>1, <2>1, <2>4, <3>3
      <3> QED
        BY <3>2, <3>4 DEF KnownDirs
    <2> QED
      BY <2>2, <2>3, <2>4
  <1>7. \A s \in Side : \A d \in Dirs :
           << s, d >> \in leftover' \/ d \in toList'[s] =>
               \/ << s, d >> \in leftover \/ d \in toList[s]
               \/ s = side /\ d \in Kids(side, dir)
    <2>1. LoopGoesOn(side, dir, Kids(side, dir))
      BY DEF ListChildren, Kids
    <2> QED
      BY <1>0, <2>1, LoopAdds
  <1>8. ASSUME NEW s \in Side, NEW d \in dirs[s], << s, d >> \in leftover' \/ d \in toList'[s]
        PROVE  d \in KnownDirs(s)'
    <2>1. d \in Dirs /\ d \in AllPaths /\ Holds(s, d)
      BY <1>0 DEF TreesInv, AllPaths, Holds
    <2>2. CASE s = side /\ d \in Kids(side, dir)
      BY <1>4, <2>2
    <2>3. CASE ~(s = side /\ d \in Kids(side, dir))
      <3>1. d \in KnownDirs(s)
        BY <1>7, <1>8, <2>1, <2>3 DEF KnownClosed
      <3>2. CASE s # side
        BY <1>1, <2>1, <3>1, <3>2 DEF KnownDirs
      <3>3. CASE s = side /\ d # dir
        <4>1. ~Forgotten(side, dir, d)
          <5> SUFFICES ASSUME NEW top \in ChildrenOf(dir, KnownDirs(side)) \ Kids(side, dir),
                              IsWithinSubtree(d, top)
                       PROVE  FALSE
            BY DEF Forgotten
          <5>1. top \in Dirs /\ top # Root /\ ParentPath(top) = dir /\ top \in Lineage(d)
            BY DEF ChildrenOf, KnownDirs, IsWithinSubtree
          <5>2. Holds(side, top) /\ (top # d => top \in dirs[side])
            BY <1>0, <2>1, <3>3, <5>1, AboveExists
          <5> QED
            BY <3>3, <5>1, <5>2 DEF Kids, ChildrenOf
        <4> QED
          BY <1>1, <2>1, <2>3, <3>1, <3>3, <4>1 DEF KnownDirs
      <3>4. CASE s = side /\ d = dir
        BY <1>3, <3>4
      <3> QED
        BY <3>2, <3>3, <3>4
    <2> QED
      BY <2>2, <2>3
  <1>9. \A s \in Side : \A d \in dirs'[s] :
           << s, d >> \in leftover' \/ d \in toList'[s] => d \in KnownDirs(s)'
    BY <1>8 DEF worldVars
  <1> QED
    BY <1>2, <1>6, <1>9 DEF KnownClosed

LEMMA ClosedNext == TInv /\ KnownClosed /\ [Next]_vars => KnownClosed'
  <1> SUFFICES ASSUME TInv, KnownClosed, [Next]_vars PROVE KnownClosed'
    OBVIOUS
  <1>0. TreesInv /\ ListInv /\ toList \in [Side -> SUBSET Dirs]
    BY DEF TInv, ListInv
  <1> DEFINE Listed(side, dir) == << side, dir >> \in leftover \/ dir \in toList[side]
             NewListed(side, dir) == << side, dir >> \in leftover' \/ dir \in toList'[side]
  <1>a. \A side \in Side : dirs'[side] \subseteq dirs[side]
    <2>1. CASE dirs' = dirs
      BY <2>1
    <2>2. ASSUME NEW s \in Side, NEW path \in MayDelete, Delete(s, path)
          PROVE  \A side \in Side : dirs'[side] \subseteq dirs[side]
      <3>1. dirs' = [dirs EXCEPT ![s] = { dir \in @ : ~IsWithinSubtree(dir, path) }]
        BY <2>2 DEF Delete
      <3> QED
        BY <1>0, <3>1 DEF TreesInv
    <2> QED
      BY <2>1, <2>2, WorldSteps DEF worldVars, SetIgnored, Edit
  <1>1. ASSUME NEW m \in Modes, Compare(m) PROVE KnownClosed'
    <2>1. \A side \in Side : /\ KnownDirs(side)' = KnownDirs(side) \cup { Root }
                             /\ KnownFiles(side)' = KnownFiles(side)
      <3>1. RowsInv /\ Root \in Dirs
        BY PassAssumption DEF TInv
      <3>2. /\ \A side \in Side, dir \in Dirs : node'[side][dir].outcome =
                  IF dir = Root THEN "pending" ELSE node[side][dir].outcome
            /\ \A side \in Side, file \in Files :
                  facts'[side][file].version = facts[side][file].version
        BY <1>1, <3>1, CompareRows
      <3> QED
        BY <3>1, <3>2 DEF KnownDirs, KnownFiles
    <2>2. leftover' = leftover /\ \A side \in Side : toList'[side] = { Root }
      BY <1>1 DEF Compare
    <2> QED
      BY <1>a, <2>1, <2>2 DEF KnownClosed, Known
  <1>2. ASSUME \A side \in Side : KnownDirs(side)' = KnownDirs(side) /\ KnownFiles(side)' = KnownFiles(side),
               \A side \in Side, dir \in Dirs : NewListed(side, dir) => Listed(side, dir)
        PROVE  KnownClosed'
    <2>1. \A side \in Side : dirs[side] \subseteq Dirs
      BY <1>0 DEF TreesInv
    <2> QED
      BY <1>2, <1>a, <2>1 DEF KnownClosed, Known
  <1>3. \/ \E m \in Modes : Compare(m)
        \/ \E side \in Side, dir \in Dirs : List(side, dir)
        \/ \A side \in Side, dir \in Dirs : NewListed(side, dir) => Listed(side, dir)
    <2>1. \A side \in Side, dir \in Dirs :
             << side, dir >> \in Entries(toList) => dir \in toList[side]
      BY DEF Entries
    <2>2. CASE engineVars' = engineVars
      BY <2>2 DEF engineVars
    <2>3. CASE StartPass2
      BY <2>1, <2>3 DEF StartPass2, NothingToList
    <2>4. CASE Stop
      BY <2>1, <2>4 DEF Stop, NothingToList
    <2>5. CASE Restart
      BY <2>5 DEF Restart, NothingToList
    <2>6. CASE Pass2
      BY <2>2, <2>6 DEF Pass2, Enter, ReadNext, HashSucceeds, HashFails, Cancel, PairDone,
         FinishDir, EndPass2, NextEntry
    <2>7. CASE Changes
      BY <2>2, <2>7 DEF Changes, passVars
    <2>8. CASE UNCHANGED vars
      BY <2>2, <2>8 DEF vars, passVars
    <2> QED
      BY <2>3, <2>4, <2>5, <2>6, <2>7, <2>8
      DEF Next, Pass1, Environment, Edit, Delete, SetIgnored
  <1>4. ASSUME NEW side \in Side, NEW dir \in Dirs, NEW outcome \in { "done", "error" },
               OnlyRecord(side, dir, outcome)
        PROVE  \A s \in Side, d \in Dirs : NewListed(s, d) => Listed(s, d)
    <2>1. LoopGoesOn(side, dir, {})
      BY <1>4 DEF OnlyRecord
    <2> QED
      BY <1>0, <2>1, LoopAdds
  <1>5. \/ \E m \in Modes : Compare(m)
        \/ \E side \in Side, dir \in Dirs : \E hidden :
              /\ InTurn(side, dir) /\ dir \in dirs[side] /\ UNCHANGED worldVars
              /\ ListChildren(side, dir, hidden)
        \/ \A side \in Side, dir \in Dirs : NewListed(side, dir) => Listed(side, dir)
    <2>1. ASSUME NEW side \in Side, NEW dir \in Dirs, List(side, dir)
          PROVE  \/ \A s \in Side, d \in Dirs : NewListed(s, d) => Listed(s, d)
                 \/ /\ InTurn(side, dir) /\ dir \in dirs[side] /\ UNCHANGED worldVars
                    /\ \E hidden : ListChildren(side, dir, hidden)
      <3> HIDE DEF Listed, NewListed
      <3>1. \/ \E outcome \in { "done", "error" } : OnlyRecord(side, dir, outcome)
            \/ /\ InTurn(side, dir) /\ dir \in dirs[side] /\ UNCHANGED worldVars
               /\ \E hidden : ListChildren(side, dir, hidden)
        BY <2>1 DEF List
      <3> QED
        BY <1>4, <3>1
    <2> HIDE DEF Listed, NewListed
    <2> QED
      BY <1>3, <2>1
  <1> HIDE DEF Listed, NewListed
  <1>6. \/ \A side \in Side : KnownDirs(side)' = KnownDirs(side) /\ KnownFiles(side)' = KnownFiles(side)
        \/ \E m \in Modes : Compare(m)
        \/ \E side \in Side, dir \in Dirs : \E hidden :
              /\ InTurn(side, dir) /\ dir \in dirs[side] /\ UNCHANGED worldVars
              /\ ListChildren(side, dir, hidden)
    BY KnownSteps
  <1> QED
    BY <1>1, <1>2, <1>5, <1>6, ClosedAfterListing

-----------------------------------------------------------------------------
(* What is there, and what is left out *)

LEMMA HoldsAbove ==
    ASSUME TreesInv, NEW side \in Side, NEW path \in AllPaths \ { Root }, Holds(side, path)
    PROVE  ParentPath(path) \in dirs[side]
  BY DEF Holds, TreesInv

NotOut(path) == \A above \in Lineage(path) : ~LeftOut(above)

\* Pass 1 is to list a directory of one side.
Visited(side, dir) == dir \in dirs[side] /\ \A above \in Lineage(dir) : << side, above >> \notin ignored

LEMMA NotOutAbove ==
    ASSUME NEW path \in AllPaths, NotOut(path), NEW above \in Lineage(path)
    PROVE  NotOut(above)
  BY WithinTransitive DEF NotOut, IsWithinSubtree

LEMMA NotOutBelow ==
    ASSUME NEW path \in AllPaths \ { Root }
    PROVE  NotOut(path) <=> NotOut(ParentPath(path)) /\ ~LeftOut(path)
  BY PathFacts DEF NotOut

\* What is there and not left out is in a directory Pass 1 lists.
LEMMA VisitedThere ==
    ASSUME TreesInv, NEW side \in Side, NEW path \in AllPaths, Holds(side, path), NotOut(path)
    PROVE  /\ \A above \in Lineage(path) : << side, above >> \notin ignored
           /\ path \in dirs[side] => Visited(side, path)
  <1>1. \A above \in Lineage(path) : Holds(side, above)
    BY AboveExists
  <1>2. \A above \in Lineage(path) : << side, above >> \notin ignored
    BY <1>1 DEF NotOut, LeftOut
  <1> QED
    BY <1>2 DEF Visited

LEMMA CommonFacts ==
    ASSUME TreesInv, NEW dir
    PROVE  /\ dir \in CommonDirs <=> dir \in dirs["left"] \cap dirs["right"] /\ NotOut(dir)
           /\ dir \in CommonDirs => /\ dir \in Dirs /\ dir \in AllPaths /\ Root \in CommonDirs
                                    /\ \A side \in Side : dir \in dirs[side] /\ Visited(side, dir)
                                    /\ \A above \in Lineage(dir) : above \in CommonDirs
  <1>0. dirs["left"] \subseteq Dirs /\ dirs["right"] \subseteq Dirs
    BY DEF TreesInv, Side
  <1>1. dir \in CommonDirs <=> dir \in dirs["left"] \cap dirs["right"] /\ NotOut(dir)
    <2> SUFFICES ASSUME dir \in dirs["left"] \cap dirs["right"]
                 PROVE  ~LeftOut(Root) /\ Shown(dir, Root) <=> NotOut(dir)
      BY DEF CommonDirs
    <2>1. dir \in AllPaths
      BY <1>0 DEF AllPaths
    <2>2. \A above \in Lineage(dir) : IsWithinSubtree(above, Root)
      BY <2>1, LineageInDirs, WithinRoot
    <2>3. IsWithinSubtree(dir, Root) /\ Root \in Lineage(dir)
      BY <2>1, WithinRoot DEF IsWithinSubtree
    <2> QED
      BY <2>2, <2>3 DEF Shown, NotOut
  <1> SUFFICES ASSUME dir \in dirs["left"] \cap dirs["right"], NotOut(dir)
               PROVE  /\ dir \in Dirs /\ dir \in AllPaths /\ Root \in CommonDirs
                      /\ \A side \in Side : dir \in dirs[side] /\ Visited(side, dir)
                      /\ \A above \in Lineage(dir) : above \in CommonDirs
    BY <1>1
  <1>2. dir \in Dirs /\ dir \in AllPaths
    BY <1>0 DEF AllPaths
  <1>3. \A side \in Side : dir \in dirs[side] /\ Holds(side, dir)
    BY DEF Side, Holds
  <1>4. \A side \in Side : Visited(side, dir)
    BY <1>2, <1>3, VisitedThere
  <1>5. ASSUME NEW above \in Lineage(dir) PROVE above \in CommonDirs
    <2>1. \A side \in Side : above \in dirs[side]
      BY <1>2, <1>3, AboveExists
    <2>2. above \in dirs["left"] \cap dirs["right"] /\ above \in AllPaths
      BY <1>0, <2>1 DEF Side, AllPaths
    <2>3. NotOut(above)
      BY <1>2, NotOutAbove
    <2>4. \A a \in Lineage(above) : IsWithinSubtree(a, Root)
      BY <2>2, LineageInDirs, WithinRoot
    <2>5. Root \in Lineage(above) /\ IsWithinSubtree(above, Root)
      BY <2>2, WithinRoot DEF IsWithinSubtree
    <2> QED
      BY <2>2, <2>3, <2>4, <2>5 DEF CommonDirs, NotOut, Shown
  <1>6. Root \in Lineage(dir)
    BY <1>2, WithinRoot DEF IsWithinSubtree
  <1> QED
    BY <1>2, <1>3, <1>4, <1>5, <1>6

\* Below a directory that is not left out, what is shown is what is not left out.
LEMMA ShownBelow ==
    ASSUME NEW dir \in AllPaths, NotOut(dir), NEW path \in AllPaths
    PROVE  Shown(path, dir) <=> IsWithinSubtree(path, dir) /\ NotOut(path)
  <1> SUFFICES ASSUME IsWithinSubtree(path, dir) PROVE Shown(path, dir) <=> NotOut(path)
    BY DEF Shown
  <1>1. ASSUME NEW above \in Lineage(path) PROVE above \in Lineage(dir) \/ (IsWithinSubtree(above, dir) /\ above # dir)
    <2>1. IsWithinSubtree(path, above)
      BY DEF IsWithinSubtree
    <2>2. IsWithinSubtree(above, dir) \/ IsWithinSubtree(dir, above)
      BY <2>1, WithinLinear
    <2>3. dir \in Lineage(dir)
      BY PathFacts
    <2> QED
      BY <2>2, <2>3 DEF IsWithinSubtree
  <1> QED
    BY <1>1 DEF Shown, NotOut

-----------------------------------------------------------------------------
(* What Pass 1 has listed *)

\* The rows of a directory's children are what is on disk, but for files that
\* could not be listed; those make it unreadable.
Listed(side, dir) ==
    /\ node[side][dir].outcome = "done"
    /\ \A child \in Dirs \ { Root } : ParentPath(child) = dir =>
          (child \in KnownDirs(side) <=> child \in dirs[side])
    /\ \A file \in Files : ParentPath(file) = dir =>
          /\ file \in KnownFiles(side) =>
                disk[side][file] # NoFile /\ facts[side][file].version = disk[side][file].version
          /\ disk[side][file] # NoFile /\ file \notin KnownFiles(side) => node[side][dir].unreadable
    /\ node[side][dir].unreadable /\ ~node[side][dir].resolved =>
          \E file \in Files : ParentPath(file) = dir /\ disk[side][file] # NoFile

AllListed == \A side \in Side, dir \in Dirs : Visited(side, dir) => Listed(side, dir)

Awaits(side, dir) == \E above \in Lineage(dir) : above \in toList[side]

ListedInv ==
    Undisturbed => \A side \in Side, dir \in Dirs :
        Visited(side, dir) => Listed(side, dir) \/ Awaits(side, dir)

\* A row that says what it said keeps a directory listed.
LEMMA ListedStays ==
    ASSUME NEW side \in Side, NEW dir \in Dirs, Listed(side, dir),
           UNCHANGED worldVars,
           \A d \in Dirs : d = dir \/ (d # Root /\ ParentPath(d) = dir) =>
               (d \in KnownDirs(side)' <=> d \in KnownDirs(side)),
           \A file \in Files : ParentPath(file) = dir =>
               facts'[side][file].version = facts[side][file].version,
           node'[side][dir].outcome = node[side][dir].outcome,
           node[side][dir].unreadable => node'[side][dir].unreadable,
           node'[side][dir].unreadable /\ ~node'[side][dir].resolved =>
               node[side][dir].unreadable /\ ~node[side][dir].resolved
    PROVE  Listed(side, dir)'
  <1>1. disk' = disk /\ dirs' = dirs
    BY DEF worldVars
  <1>2. \A file \in Files : ParentPath(file) = dir =>
            (file \in KnownFiles(side)' <=> file \in KnownFiles(side))
    BY DEF KnownFiles
  <1> QED
    BY <1>1, <1>2 DEF Listed

LEMMA VisitedStays ==
    ASSUME UNCHANGED worldVars
    PROVE  \A side, dir : Visited(side, dir)' <=> Visited(side, dir)
  BY DEF Visited, worldVars

\* The directory just listed.
LEMMA ListedNow ==
    ASSUME TInv, HeldRight, NEW side \in Side, NEW dir \in Dirs, NEW hidden, dir \in toList[side],
           hidden \subseteq { file \in ChildrenOf(dir, Unreadable) : disk[side][file] # NoFile },
           ListChildren(side, dir, hidden), UNCHANGED worldVars
    PROVE  Listed(side, dir)'
  <1>0. TreesInv /\ RowsInv /\ ListInv /\ disk' = disk /\ dirs' = dirs
    BY DEF TInv, worldVars
  <1>1. /\ \A d \in Dirs : node'[side][d] =
             IF d = dir THEN OwnResult(node[side][d], "done", hidden # {})
             ELSE IF d \in Kids(side, dir) THEN ChildRow(node[side][d])
             ELSE IF Forgotten(side, dir, d) THEN NoNode
             ELSE node[side][d]
        /\ \A file \in Files : facts'[side][file] =
             IF file \in FilesSeen(side, dir, hidden)
               THEN FileFacts(facts[side][file], disk[side][file])
             ELSE IF ParentPath(file) = dir \/ Forgotten(side, dir, file) THEN NoFacts
             ELSE facts[side][file]
    BY <1>0, ListChildrenRows
  <1>2. hidden \subseteq Files /\ \A file \in hidden : ParentPath(file) = dir /\ disk[side][file] # NoFile
    BY PassAssumption DEF ChildrenOf
  <1>3. node'[side][dir].outcome = "done" /\ node'[side][dir].unreadable = (hidden # {})
    <2> DEFINE row == node[side][dir]
               some == hidden # {}
    <2>1. IsRow(row) /\ row.outcome = "pending" /\ node'[side][dir] = OwnResult(row, "done", some)
          /\ some \in BOOLEAN
      BY <1>0, <1>1 DEF RowsInv, IsTable, ListInv, HeldRight
    <2> HIDE DEF row, some
    <2>2. OwnResult(row, "done", some).outcome = "done" /\ OwnResult(row, "done", some).unreadable = some
      BY <2>1, OwnResultRow
    <2>3. node'[side][dir].outcome = "done" /\ node'[side][dir].unreadable = some
      BY <2>1, <2>2
    <2> QED
      BY <2>3 DEF some
  <1>4. ASSUME NEW child \in Dirs \ { Root }, ParentPath(child) = dir
        PROVE  child \in KnownDirs(side)' <=> child \in dirs[side]
    <2>1. child # dir /\ child \in AllPaths
      BY <1>4, ChildWithin DEF AllPaths
    <2>2. IsRow(node[side][child])
      BY <1>0 DEF RowsInv, IsTable
    <2>3. CASE child \in dirs[side]
      <3> DEFINE row == node[side][child]
      <3>1. child \in Kids(side, dir)
        BY <1>4, <2>3 DEF Kids, ChildrenOf
      <3>2. node'[side][child] = Pending(row) /\ IsRow(row)
        BY <1>1, <2>1, <2>2, <3>1, ListedRow DEF HeldRight
      <3> HIDE DEF row
      <3>3. Pending(row).outcome = "pending"
        BY <3>2, PendingRow
      <3> QED
        BY <2>3, <3>2, <3>3 DEF KnownDirs
    <2>4. CASE child \notin dirs[side]
      <3>1. child \notin Kids(side, dir)
        BY <2>4 DEF Kids, ChildrenOf
      <3>2. child \in KnownDirs(side) => Forgotten(side, dir, child)
        <4>1. IsWithinSubtree(child, child)
          BY <2>1, PathFacts DEF IsWithinSubtree
        <4> QED
          BY <1>4, <3>1, <4>1 DEF Forgotten, ChildrenOf
      <3>3. node'[side][child] \in { NoNode, node[side][child] }
        BY <1>1, <2>1, <3>1
      <3>4. child \in KnownDirs(side) => node'[side][child] = NoNode
        BY <1>1, <2>1, <3>1, <3>2
      <3>5. node'[side][child].outcome = "none"
        BY <3>3, <3>4, NoNodeIsRow DEF KnownDirs
      <3> QED
        BY <2>4, <3>5 DEF KnownDirs
    <2> QED
      BY <2>3, <2>4
  <1>5. ASSUME NEW file \in Files, ParentPath(file) = dir
        PROVE  /\ file \in KnownFiles(side)' =>
                    disk[side][file] # NoFile /\ facts'[side][file].version = disk[side][file].version
               /\ disk[side][file] # NoFile /\ file \notin KnownFiles(side)' => hidden # {}
    <2>1. file # Root
      BY PassAssumption
    <2>2. CASE file \in FilesSeen(side, dir, hidden)
      <3> DEFINE row == facts[side][file]
                 there == disk[side][file]
      <3>1. row \in FactRow /\ there # NoFile /\ facts'[side][file] = FileFacts(row, there)
        BY <1>0, <1>1, <2>2 DEF RowsInv, FilesSeen
      <3>2. FileFacts(row, there).version = there.version /\ there.version # 0
        BY <1>0, <3>1, ListedFacts
      <3> QED
        BY <3>1, <3>2 DEF KnownFiles
    <2>3. CASE file \notin FilesSeen(side, dir, hidden)
      <3>1. facts'[side][file] = NoFacts
        BY <1>1, <1>5, <2>3
      <3>2. disk[side][file] # NoFile => file \in hidden
        BY <1>5, <2>1, <2>3 DEF FilesSeen, ChildrenOf
      <3> QED
        BY <3>1, <3>2, NoFactsIsRow DEF KnownFiles
    <2> QED
      BY <2>2, <2>3
  <1> QED
    BY <1>0, <1>2, <1>3, <1>4, <1>5 DEF Listed

\* A listing leaves alone what does not lie below its directory.
LEMMA ListedElsewhere ==
    ASSUME TInv, HeldRight, NEW side \in Side, NEW dir \in Dirs, NEW hidden, dir \in toList[side],
           ListChildren(side, dir, hidden), UNCHANGED worldVars,
           NEW s \in Side, NEW other \in Dirs, s # side \/ dir \notin Lineage(other),
           Listed(s, other)
    PROVE  Listed(s, other)'
  <1>0. TreesInv /\ RowsInv /\ ListInv
    BY DEF TInv
  <1>1. /\ \A d \in Dirs : node'[side][d] =
             IF d = dir THEN OwnResult(node[side][d], "done", hidden # {})
             ELSE IF d \in Kids(side, dir) THEN ChildRow(node[side][d])
             ELSE IF Forgotten(side, dir, d) THEN NoNode
             ELSE node[side][d]
        /\ \A file \in Files : facts'[side][file] =
             IF file \in FilesSeen(side, dir, hidden)
               THEN FileFacts(facts[side][file], disk[side][file])
             ELSE IF ParentPath(file) = dir \/ Forgotten(side, dir, file) THEN NoFacts
             ELSE facts[side][file]
        /\ \A t \in Side \ { side } : node'[t] = node[t] /\ facts'[t] = facts[t]
    BY <1>0, ListChildrenRows
  <1>2. CASE s # side
    <2>1. node'[s] = node[s] /\ facts'[s] = facts[s]
      BY <1>1, <1>2
    <2>2. KnownDirs(s)' = KnownDirs(s)
      BY <2>1 DEF KnownDirs
    <2> QED
      BY <2>1, <2>2, ListedStays
  <1>3. CASE s = side
    <2>1. other \in AllPaths /\ dir \notin Lineage(other)
      BY <1>3 DEF AllPaths
    <2>2. ASSUME NEW path \in AllPaths, path = other \/ (path # Root /\ ParentPath(path) = other)
          PROVE  (path # Root => ParentPath(path) # dir) /\ ~Forgotten(side, dir, path)
      <3>1. path # Root => ParentPath(path) # dir
        <4>1. path # Root => IsWithinSubtree(path, ParentPath(path))
          BY ChildWithin
        <4>2. dir \in Lineage(dir)
          BY PathFacts DEF AllPaths
        <4> QED
          BY <2>1, <2>2, <4>1, <4>2, PathFacts DEF IsWithinSubtree
      <3>2. ASSUME NEW top \in ChildrenOf(dir, KnownDirs(side)), IsWithinSubtree(path, top)
            PROVE  FALSE
        <4>1. top \in AllPaths \ { Root } /\ ParentPath(top) = dir
          BY DEF ChildrenOf, KnownDirs, AllPaths
        <4>2. IsWithinSubtree(top, dir)
          BY <4>1, ChildWithin
        <4>3. CASE path = other
          BY <2>1, <3>2, <4>2, <4>3, WithinTransitive DEF IsWithinSubtree
        <4>4. CASE path # other
          <5>1. path # Root /\ ParentPath(path) = other /\ top # path
            BY <2>2, <3>1, <4>1, <4>4
          <5>2. IsWithinSubtree(other, top)
            BY <3>2, <5>1, ChildWithin
          <5> QED
            BY <2>1, <4>2, <5>2, WithinTransitive DEF IsWithinSubtree
        <4> QED
          BY <4>3, <4>4
      <3> QED
        BY <3>1, <3>2 DEF Forgotten
    <2>3. other # dir
      BY <2>1, PathFacts
    <2>5. ASSUME NEW d \in Dirs, d = other \/ (d # Root /\ ParentPath(d) = other), d # dir
          PROVE  node'[side][d] = node[side][d]
      BY <1>1, <2>2, <2>5 DEF Kids, ChildrenOf, AllPaths
    <2>6. ASSUME NEW file \in Files, ParentPath(file) = other
          PROVE  facts'[side][file] = facts[side][file]
      <3>1. file \in AllPaths /\ file # Root
        BY PassAssumption DEF AllPaths
      <3> QED
        BY <1>1, <2>2, <2>6, <3>1 DEF FilesSeen, ChildrenOf
    <2>7. dir \in KnownDirs(side) /\ dir \in KnownDirs(side)'
      <3> DEFINE row == node[side][dir]
      <3>1. IsRow(row) /\ row.outcome = "pending" /\ node'[side][dir] = OwnResult(row, "done", hidden # {})
        BY <1>0, <1>1 DEF RowsInv, IsTable, ListInv, HeldRight
      <3> HIDE DEF row
      <3>2. OwnResult(row, "done", hidden # {}).outcome = "done"
        BY <3>1, OwnResultRow
      <3> QED
        BY <3>1, <3>2 DEF KnownDirs, row
    <2>8. \A d \in Dirs : d = other \/ (d # Root /\ ParentPath(d) = other) =>
              (d \in KnownDirs(side)' <=> d \in KnownDirs(side))
      BY <2>5, <2>7 DEF KnownDirs
    <2>9. node'[side][other] = node[side][other]
      BY <2>3, <2>5
    <2> QED
      BY <1>3, <2>6, <2>8, <2>9, ListedStays
  <1> QED
    BY <1>2, <1>3

\* Pass 2 marks as unreadable only what it marks as resolved.
LEMMA Pass2Rows ==
    ASSUME TInv, KindsApart, HeldRight, Pass2
    PROVE  \A side \in Side, dir \in Dirs :
              LET old == node[side][dir]
                  new == node'[side][dir]
              IN  /\ old.unreadable => new.unreadable
                  /\ old.resolved => new.resolved
                  /\ new.unreadable => old.unreadable \/ new.resolved
  <1>0. RowsInv /\ IsNest(frames)
    BY DEF TInv
  <1>1. CASE node' = node
    BY <1>1
  <1>2. CASE Enter /\ node' # node
    <2> DEFINE dir == Top.dir
    <2>1. node' = [side \in Side |-> [below \in Dirs |->
               [node[side][below] EXCEPT !.resolved =
                  @ \/ (IsWithinSubtree(below, dir) /\ node[side][below].checksum # {})]]]
          /\ facts' = facts
      BY <1>2, EnterIsNow DEF EnterNow
    <2> HIDE DEF dir
    <2>2. \A side \in Side, d \in Dirs :
               LET old == node[side][d]
                   new == node'[side][d]
               IN  /\ new.outcome = old.outcome /\ new.unreadable = old.unreadable
                   /\ new.checksum = old.checksum
                   /\ new.resolved = (old.resolved \/
                                        (IsWithinSubtree(d, dir) /\ old.checksum # {}))
      BY <1>0, <2>1, CacheHitRows, Zenon
    <2> QED
      BY <2>2
  <1>3. CASE FinishDir
    <2>1. \A side \in Side, d \in Dirs :
              IF d # Top.dir THEN node'[side][d] = node[side][d]
              ELSE /\ node'[side][d].unreadable = (node[side][d].unreadable \/ side \in Top.errs)
                   /\ node'[side][d].resolved
      BY <1>3, CalmFinish
    <2> QED
      BY <2>1
  <1>4. CASE HashFails
    BY <1>1, <1>4, CalmFails
  <1> QED
    BY <1>1, <1>2, <1>3, <1>4 DEF Pass2, ReadNext, HashSucceeds, Cancel, PairDone, EndPass2,
       NextEntry, rowVars

LEMMA ListedNext == TInv /\ KindsApart /\ HeldInCalm /\ ListedInv /\ [Next]_vars => ListedInv'
  <1> SUFFICES ASSUME TInv, KindsApart, HeldInCalm, ListedInv, [Next]_vars, Undisturbed',
                      NEW side \in Side, NEW dir \in Dirs, Visited(side, dir)'
               PROVE  Listed(side, dir)' \/ Awaits(side, dir)'
    BY DEF ListedInv
  <1>0. TreesInv /\ RowsInv /\ ListInv /\ dir \in AllPaths
    BY DEF TInv, AllPaths
  <1>a. HeldRight \/ \E m \in Modes : Compare(m)
    BY CalmSteps DEF HeldInCalm, Calm
  <1>1. ASSUME Undisturbed, UNCHANGED worldVars,
               \A s \in Side : toList'[s] = toList[s],
               \A s \in Side : KnownDirs(s)' = KnownDirs(s),
               \A file \in Files : facts'[side][file].version = facts[side][file].version,
               node'[side][dir].outcome = node[side][dir].outcome,
               node[side][dir].unreadable => node'[side][dir].unreadable,
               node'[side][dir].unreadable /\ ~node'[side][dir].resolved =>
                   node[side][dir].unreadable /\ ~node[side][dir].resolved
        PROVE  Listed(side, dir)' \/ Awaits(side, dir)'
    <2>1. Listed(side, dir) \/ Awaits(side, dir)
      BY <1>1, VisitedStays DEF ListedInv
    <2>2. CASE Awaits(side, dir)
      BY <1>1, <2>2 DEF Awaits
    <2>3. CASE Listed(side, dir)
      BY <1>1, <2>3, ListedStays
    <2> QED
      BY <2>1, <2>2, <2>3
  <1>2. CASE Pass2 /\ HeldRight
    <2>1. KeepsKnown /\ UNCHANGED worldVars /\ toList' = toList /\ Undisturbed
      BY <1>2, Pass2KeepsKnown DEF Pass2, Enter, ReadNext, HashSucceeds, HashFails, Cancel, PairDone,
         FinishDir, EndPass2, NextEntry, engineVars, historyVars, Undisturbed
    <2>2. \A s \in Side : KnownDirs(s)' = KnownDirs(s)
      BY <2>1, KnownStays
    <2>3. /\ \A file \in Files : facts'[side][file].version = facts[side][file].version
          /\ node'[side][dir].outcome = node[side][dir].outcome
      BY <2>1 DEF KeepsKnown
    <2>4. /\ node[side][dir].unreadable => node'[side][dir].unreadable
          /\ node'[side][dir].unreadable /\ ~node'[side][dir].resolved =>
                   node[side][dir].unreadable /\ ~node[side][dir].resolved
      BY <1>2, Pass2Rows
    <2> QED
      BY <1>1, <2>1, <2>2, <2>3, <2>4
  <1>3. ASSUME UNCHANGED << worldVars, rowVars >>, Undisturbed, \A s \in Side : toList'[s] = toList[s]
        PROVE  Listed(side, dir)' \/ Awaits(side, dir)'
    <2>1. \A s \in Side : KnownDirs(s)' = KnownDirs(s)
      BY <1>3 DEF KnownDirs, rowVars
    <2> QED
      BY <1>1, <1>3, <2>1 DEF rowVars
  <1>4. ASSUME NEW m \in Modes, Compare(m) PROVE Awaits(side, dir)'
    <2>1. toList'[side] = { Root } /\ Root \in Lineage(dir)
      BY <1>0, <1>4, WithinRoot DEF Compare, IsWithinSubtree
    <2> QED
      BY <2>1 DEF Awaits
  <1>5. ASSUME NEW s \in Side, NEW d \in Dirs, List(s, d), HeldRight
        PROVE  Listed(side, dir)' \/ Awaits(side, dir)'
    <2>0. UNCHANGED worldVars /\ Undisturbed /\ d \in toList[s] /\ ~stopMark /\ leftover = {}
      BY <1>5, HeldList DEF List, historyVars, Undisturbed, HeldRight
    <2>1. Visited(side, dir) /\ (Listed(side, dir) \/ Awaits(side, dir))
      BY <2>0, VisitedStays DEF ListedInv
    <2>2. /\ \A t \in Side : t # s => toList'[t] = toList[t]
          /\ toList[s] \ { d } \subseteq toList'[s]
      <3>1. \E kids : LoopGoesOn(s, d, kids)
        BY <1>5 DEF List, OnlyRecord, ListChildren
      <3> QED
        BY <1>0, <2>0, <3>1, LoopLists
    <2>3. CASE s = side /\ d \in Lineage(dir)
      <3>1. Holds(side, dir) /\ d \in AllPaths
        BY <2>1 DEF Holds, Visited, AllPaths
      <3>2. d \in dirs[side] /\ << side, d >> \notin ignored
        BY <1>0, <2>1, <2>3, <3>1, AboveExists DEF Visited
      <3>3. PICK hidden : /\ hidden \subseteq { file \in ChildrenOf(d, Unreadable) : disk[s][file] # NoFile }
                          /\ ListChildren(s, d, hidden)
        BY <1>5, <2>3, <3>2 DEF List
      <3>4. CASE d = dir
        BY <1>5, <2>0, <2>3, <3>3, <3>4, ListedNow
      <3>5. CASE d # dir
        <4>1. PICK child \in Lineage(dir) : child \in AllPaths \ { Root } /\ ParentPath(child) = d
          BY <1>0, <2>3, <3>5, ChildToward
        <4>2. child \in dirs[side]
          BY <1>0, <2>1, <3>1, <4>1, AboveExists DEF Visited
        <4>3. child \in toList'[side]
          <5>1. LoopGoesOn(s, d, Kids(s, d)) /\ child \in Kids(s, d)
            BY <1>0, <2>3, <3>3, <4>1, <4>2 DEF ListChildren, Kids, ChildrenOf
          <5>2. toList'[s] = (toList[s] \ { d }) \cup (IF stopMark THEN {} ELSE Kids(s, d))
            BY <1>0, <2>0, <5>1, LoopLists
          <5> QED
            BY <2>0, <2>3, <5>1, <5>2
        <4> QED
          BY <4>1, <4>3 DEF Awaits
      <3> QED
        BY <3>4, <3>5
    <2>4. CASE ~(s = side /\ d \in Lineage(dir))
      <3>1. CASE Awaits(side, dir)
        <4>1. PICK above \in Lineage(dir) : above \in toList[side]
          BY <3>1 DEF Awaits
        <4>2. above \in toList'[side]
          BY <1>0, <2>2, <2>4, <4>1 DEF ListInv
        <4> QED
          BY <4>1, <4>2 DEF Awaits
      <3>2. CASE Listed(side, dir)
        <4>1. ASSUME NEW hidden, ListChildren(s, d, hidden) PROVE Listed(side, dir)'
          BY <1>5, <2>0, <2>4, <3>2, <4>1, ListedElsewhere
        <4>2. ASSUME NEW outcome \in { "done", "error" }, OnlyRecord(s, d, outcome)
              PROVE  Listed(side, dir)'
          <5>1. /\ node'[s][d] = OwnResult(node[s][d], outcome, FALSE)
                /\ \A t \in Side, e \in Dirs : t # s \/ e # d => node'[t][e] = node[t][e]
                /\ facts' = facts
            BY <1>0, <4>2, OnlyRecordRows
          <5>2. s # side \/ d # dir
            BY <1>0, <2>4, PathFacts
          <5>3. node'[side][dir] = node[side][dir]
            BY <5>1, <5>2
          <5> DEFINE row == node[s][d]
                     new == OwnResult(row, outcome, FALSE)
          <5>4. IsRow(row) /\ FALSE \in BOOLEAN /\ node'[s][d] = new
            BY <1>0, <5>1 DEF RowsInv, IsTable
          <5> HIDE DEF row
          <5>5. new.outcome = "none" <=> row.outcome = "none"
            BY <4>2, <5>4, OwnResultRow
          <5> HIDE DEF new
          <5>6. node'[s][d].outcome = "none" <=> node[s][d].outcome = "none"
            BY <5>4, <5>5 DEF row
          <5>7. KnownDirs(side)' = KnownDirs(side)
            BY <5>1, <5>6 DEF KnownDirs
          <5> QED
            BY <2>0, <3>2, <5>1, <5>3, <5>7, ListedStays
        <4> QED
          BY <1>5, <4>1, <4>2 DEF List
      <3> QED
        BY <2>1, <3>1, <3>2
    <2> QED
      BY <2>3, <2>4
  <1>6. CASE Environment
    <2>1. clean'
      BY DEF Undisturbed
    <2> QED
      BY <1>4, <1>6, <2>1 DEF Environment, Stop, Restart, Edit, Delete, SetIgnored, Changes
  <1>7. CASE StartPass2 /\ HeldRight
    <2>1. \A s \in Side : toList[s] = {} /\ toList'[s] = {}
      BY <1>7, HeldStart DEF StartPass2, NothingToList
    <2>2. UNCHANGED << worldVars, rowVars >> /\ Undisturbed
      BY <1>7 DEF StartPass2, historyVars, Undisturbed
    <2> QED
      BY <1>3, <2>1, <2>2
  <1>8. CASE UNCHANGED vars
    BY <1>3, <1>8 DEF vars, historyVars, passVars, engineVars, Undisturbed
  <1> QED
    BY <1>a, <1>2, <1>4, <1>5, <1>6, <1>7, <1>8 DEF Next, Pass1

\* When Pass 2 is at work, or done, everything has been listed.
LEMMA EverythingListed ==
    ASSUME TInv, ListedInv, Undisturbed, at # "listing"
    PROVE  AllListed
  BY DEF TInv, ListInv, ListedInv, AllListed, Awaits

-----------------------------------------------------------------------------
(* What the rows say of what is on disk *)

\* Everything a comparison that nobody interferes with relies on, once listed.
Sound == TInv /\ KindsApart /\ HeldRight /\ KnownClosed /\ FactsTrue /\ AllListed

DirInError(dir) == \E side \in Side : HasError(side, dir)
Unlike(dir) == Differences(dir) \cup IgnoredInOneSided(dir) # {}
BothFiles(path) == path \in KnownFiles("left") \cap KnownFiles("right") /\ ~PairIgnored(path)

\* The entries of a directory that both sides have: what is known of them is
\* what is on disk, unless listing the directory met an error.
LEMMA EntryFacts ==
    ASSUME Sound, NEW dir \in CommonDirs, NEW path \in AllPaths \ { Root }, ParentPath(path) = dir
    PROVE  /\ \A side \in Side :
                /\ path \in KnownDirs(side) <=> path \in dirs[side]
                /\ path \in KnownFiles(side) =>
                      /\ path \in Files /\ disk[side][path] # NoFile
                      /\ facts[side][path].version = disk[side][path].version
                /\ Holds(side, path) /\ path \notin Known(side) => HasError(side, dir)
           /\ PairIgnored(path) => LeftOut(path)
           /\ LeftOut(path) /\ ~DirInError(dir) => PairIgnored(path)
           /\ path \in CommonDirs <=>
                 path \in KnownDirs("left") \cap KnownDirs("right") /\ ~PairIgnored(path)
           /\ NotOut(dir) /\ dir \in AllPaths
  <1>0. TreesInv /\ dirs \in [Side -> SUBSET Dirs] /\ Side = { "left", "right" }
    BY DEF Sound, TInv, TreesInv, Side
  <1>1. /\ NotOut(dir) /\ dir \in AllPaths /\ dir \in Dirs
        /\ \A side \in Side : Visited(side, dir)
    BY <1>0, CommonFacts
  <1>2. \A side \in Side : Listed(side, dir)
    BY <1>1 DEF Sound, AllListed
  <1>3. ASSUME NEW side \in Side
        PROVE  /\ path \in KnownDirs(side) <=> path \in dirs[side]
               /\ path \in KnownFiles(side) =>
                     /\ path \in Files /\ disk[side][path] # NoFile
                     /\ facts[side][path].version = disk[side][path].version
               /\ Holds(side, path) /\ path \notin Known(side) => HasError(side, dir)
    <2>1. path \in KnownDirs(side) <=> path \in dirs[side]
      <3>1. path \in KnownDirs(side) => path \in Dirs
        BY DEF KnownDirs
      <3>2. path \in dirs[side] => path \in Dirs
        BY <1>0
      <3> QED
        BY <1>2, <3>1, <3>2 DEF Listed
    <2>2. path \in KnownFiles(side) =>
             /\ path \in Files /\ disk[side][path] # NoFile
             /\ facts[side][path].version = disk[side][path].version
      <3>1. path \in KnownFiles(side) => path \in Files
        BY DEF KnownFiles
      <3> QED
        BY <1>2, <3>1 DEF Listed
    <2>3. Holds(side, path) /\ path \notin Known(side) => HasError(side, dir)
      BY <1>2, <2>1 DEF Holds, Known, Listed, HasError, InError
    <2> QED
      BY <2>1, <2>2, <2>3
  <1>4. PairIgnored(path) => LeftOut(path)
    BY <1>3 DEF PairIgnored, LeftOut, Holds
  <1>5. LeftOut(path) /\ ~DirInError(dir) => PairIgnored(path)
    BY <1>3 DEF PairIgnored, LeftOut, DirInError, Known
  <1>6. path \in CommonDirs <=>
           path \in KnownDirs("left") \cap KnownDirs("right") /\ ~PairIgnored(path)
    <2>1. path \in CommonDirs <=> path \in dirs["left"] \cap dirs["right"] /\ ~LeftOut(path)
      BY <1>0, <1>1, CommonFacts, NotOutBelow
    <2>2. path \in KnownDirs("left") \cap KnownDirs("right") <=> path \in dirs["left"] \cap dirs["right"]
      BY <1>0, <1>3
    <2>3. path \in KnownDirs("left") \cap KnownDirs("right") /\ LeftOut(path) => PairIgnored(path)
      BY <1>0 DEF PairIgnored, LeftOut
    <2> QED
      BY <1>4, <2>1, <2>2, <2>3
  <1> QED
    BY <1>1, <1>3, <1>4, <1>5, <1>6

\* What is known below it is there, and was listed.
LEMMA KnownThere ==
    ASSUME Sound, NEW dir \in CommonDirs, NEW side \in Side, NEW path \in AllPaths,
           path \in Known(side), IsWithinSubtree(path, dir), path # dir, NotOut(path)
    PROVE  /\ Visited(side, ParentPath(path)) /\ Holds(side, path)
           /\ path \in KnownDirs(side) => Visited(side, path)
           /\ path \in KnownFiles(side) => path \in Files /\ disk[side][path] # NoFile
  <1>0. TreesInv /\ dirs \in [Side -> SUBSET Dirs] /\ KnownClosed /\ AllListed
    BY DEF Sound, TInv, TreesInv
  <1>1. dir \in AllPaths /\ dir \in dirs[side] /\ dir \in Lineage(path)
    BY <1>0, CommonFacts DEF IsWithinSubtree
  <1>2. path # Root
    BY <1>1, RootLineage
  <1> DEFINE S == dirs[side] \cup { path }
  <1>3. ASSUME NEW a \in Lineage(path), a # path, a \in dirs[side]
        PROVE  Visited(side, a) /\ Listed(side, a)
    <2>1. a \in AllPaths /\ NotOut(a) /\ a \in Dirs
      BY <1>0, <1>3, LineageInDirs, NotOutAbove
    <2>2. Visited(side, a)
      BY <1>0, <1>3, <2>1, VisitedThere DEF Holds
    <2> QED
      BY <1>0, <2>1, <2>2 DEF AllListed
  <1>4. ASSUME NEW a \in Lineage(path), a # dir, IsWithinSubtree(a, dir), ParentPath(a) \in S
        PROVE  a \in S
    <2>1. SUFFICES ASSUME a # path PROVE a \in dirs[side]
      OBVIOUS
    <2>2. a \in AllPaths /\ a # Root /\ a \in KnownDirs(side) /\ a \in Dirs
      BY <1>0, <1>1, <1>4, <2>1, LineageInDirs, KnownAbove, RootLineage DEF IsWithinSubtree
    <2>3. IsWithinSubtree(a, ParentPath(a)) /\ IsWithinSubtree(path, a)
      BY <2>2, ChildWithin DEF IsWithinSubtree
    <2>4. ParentPath(a) \in Lineage(path)
      BY <2>3, WithinTransitive DEF IsWithinSubtree
    <2>5. ParentPath(a) # path
      BY <2>1, <2>3, WithinAntisymmetric
    <2> QED
      BY <1>3, <1>4, <2>2, <2>4, <2>5 DEF Listed
  <1> HIDE DEF S
  <1>5. dir \in S
    BY <1>1 DEF S
  <1>6. \A a \in Lineage(path) : IsWithinSubtree(a, dir) => a \in S
    BY <1>1, <1>4, <1>5, Downward
  <1>7. ParentPath(path) \in Lineage(path) /\ ParentPath(path) # path /\ IsWithinSubtree(ParentPath(path), dir)
    BY <1>2, ChildWithin DEF IsWithinSubtree
  <1>8. ParentPath(path) \in dirs[side]
    BY <1>6, <1>7 DEF S
  <1>9. Visited(side, ParentPath(path)) /\ Listed(side, ParentPath(path))
    BY <1>3, <1>7, <1>8
  <1>10. path \in KnownDirs(side) => path \in dirs[side]
    BY <1>2, <1>9 DEF Listed, KnownDirs
  <1>11. path \in KnownFiles(side) => path \in Files /\ disk[side][path] # NoFile
    BY <1>9 DEF Listed, KnownFiles
  <1>12. Holds(side, path)
    BY <1>10, <1>11 DEF Holds, Known
  <1> QED
    BY <1>0, <1>9, <1>10, <1>11, <1>12, VisitedThere

\* A file the two sides do not have alike is there on one of them.
LEMMA DifferenceIsThere ==
    ASSUME Sound, NEW dir \in CommonDirs, NEW file \in Differences(dir)
    PROVE  /\ file \in Files /\ file \in AllPaths /\ file # Root /\ NotOut(file)
           /\ IsWithinSubtree(file, dir) /\ file # dir
           /\ disk["left"][file].content # disk["right"][file].content
           /\ \E side \in Side : disk[side][file] # NoFile
  <1>0. TreesInv /\ Side = { "left", "right" }
    BY DEF Sound, TInv, Side
  <1>1. NotOut(dir) /\ dir \in AllPaths /\ dir \in dirs["left"] \cap dirs["right"]
    BY <1>0, CommonFacts
  <1>2. /\ file \in Files /\ file \in AllPaths /\ file # Root /\ Shown(file, dir)
        /\ disk["left"][file].content # disk["right"][file].content
    BY PassAssumption DEF Differences, AllPaths
  <1>3. IsWithinSubtree(file, dir) /\ NotOut(file)
    BY <1>1, <1>2, ShownBelow
  <1>4. \E side \in Side : disk[side][file] # NoFile
    BY <1>0, <1>2
  <1>5. file # dir
    BY <1>0, <1>1, <1>2 DEF TreesInv
  <1> QED
    BY <1>2, <1>3, <1>4, <1>5

\* Nothing differs below an entry that is passed over.
LEMMA NothingBelowSkipped ==
    ASSUME Sound, NEW dir \in CommonDirs, NEW path \in AllPaths \ { Root }, ParentPath(path) = dir,
           SkipsNow(path), ~DirInError(dir), NEW file \in Differences(dir)
    PROVE  ~IsWithinSubtree(file, path)
  <1> SUFFICES ASSUME IsWithinSubtree(file, path) PROVE FALSE
    OBVIOUS
  <1>0. TreesInv /\ Side = { "left", "right" } /\ AllListed
    BY DEF Sound, TInv, Side
  <1>1. /\ file \in Files /\ file \in AllPaths /\ file # Root /\ NotOut(file)
        /\ \E side \in Side : disk[side][file] # NoFile
    BY DifferenceIsThere
  <1>2. ~LeftOut(path)
    BY <1>1 DEF NotOut, IsWithinSubtree
  <1>3. /\ \A side \in Side :
             /\ path \in KnownDirs(side) <=> path \in dirs[side]
             /\ Holds(side, path) /\ path \notin Known(side) => HasError(side, dir)
        /\ ~PairIgnored(path)
    BY <1>2, EntryFacts
  <1>4. PICK side \in Side, other \in Side :
             /\ KindNow(side, path) = "directory" /\ KindNow(other, path) = "none"
             /\ EmptyNow(side, path)
    BY <1>3 DEF SkipsNow, AbsentNow
  <1>5. path \in dirs[side] /\ path \notin Known(other) /\ path \notin dirs[other]
    BY <1>3, <1>4 DEF KindNow, Known
  <1>6. PICK there \in Side : disk[there][file] # NoFile
    BY <1>1
  <1>7. Holds(there, file)
    BY <1>1, <1>6 DEF Holds
  <1>8. CASE there = side
    <2> DEFINE above == ParentPath(file)
    <2>1. file # path
      BY <1>0, <1>1, <1>5, <1>6, <1>8 DEF TreesInv
    <2>2. above \in Lineage(file) /\ above \in Dirs /\ IsWithinSubtree(above, path)
      BY <1>1, <2>1, ChildWithin DEF IsWithinSubtree
    <2>3. above \in dirs[side]
      BY <1>0, <1>1, <1>7, <1>8, HoldsAbove
    <2>4. NotOut(above) /\ above \in AllPaths
      BY <1>1, <2>2, NotOutAbove DEF AllPaths
    <2>5. Listed(side, above)
      BY <1>0, <2>2, <2>3, <2>4, VisitedThere DEF AllListed, Holds
    <2> HIDE DEF above
    <2>6. above \in KnownDirs(side)
      BY <2>2, <2>5 DEF Listed, KnownDirs
    <2>7. ~node[side][above].unreadable
      BY <1>4, <2>2, <2>6 DEF EmptyNow
    <2>8. file \in KnownFiles(side)
      BY <1>1, <1>6, <1>8, <2>5, <2>7 DEF Listed, above
    <2> QED
      BY <1>4, <2>8 DEF EmptyNow
  <1>9. CASE there # side
    <2>1. there = other
      BY <1>0, <1>4, <1>5, <1>9 DEF Known
    <2>2. path \in Lineage(file)
      BY DEF IsWithinSubtree
    <2>3. file = path
      BY <1>0, <1>1, <1>5, <1>7, <2>1, <2>2, AboveExists
    <2> QED
      BY <1>3, <1>5, <1>7, <2>1, <2>3 DEF DirInError
  <1> QED
    BY <1>8, <1>9

\* What a resolved directory says of the two that it stands for.
Decided(file) ==
    LET left == facts["left"][file]
        right == facts["right"][file]
    IN  \/ left.failed \/ right.failed \/ left.size # right.size
        \/ 0 \notin { left.full, right.full }
        \/ 0 \notin { left.partial, right.partial } /\ left.partial # right.partial

Verdict(dir) ==
    /\ \A side \in Side : node[side][dir].resolved
    /\ node["left"][dir].checksum = node["right"][dir].checksum
    /\ node["left"][dir].checksum # {} => Differences(dir) = {}
    /\ node["left"][dir].checksum = {} /\ ~DirInError(dir) => Unlike(dir)
    /\ \A file \in Files : BothFiles(file) /\ ParentPath(file) = dir =>
          Decided(file) \/ (pair # NoPair /\ file = pair.file)

\* An activation comes to a directory, or may come to it, before it is done.
ToComeIn(frame, dir) ==
    /\ IsWithinSubtree(dir, frame.dir)
    /\ dir = frame.dir \/ ~frame.entered \/ \E path \in frame.todo : IsWithinSubtree(dir, path)

ToCome(dir) == \E k \in 1..Len(frames) : ToComeIn(frames[k], dir)

\* Every pair of directories Pass 2 is done with has its verdict.
VerdictsTrue == \A dir \in CommonDirs : ~ToCome(dir) => Verdict(dir)

\* Only what both sides have was ever resolved.
ResolvedThere ==
    \A side \in Side, dir \in Dirs :
        node[side][dir].resolved => dir \in dirs["left"] \cap dirs["right"]

\* Entries of different kinds make their directories unlike.
LEMMA KindsMakeUnlike ==
    ASSUME Sound, ResolvedThere, NEW dir \in CommonDirs, NEW path \in AllPaths \ { Root },
           ParentPath(path) = dir, DiffersNow(path), ~DirInError(dir)
    PROVE  Unlike(dir)
  <1>0. /\ TreesInv /\ RowsInv /\ Side = { "left", "right" } /\ AllListed /\ KindsApart
        /\ disk \in [Side -> [Files -> [content : Content \cup {0}, version : 0..3]]]
    BY DEF Sound, TInv, TreesInv, Side
  <1>1. /\ \A side \in Side :
             /\ path \in KnownDirs(side) <=> path \in dirs[side]
             /\ path \in KnownFiles(side) => path \in Files /\ disk[side][path] # NoFile
             /\ Holds(side, path) /\ path \notin Known(side) => HasError(side, dir)
        /\ LeftOut(path) => PairIgnored(path)
        /\ NotOut(dir) /\ dir \in AllPaths
    BY EntryFacts
  <1>2. NotOut(path) /\ IsWithinSubtree(path, dir) /\ IsWithinSubtree(path, path)
    BY <1>1, NotOutBelow, ChildWithin, PathFacts DEF DiffersNow, IsWithinSubtree
  <1>3. \A side \in Side : Holds(side, path) => path \in Known(side)
    BY <1>1 DEF DirInError
  <1>4. PICK side \in Side, other \in Side : /\ side # other /\ KindNow(side, path) # KindNow(other, path)
                                             /\ KindNow(side, path) # "none"
                                             /\ KindNow(side, path) = "directory" => KindNow(other, path) = "none"
    <2>1. KindNow("left", path) # KindNow("right", path)
      BY DEF DiffersNow
    <2>2. \A s \in Side : KindNow(s, path) \in { "directory", "file", "none" }
      BY DEF KindNow
    <2>3. \E s \in Side, o \in Side : /\ s # o /\ KindNow(s, path) # KindNow(o, path)
                                      /\ KindNow(s, path) # "none"
                                      /\ KindNow(s, path) = "directory" => KindNow(o, path) = "none"
      BY <1>0, <2>1, <2>2
    <2> QED
      BY <2>3
  <1>5. ASSUME NEW q \in Files, IsWithinSubtree(q, path), NotOut(q),
               disk[side][q] # NoFile, disk[other][q] = NoFile
        PROVE  Unlike(dir)
    <2>1. q \in AllPaths /\ IsWithinSubtree(q, dir)
      BY <1>2, <1>5, WithinTransitive DEF AllPaths
    <2>2. Shown(q, dir)
      BY <1>1, <1>5, <2>1, ShownBelow
    <2>3. disk[side][q].content # 0 /\ disk[other][q].content = 0
      BY <1>0, <1>5 DEF TreesInv, NoFile
    <2>4. disk["left"][q].content # disk["right"][q].content
      BY <1>0, <1>4, <2>3
    <2> QED
      BY <2>2, <2>4 DEF Unlike, Differences
  <1>6. CASE KindNow(side, path) = "file"
    <2>1. path \in KnownFiles(side)
      BY <1>6 DEF KindNow
    <2>2. KindNow(other, path) # "file" => path \in KnownDirs(other) \/ path \notin Known(other)
      BY DEF KindNow, Known
    <2>3. path \in Files /\ disk[side][path] # NoFile
      BY <1>1, <2>1
    <2>4. disk[other][path] = NoFile
      BY <1>0, <1>1, <1>3, <1>4, <1>6, <2>2, <2>3 DEF TreesInv, Holds
    <2> QED
      BY <1>2, <1>5, <2>3, <2>4
  <1>7. CASE KindNow(side, path) = "directory"
    <2>1. path \in KnownDirs(side) /\ path \notin Known(other)
      BY <1>4, <1>7 DEF KindNow, Known
    <2>2. \A q \in AllPaths : IsWithinSubtree(q, path) => ~Holds(other, q)
      BY <1>0, <1>3, <2>1, AboveExists DEF IsWithinSubtree
    <2>3. ASSUME NEW f \in Files, IsWithinSubtree(f, path), disk[side][f] # NoFile, NotOut(f)
          PROVE  Unlike(dir)
      BY <1>5, <2>2, <2>3 DEF Holds, AllPaths
    <2>4. ASSUME NEW q \in AllPaths, IsWithinSubtree(q, path), q # path, ~NotOut(q)
          PROVE  Unlike(dir)
      <3>1. q # Root
        BY <2>4, RootLineage DEF IsWithinSubtree
      <3>2. IsWithinSubtree(ParentPath(q), path) /\ ParentPath(q) \in AllPaths
        BY <2>4, <3>1, ChildWithin DEF AllPaths
      <3>3. ParentPath(q) \notin dirs[other]
        BY <2>2, <3>2 DEF Holds
      <3>4. ParentPath(q) \notin dirs["left"] \cap dirs["right"]
        BY <1>0, <3>3
      <3>5. IsWithinSubtree(q, dir)
        BY <1>2, <2>4, WithinTransitive
      <3>6. ~Shown(q, dir)
        BY <1>1, <2>4, ShownBelow
      <3> QED
        BY <3>4, <3>5, <3>6 DEF Unlike, IgnoredInOneSided, AllPaths
    <2>5. ~EmptyNow(side, path)
      BY <1>4, <1>7 DEF DiffersNow, AbsentNow
    <2>6. PICK q \in AllPaths :
             /\ IsWithinSubtree(q, path)
             /\ \/ q \in KnownFiles(side)
                \/ q \in KnownDirs(side) /\ (node[side][q].outcome # "done" \/ node[side][q].unreadable)
      <3>1. KnownFiles(side) \cup KnownDirs(side) \subseteq AllPaths
        BY DEF KnownFiles, KnownDirs, AllPaths
      <3> QED
        BY <2>5, <3>1 DEF EmptyNow
    <2>7. CASE ~NotOut(q)
      BY <1>2, <2>4, <2>6, <2>7
    <2>8. CASE NotOut(q)
      <3>1. q # dir /\ q \in Known(side) /\ IsWithinSubtree(q, dir)
        <4>1. ~IsWithinSubtree(dir, path)
          BY ChildWithin
        <4> QED
          BY <1>2, <2>6, <4>1, WithinTransitive DEF Known
      <3>2. /\ q \in KnownDirs(side) => Visited(side, q)
            /\ q \in KnownFiles(side) => q \in Files /\ disk[side][q] # NoFile
        BY <2>8, <3>1, KnownThere
      <3>3. CASE q \in KnownFiles(side)
        BY <2>3, <2>6, <2>8, <3>2, <3>3
      <3>4. CASE q \in KnownDirs(side) /\ (node[side][q].outcome # "done" \/ node[side][q].unreadable)
        <4>1. q \in Dirs /\ Listed(side, q)
          BY <1>0, <3>2, <3>4 DEF KnownDirs, AllListed
        <4>2. ~node[side][q].resolved
          <5>1. q \in dirs["left"] \cap dirs["right"] => q \in dirs[other]
            BY <1>0
          <5> QED
            BY <2>2, <2>6, <4>1, <5>1 DEF ResolvedThere, Holds
        <4>3. PICK f \in Files : ParentPath(f) = q /\ disk[side][f] # NoFile
          BY <3>4, <4>1, <4>2 DEF Listed
        <4>4. f \in AllPaths \ { Root }
          BY PassAssumption DEF AllPaths
        <4>5. IsWithinSubtree(f, q) /\ ~IsWithinSubtree(q, f)
          BY <4>3, <4>4, ChildWithin
        <4>6. IsWithinSubtree(f, path) /\ f # path
          BY <2>6, <4>4, <4>5, WithinTransitive
        <4> QED
          BY <2>3, <2>4, <4>3, <4>4, <4>6
      <3> QED
        BY <2>6, <3>3, <3>4
    <2> QED
      BY <2>7, <2>8
  <1>8. KindNow(side, path) \in { "directory", "file", "none" }
    BY DEF KindNow
  <1> QED
    BY <1>4, <1>6, <1>7, <1>8

\* What keeps a directory from being like its other side keeps those above from it too.
LEMMA UnlikeAbove ==
    ASSUME TreesInv, NEW dir \in CommonDirs, NEW child \in CommonDirs, IsWithinSubtree(child, dir)
    PROVE  /\ Unlike(child) => Unlike(dir)
           /\ \A file \in Differences(dir) : IsWithinSubtree(file, child) => file \in Differences(child)
  <1>1. NotOut(dir) /\ NotOut(child) /\ dir \in AllPaths /\ child \in AllPaths
    BY CommonFacts
  <1>2. \A path \in AllPaths : IsWithinSubtree(path, child) =>
            IsWithinSubtree(path, dir) /\ (Shown(path, child) <=> Shown(path, dir))
    BY <1>1, WithinTransitive, ShownBelow
  <1>3. Differences(child) \subseteq Differences(dir)
    BY <1>2 DEF Differences, Shown, AllPaths
  <1>4. IgnoredInOneSided(child) \subseteq IgnoredInOneSided(dir)
    BY <1>2 DEF IgnoredInOneSided, AllPaths
  <1>5. \A file \in Differences(dir) : IsWithinSubtree(file, child) => file \in Differences(child)
    BY <1>2 DEF Differences, AllPaths
  <1> QED
    BY <1>3, <1>4, <1>5 DEF Unlike

-----------------------------------------------------------------------------
(* The pair being compared *)

PairTrue == \A file \in Files : pair # NoPair /\ pair.file = file => BothFiles(file)

\* What is held in variables of a pair is what its rows say.
PairRows ==
    \A file \in Files : pair # NoPair /\ pair.file = file =>
        /\ file \in KnownFiles("left") \cap KnownFiles("right")
        /\ \A side \in Side :
              LET seen == pair.seen[side]
                  row == facts[side][file]
              IN  /\ seen.size = row.size
                  /\ seen.partial \in { 0, row.partial }
                  /\ seen.full \in { 0, row.full }
                  /\ side \in pair.errs => row.failed

\* A pair ends with a verdict that is true of the two files.
LEMMA PairEnds ==
    ASSUME Sound, PairTrue, PairRows, pair # NoPair, Unread = {}, ParentPath(pair.file) \in CommonDirs
    PROVE  LET file == pair.file
           IN  /\ Decided(file)
               /\ Stage = "matching" => disk["left"][file].content = disk["right"][file].content
               /\ Stage # "matching" /\ pair.errs = {} =>
                     disk["left"][file].content # disk["right"][file].content
               /\ Stage = "matching" => pair.seen["left"].full # 0
  <1>0. PairInv /\ RowsInv /\ Side = { "left", "right" }
    BY DEF Sound, TInv, Side
  <1> DEFINE file == pair.file
             l == pair.seen["left"]
             r == pair.seen["right"]
             lrow == facts["left"][file]
             rrow == facts["right"][file]
             lheld == disk["left"][file]
             rheld == disk["right"][file]
  <1>1. pair \in Pairs /\ file \in Files /\ file # Root /\ file \in AllPaths
    BY <1>0 DEF PairInv, Pairs, AllPaths
  <1>2. /\ BothFiles(file)
        /\ l.size = lrow.size /\ l.partial \in { 0, lrow.partial } /\ l.full \in { 0, lrow.full }
        /\ r.size = rrow.size /\ r.partial \in { 0, rrow.partial } /\ r.full \in { 0, rrow.full }
        /\ "left" \in pair.errs => lrow.failed
        /\ "right" \in pair.errs => rrow.failed
    BY <1>0, <1>1 DEF PairTrue, PairRows
  <1>3. /\ lheld # NoFile /\ lrow.version = lheld.version
        /\ rheld # NoFile /\ rrow.version = rheld.version
    BY <1>0, <1>1, <1>2, EntryFacts DEF BothFiles
  <1>4. IsTrue(lrow, lheld) /\ IsTrue(rrow, rheld)
    BY <1>0, <1>1 DEF Sound, FactsTrue
  <1>5. /\ l.size = SizeOf[lheld.content] /\ r.size = SizeOf[rheld.content]
        /\ l.partial \in { 0, PartialOf[lheld.content] } /\ r.partial \in { 0, PartialOf[rheld.content] }
        /\ l.full \in { 0, lheld.content } /\ r.full \in { 0, rheld.content }
    BY <1>2, <1>3, <1>4 DEF IsTrue
  <1>6. Stage = NextCascadeStep(l, r)
    BY DEF Stage
  <1>7. Unread = {} => \/ Stage \notin { "partial", "full" }
                       \/ /\ l[Stage] = 0 => "left" \in pair.errs
                          /\ r[Stage] = 0 => "right" \in pair.errs
    BY <1>0 DEF Unread
  <1> HIDE DEF l, r
  <1>8. \/ l.size # r.size /\ Stage = "differs"
        \/ 0 \in { l.partial, r.partial } /\ Stage = "partial"
        \/ 0 \notin { l.partial, r.partial } /\ l.partial # r.partial /\ Stage = "differs"
        \/ 0 \in { l.full, r.full } /\ Stage = "full"
        \/ 0 \notin { l.full, r.full } /\ l.full # r.full /\ Stage = "differs"
        \/ 0 \notin { l.full, r.full } /\ l.full = r.full /\ Stage = "matching"
    BY <1>6 DEF NextCascadeStep
  <1>9. /\ Stage = "partial" => ("left" \in pair.errs \/ l.partial # 0) /\ ("right" \in pair.errs \/ r.partial # 0)
        /\ Stage = "full" => ("left" \in pair.errs \/ l.full # 0) /\ ("right" \in pair.errs \/ r.full # 0)
    BY <1>7
  <1> HIDE DEF file, lrow, rrow, lheld, rheld
  <1>10. \/ lrow.failed \/ rrow.failed \/ lrow.size # rrow.size
         \/ 0 \notin { lrow.full, rrow.full }
         \/ 0 \notin { lrow.partial, rrow.partial } /\ lrow.partial # rrow.partial
    BY <1>2, <1>8, <1>9
  <1>11. Stage = "matching" => lheld.content = rheld.content
    BY <1>5, <1>8
  <1>12. Stage # "matching" /\ pair.errs = {} => lheld.content # rheld.content
    BY <1>5, <1>8, <1>9
  <1>13. Stage = "matching" => l.full # 0
    BY <1>8
  <1> QED
    BY <1>10, <1>11, <1>12, <1>13 DEF Decided, file, l, lrow, rrow, lheld, rheld

-----------------------------------------------------------------------------
(* What Pass 2 has done *)

\* What the activation at level k has taken out of its list, but not yet its
\* result: the directory it descended into, or the pair being compared.
Waiting(k) ==
    IF k < Len(frames) THEN { frames[k + 1].dir }
    ELSE IF pair # NoPair THEN { pair.file } ELSE {}

\* What the activation of a directory that has been entered says of what it
\* has taken the results of.
Took(dir, frame, waiting) ==
    /\ DirInError(dir) => frame.errs # {}
    /\ ~frame.same /\ frame.errs = {} => Unlike(dir)
    /\ \A path \in Opened(dir) \ (frame.todo \cup waiting) :
          /\ frame.same /\ frame.errs = {} =>
                \A file \in Differences(dir) : ~IsWithinSubtree(file, path)
          /\ BothFiles(path) => Decided(path)

ActivationsTrue ==
    \A k \in 1..Len(frames), dir \in Dirs : dir = frames[k].dir =>
        dir \in CommonDirs /\ (frames[k].entered => Took(dir, frames[k], Waiting(k)))

PassTrue == VerdictsTrue /\ ActivationsTrue /\ PairTrue /\ ResolvedThere

LEMMA WorldStays ==
    ASSUME KeepsKnown, UNCHANGED worldVars
    PROVE  /\ CommonDirs' = CommonDirs
           /\ \A dir : /\ Differences(dir)' = Differences(dir)
                       /\ Unlike(dir)' <=> Unlike(dir)
                       /\ Opened(dir)' = Opened(dir)
                       /\ BothFiles(dir)' <=> BothFiles(dir)
  <1>1. disk' = disk /\ dirs' = dirs /\ ignored' = ignored
    BY DEF worldVars
  <1>2. \A side \in Side : KnownDirs(side)' = KnownDirs(side) /\ KnownFiles(side)' = KnownFiles(side)
    BY KnownStays
  <1>3. \A path : PairIgnored(path)' <=> PairIgnored(path)
    BY <1>1, PairsStay
  <1>4. \A path : LeftOut(path)' <=> LeftOut(path)
    BY <1>1 DEF LeftOut, Holds
  <1>5. \A path, dir : Shown(path, dir)' <=> Shown(path, dir)
    BY <1>4 DEF Shown
  <1>6. CommonDirs' = CommonDirs
    BY <1>1, <1>4, <1>5 DEF CommonDirs
  <1>7. \A dir : Differences(dir)' = Differences(dir)
    BY <1>1, <1>5 DEF Differences
  <1>8. \A dir : IgnoredInOneSided(dir)' = IgnoredInOneSided(dir)
    BY <1>1, <1>5 DEF IgnoredInOneSided
  <1>9. \A dir : Unlike(dir)' <=> Unlike(dir)
    BY <1>7, <1>8 DEF Unlike
  <1>10. \A dir : Opened(dir)' = Opened(dir)
    BY <1>2 DEF Opened
  <1>11. \A path : BothFiles(path)' <=> BothFiles(path)
    BY <1>2, <1>3 DEF BothFiles, Side
  <1> QED
    BY <1>6, <1>7, <1>9, <1>10, <1>11

LEMMA OpenedChildren ==
    ASSUME NEW dir, NEW path \in Opened(dir)
    PROVE  path \in AllPaths \ { Root } /\ ParentPath(path) = dir
  BY DEF Opened, ChildrenOf, KnownDirs, KnownFiles, AllPaths

LEMMA VerdictStep ==
    ASSUME KeepsKnown, UNCHANGED worldVars, NEW dir, Verdict(dir),
           \A side \in Side : /\ node'[side][dir].resolved
                              /\ node'[side][dir].checksum = node[side][dir].checksum,
           DirInError(dir) => DirInError(dir)',
           \A file \in Files : ParentPath(file) = dir =>
               (Decided(file) \/ (pair # NoPair /\ file = pair.file)
                   => Decided(file)' \/ (pair' # NoPair /\ file = pair'.file))
    PROVE  Verdict(dir)'
  <1>1. /\ CommonDirs' = CommonDirs /\ Differences(dir)' = Differences(dir)
        /\ Unlike(dir)' <=> Unlike(dir)
        /\ \A path : BothFiles(path)' <=> BothFiles(path)
    BY WorldStays
  <1>2. "left" \in Side /\ "right" \in Side
    BY DEF Side
  <1>3. /\ \A side \in Side : node'[side][dir].resolved
        /\ node'["left"][dir].checksum = node'["right"][dir].checksum
        /\ node'["left"][dir].checksum # {} => Differences(dir)' = {}
        /\ node'["left"][dir].checksum = {} /\ ~DirInError(dir)' => Unlike(dir)'
    BY <1>1, <1>2 DEF Verdict
  <1>5. \A file \in Files : BothFiles(file)' /\ ParentPath(file) = dir =>
            Decided(file)' \/ (pair' # NoPair /\ file = pair'.file)
    BY <1>1 DEF Verdict
  <1> QED
    BY <1>3, <1>5 DEF Verdict

\* What an activation comes to say when it has taken the results of some entries.
LEMMA TookStep ==
    ASSUME KeepsKnown, UNCHANGED worldVars, NEW dir, NEW old, NEW before, Took(dir, old, before),
           NEW new, NEW after,
           DirInError(dir)' => DirInError(dir),
           new.same => old.same, old.errs \subseteq new.errs,
           ~new.same /\ new.errs = {} => ~old.same \/ Unlike(dir),
           \A path \in Opened(dir) \ (new.todo \cup after) :
               BothFiles(path) /\ Decided(path) => Decided(path)',
           \A path \in Opened(dir) \ (new.todo \cup after) : path \in old.todo \cup before =>
               /\ new.same /\ new.errs = {} =>
                     \A file \in Differences(dir) : ~IsWithinSubtree(file, path)
               /\ BothFiles(path) => Decided(path)'
    PROVE  Took(dir, new, after)'
  <1>1. /\ CommonDirs' = CommonDirs /\ Differences(dir)' = Differences(dir)
        /\ Unlike(dir)' <=> Unlike(dir)
        /\ Opened(dir)' = Opened(dir)
        /\ \A path : BothFiles(path)' <=> BothFiles(path)
    BY WorldStays
  <1>2. new.errs = {} => old.errs = {}
    OBVIOUS
  <1>3. DirInError(dir)' => new.errs # {}
    BY <1>2 DEF Took
  <1>4. ~new.same /\ new.errs = {} => Unlike(dir)'
    BY <1>1, <1>2 DEF Took
  <1>5. ASSUME NEW path \in Opened(dir) \ (new.todo \cup after)
        PROVE  /\ new.same /\ new.errs = {} =>
                     \A file \in Differences(dir) : ~IsWithinSubtree(file, path)
               /\ BothFiles(path) => Decided(path)'
    <2>1. CASE path \in old.todo \cup before
      BY <1>5, <2>1
    <2>2. CASE path \notin old.todo \cup before
      <3>1. /\ old.same /\ old.errs = {} =>
                  \A file \in Differences(dir) : ~IsWithinSubtree(file, path)
            /\ BothFiles(path) => Decided(path)
        BY <1>5, <2>2 DEF Took
      <3> QED
        BY <1>2, <1>5, <3>1
    <2> QED
      BY <2>1, <2>2
  <1> QED
    BY <1>1, <1>3, <1>4, <1>5 DEF Took

LEMMA ActivationsStep ==
    ASSUME \A k \in 1..Len(frames'), dir \in Dirs : \A f, w :
               f = frames'[k] /\ w = Waiting(k)' /\ dir = f.dir =>
                   dir \in CommonDirs' /\ (f.entered => Took(dir, f, w)')
    PROVE  ActivationsTrue'
  BY DEF ActivationsTrue, Took

\* Nothing that the statuses depend on changes.
LEMMA PassTrueStill ==
    ASSUME PassTrue, UNCHANGED << worldVars, rowVars, frames, pair >>
    PROVE  PassTrue'
  <1>1. /\ KeepsKnown /\ UNCHANGED worldVars /\ node' = node /\ facts' = facts
        /\ frames' = frames /\ pair' = pair
    BY DEF rowVars, KeepsKnown
  <1>2. \A file : Decided(file)' <=> Decided(file)
    BY <1>1 DEF Decided
  <1>3. \A dir : DirInError(dir)' <=> DirInError(dir)
    BY <1>1 DEF DirInError, HasError, InError
  <1>4. /\ CommonDirs' = CommonDirs
        /\ \A dir : /\ Differences(dir)' = Differences(dir)
                    /\ Unlike(dir)' <=> Unlike(dir)
                    /\ Opened(dir)' = Opened(dir)
                    /\ BothFiles(dir)' <=> BothFiles(dir)
    BY <1>1, WorldStays
  <1>5. VerdictsTrue'
    <2> SUFFICES ASSUME NEW dir \in CommonDirs, ~ToCome(dir)'
                 PROVE  Verdict(dir)'
      BY <1>4 DEF VerdictsTrue
    <2>1. ~ToCome(dir)
      BY <1>1 DEF ToCome
    <2> QED
      BY <1>1, <1>2, <1>3, <1>4, <2>1, VerdictStep DEF PassTrue, VerdictsTrue, Verdict
  <1>6. ActivationsTrue'
    BY <1>1, <1>2, <1>3, <1>4 DEF PassTrue, ActivationsTrue, Took, Waiting
  <1>7. PairTrue'
    BY <1>1, <1>4 DEF PassTrue, PairTrue
  <1>8. ResolvedThere'
    BY <1>1 DEF PassTrue, ResolvedThere, worldVars
  <1> QED
    BY <1>5, <1>6, <1>7, <1>8 DEF PassTrue

LEMMA KindsOn ==
    ASSUME KindsApart, NEW side \in Side, NEW path
    PROVE  /\ KindNow(side, path) = "directory" <=> path \in KnownDirs(side)
           /\ KindNow(side, path) = "file" <=> path \in KnownFiles(side)
           /\ KindNow(side, path) = "none" <=> path \notin Known(side)
  BY DEF KindsApart, KindNow, Known

\* The innermost activation is of a directory of its own.
LEMMA TopApart ==
    ASSUME NEW s, IsNest(s), NEW k \in 1..(Len(s) - 1)
    PROVE  s[k].dir # s[Len(s)].dir
  <1>0. Len(s) \in Nat
    BY StackFacts DEF IsNest
  <1>1. k + 1 \in 1..Len(s) /\ Len(s) \in 1..Len(s) /\ k + 1 <= Len(s)
    BY <1>0
  <1>2. IsWithinSubtree(s[Len(s)].dir, s[k + 1].dir)
    BY <1>1, NestChain
  <1>3. IsFrame(s[k + 1]) /\ s[k + 1].dir # Root /\ ParentPath(s[k + 1].dir) = s[k].dir
    BY <1>1 DEF IsNest
  <1>4. s[k + 1].dir \in AllPaths \ { Root }
    BY <1>3, FrameTypes DEF AllPaths
  <1> QED
    BY <1>2, <1>3, <1>4, ChildWithin

\* A step of the innermost activation, which may have pushed one more.
LEMMA TopStep ==
    ASSUME IsNest(frames), frames # << >>, NEW top, top = Top.dir, NEW n, n = Len(frames),
           ActivationsTrue, KeepsKnown, UNCHANGED worldVars,
           node' = node, Len(frames') \in { Len(frames), Len(frames) + 1 },
           \A path : ParentPath(path) # top /\ BothFiles(path) /\ Decided(path) => Decided(path)',
           \A i \in 1..(Len(frames) - 1) : frames'[i] = frames[i],
           frames'[Len(frames)].dir = top,
           \A f, w : f = frames'[n] /\ w = Waiting(n)' /\ f.entered =>
               Took(top, f, w)',
           Len(frames') = Len(frames) + 1 =>
               LET pushed == frames'[Len(frames) + 1]
               IN  pushed.dir \in CommonDirs /\ ~pushed.entered
    PROVE  ActivationsTrue'
  <1>0. n \in Nat \ {0} /\ n \in 1..n /\ top = frames[n].dir /\ top \in Dirs
    BY NestTop DEF Top
  <1>1. CommonDirs' = CommonDirs
    BY WorldStays
  <1> SUFFICES ASSUME NEW k \in 1..Len(frames'), NEW dir \in Dirs, NEW f, NEW w,
                      f = frames'[k], w = Waiting(k)', dir = f.dir
               PROVE  dir \in CommonDirs' /\ (f.entered => Took(dir, f, w)')
    BY ActivationsStep
  <1>2. CASE k = n
    <2>1. top \in CommonDirs
      BY <1>0 DEF ActivationsTrue
    <2> QED
      BY <1>0, <1>1, <1>2, <2>1
  <1>3. CASE k = n + 1
    BY <1>0, <1>1, <1>3
  <1>4. CASE k \in 1..(n - 1)
    <2>1. f = frames[k] /\ k + 1 \in 1..n /\ k < n /\ k < Len(frames') /\ k \in 1..n
      BY <1>0, <1>4
    <2>2. frames'[k + 1].dir = frames[k + 1].dir
      <3>1. k + 1 = n \/ k + 1 \in 1..(n - 1)
        BY <1>0, <1>4
      <3> QED
        BY <1>0, <3>1
    <2>3. w = Waiting(k)
      BY <2>1, <2>2 DEF Waiting
    <2>4. dir \in CommonDirs /\ (f.entered => Took(dir, f, w))
      BY <2>1, <2>3 DEF ActivationsTrue
    <2>5. dir # top
      BY <1>0, <1>4, <2>1, TopApart
    <2>6. DirInError(dir)' <=> DirInError(dir)
      BY DEF DirInError, HasError, InError
    <2>7. \A path \in Opened(dir) : BothFiles(path) /\ Decided(path) => Decided(path)'
      BY <2>5, OpenedChildren
    <2>8. f.entered => Took(dir, f, w)'
      BY <2>4, <2>6, <2>7, TookStep
    <2> QED
      BY <1>1, <2>4, <2>8
  <1>5. k = n \/ k = n + 1 \/ k \in 1..(n - 1)
    BY <1>0
  <1> QED
    BY <1>2, <1>3, <1>4, <1>5

\* The rows of the directories stay as they are, and so do the verdicts on them.
LEMMA VerdictsStay ==
    ASSUME VerdictsTrue, KeepsKnown, UNCHANGED worldVars, node' = node,
           \A dir \in CommonDirs : ToCome(dir) => ToCome(dir)',
           \A file \in Files :
               Decided(file) \/ (pair # NoPair /\ file = pair.file)
                   => Decided(file)' \/ (pair' # NoPair /\ file = pair'.file)
    PROVE  VerdictsTrue'
  <1>1. CommonDirs' = CommonDirs
    BY WorldStays
  <1>2. ASSUME NEW dir \in CommonDirs, ~ToCome(dir)'
        PROVE  Verdict(dir)'
    <2>1. Verdict(dir)
      BY <1>2 DEF VerdictsTrue
    <2>2. \A s \in Side : node[s][dir].resolved
      BY <2>1 DEF Verdict
    <2>3. DirInError(dir)' <=> DirInError(dir)
      BY DEF DirInError, HasError, InError
    <2> QED
      BY <2>1, <2>2, <2>3, VerdictStep
  <1> QED
    BY <1>1, <1>2 DEF VerdictsTrue

\* What the innermost activation has to come to stays with it or with the one it pushes.
LEMMA ToComeKept ==
    ASSUME IsNest(frames), frames # << >>, NEW dir, ToCome(dir),
           NEW n, n = Len(frames), Len(frames') \in { n, n + 1 },
           \A i \in 1..(n - 1) : frames'[i] = frames[i],
           ToComeIn(Top, dir) =>
               \/ ToComeIn(frames'[n], dir)
               \/ Len(frames') = n + 1 /\ ToComeIn(frames'[n + 1], dir)
    PROVE  ToCome(dir)'
  <1>0. n \in Nat \ {0} /\ n \in 1..n
    BY NestTop
  <1>1. PICK k \in 1..n : ToComeIn(frames[k], dir)
    BY DEF ToCome
  <1>2. \E m \in 1..Len(frames') : ToComeIn(frames'[m], dir)
    <2>1. CASE k = n
      BY <1>0, <1>1, <2>1 DEF Top
    <2>2. CASE k \in 1..(n - 1)
      BY <1>0, <1>1, <2>2
    <2> QED
      BY <1>0, <2>1, <2>2
  <1> QED
    BY <1>2 DEF ToCome, ToComeIn

\* The activation of a directory comes to those below it that both sides have.
LEMMA ToComeChild ==
    ASSUME Sound, NEW top \in CommonDirs, NEW dir \in CommonDirs, IsWithinSubtree(dir, top), dir # top
    PROVE  \E path \in CommonDirs \ { Root } :
               /\ ParentPath(path) = top /\ IsWithinSubtree(dir, path)
               /\ \A side \in Side : path \in KnownDirs(side)
  <1>0. TreesInv
    BY DEF Sound, TInv
  <1>1. dir \in AllPaths /\ \A above \in Lineage(dir) : above \in CommonDirs
    BY <1>0, CommonFacts
  <1>2. PICK path \in Lineage(dir) : path \in AllPaths \ { Root } /\ ParentPath(path) = top
    BY <1>1, ChildToward DEF IsWithinSubtree
  <1>3. path \in CommonDirs
    BY <1>1
  <1>4. path \in KnownDirs("left") \cap KnownDirs("right")
    BY <1>2, <1>3, EntryFacts
  <1> QED
    BY <1>2, <1>3, <1>4 DEF IsWithinSubtree, Side

\* What a step of Pass 2 finds.
LEMMA TopFacts ==
    ASSUME Sound, PassTrue, frames # << >>
    PROVE  /\ Top.dir \in CommonDirs /\ Top.dir \in Dirs /\ Top.dir \in AllPaths
           /\ ~PairIgnored(Top.dir)
           /\ Top.entered => Took(Top.dir, Top, IF pair # NoPair THEN { pair.file } ELSE {})
  <1>0. TreesInv /\ IsNest(frames)
    BY DEF Sound, TInv
  <1>1. Len(frames) \in 1..Len(frames) /\ ~(Len(frames) < Len(frames)) /\ Top = frames[Len(frames)] /\ Top.dir \in Dirs
    BY <1>0, NestTop DEF Top
  <1>2. /\ Top.dir \in CommonDirs
        /\ Top.entered => Took(Top.dir, Top, Waiting(Len(frames)))
    BY <1>1 DEF PassTrue, ActivationsTrue
  <1>3. Waiting(Len(frames)) = IF pair # NoPair THEN { pair.file } ELSE {}
    BY <1>1 DEF Waiting
  <1>4. /\ NotOut(Top.dir) /\ Top.dir \in AllPaths
        /\ \A side \in Side : Holds(side, Top.dir)
    BY <1>0, <1>2, CommonFacts DEF Holds
  <1>5. ~PairIgnored(Top.dir)
    BY <1>4, PathFacts DEF PairIgnored, NotOut, LeftOut
  <1> QED
    BY <1>1, <1>2, <1>3, <1>4, <1>5

LEMMA CachedRow ==
    ASSUME NEW row \in FactRow
    PROVE  /\ Cached(row).size = row.size
           /\ Cached(row).partial \in { 0, row.partial }
           /\ Cached(row).full \in { 0, row.full }
  BY DEF Cached, FactRow

LEMMA ResolvedStays ==
    ASSUME ResolvedThere, UNCHANGED worldVars, node' = node
    PROVE  ResolvedThere'
  BY DEF ResolvedThere, worldVars

\* An activation that has to look at its entries opens the directory.
LEMMA PassOpens ==
    ASSUME Sound, PassTrue, Enter, ~HitNow(Top.dir)
    PROVE  PassTrue'
  <1>0. TInv /\ HeldRight /\ IsNest(frames) /\ TreesInv
    BY DEF Sound, TInv
  <1>1. /\ frames # << >> /\ ~Top.entered /\ UNCHANGED worldVars /\ facts' = facts /\ pair' = pair
        /\ KeepsKnown
    BY <1>0, Pass2KeepsKnown DEF Enter, Pass2
  <1>2. ~PairIgnored(Top.dir) /\ ~HitNow(Top.dir)
    BY <1>1, TopFacts
  <1>3. /\ node' = node
        /\ frames' = Append(Rest, [Top EXCEPT
               !.entered = TRUE, !.todo = Opened(Top.dir),
               !.errs = { side \in Side : HasError(side, Top.dir) }])
    BY <1>0, <1>2, EnterIsNow DEF EnterNow
  <1>a. PICK dir, n : dir = Top.dir /\ n = Len(frames)
    OBVIOUS
  <1> DEFINE new == frames'[n]
  <1>4. /\ frames' # << >> /\ Len(frames') = n
        /\ \A i \in 1..(n - 1) : frames'[i] = frames[i]
        /\ new.dir = dir /\ new.entered /\ new.todo = Opened(dir) /\ new.same
        /\ new.errs = { side \in Side : HasError(side, dir) }
    <2>1. PICK errs \in SUBSET Side : errs = { side \in Side : HasError(side, dir) }
      OBVIOUS
    <2>2. frames' = Append(Rest, [Top EXCEPT
               !.entered = TRUE, !.todo = Opened(Top.dir), !.errs = errs])
      BY <1>3, <1>a, <2>1
    <2>3. /\ frames' # << >> /\ Len(frames') = Len(frames)
          /\ \A i \in 1..(Len(frames) - 1) : frames'[i] = frames[i]
          /\ frames'[Len(frames)] = Top'
          /\ Top'.dir = Top.dir /\ Top'.entered
          /\ Top'.todo = Opened(Top.dir) /\ Top'.same /\ Top'.errs = errs
      BY <1>0, <1>1, <2>2, OpenedFrame
    <2> QED
      BY <1>a, <2>1, <2>3
  <1>5. \A file : Decided(file)' <=> Decided(file)
    BY <1>1 DEF Decided
  <1>6. VerdictsTrue'
    <2>1. ASSUME NEW d \in CommonDirs, ToCome(d) PROVE ToCome(d)'
      <3>1. ASSUME ToComeIn(Top, d) PROVE ToComeIn(frames'[n], d)
        <4>1. dir \in CommonDirs /\ IsWithinSubtree(d, dir)
          BY <1>1, <1>a, <3>1, TopFacts DEF ToComeIn
        <4>2. d # dir => \E path \in Opened(dir) : IsWithinSubtree(d, path)
          <5>1. ASSUME NEW path \in CommonDirs \ { Root }, ParentPath(path) = dir,
                       \A side \in Side : path \in KnownDirs(side)
                PROVE  path \in Opened(dir)
            BY <5>1 DEF Opened, ChildrenOf, Side
          <5> QED
            BY <4>1, <5>1, ToComeChild
        <4> QED
          BY <1>4, <4>1, <4>2 DEF ToComeIn
      <3> QED
        BY <1>0, <1>1, <1>4, <1>a, <2>1, <3>1, ToComeKept
    <2> QED
      BY <1>1, <1>3, <1>5, <2>1, VerdictsStay DEF PassTrue
  <1>7. ASSUME NEW f, NEW w, f = new PROVE Took(dir, f, w)'
    <2>1. DirInError(dir)' <=> DirInError(dir)
      BY <1>3 DEF DirInError, HasError, InError
    <2>2. Opened(dir)' = Opened(dir)
      BY <1>1, WorldStays
    <2>3. DirInError(dir) => f.errs # {}
      BY <1>4, <1>7 DEF DirInError
    <2> QED
      BY <1>4, <1>7, <2>1, <2>2, <2>3 DEF Took
  <1>8. ActivationsTrue'
    <2>1. Len(frames') # Len(frames) + 1
      BY <1>0, <1>1, <1>4, <1>a, NestTop
    <2> QED
      BY <1>0, <1>1, <1>3, <1>4, <1>5, <1>7, <1>a, <2>1, TopStep DEF PassTrue
  <1>9. PairTrue'
    BY <1>1, WorldStays DEF PassTrue, PairTrue
  <1>10. ResolvedThere'
    BY <1>1, <1>3, ResolvedStays DEF PassTrue
  <1> QED
    BY <1>6, <1>8, <1>9, <1>10 DEF PassTrue

LEMMA PassEntry ==
    ASSUME Sound, PassTrue, NEW path, NextEntry(path)
    PROVE  PassTrue'
  <1>0. TInv /\ IsNest(frames) /\ TreesInv /\ RowsInv /\ KindsApart /\ HeldRight /\ Side = { "left", "right" }
    BY DEF Sound, TInv, Side
  <1>a. PICK dir, n : dir = Top.dir /\ n = Len(frames)
    OBVIOUS
  <1> DEFINE rest == frames'[n]
  <1>1. /\ frames # << >> /\ Top.entered /\ path \in Top.todo /\ pair = NoPair
        /\ UNCHANGED worldVars /\ node' = node /\ facts' = facts
    BY DEF NextEntry, Loops, worldVars, rowVars
  <1>2. /\ frames' # << >> /\ Len(frames') \in { n, n + 1 }
        /\ path \in AllPaths \ { Root } /\ ParentPath(path) = dir
        /\ \A i \in 1..(n - 1) : frames'[i] = frames[i]
        /\ rest.dir = dir /\ rest.todo = Top.todo \ { path } /\ rest.errs = Top.errs
        /\ \/ /\ SkipsNow(path) /\ Len(frames') = n /\ rest.same = Top.same
              /\ pair' = pair
           \/ /\ DiffersNow(path) /\ Len(frames') = n /\ ~rest.same
              /\ pair' = pair
           \/ /\ DescendsNow(path) /\ Len(frames') = n + 1 /\ rest.same = Top.same
              /\ frames'[n + 1] = Activation(path) /\ pair' = pair
           \/ /\ ComparesNow(path) /\ Len(frames') = n /\ rest.same = Top.same
              /\ path \in Files /\ pair' \in Pairs
              /\ pair'.file = path /\ pair'.errs = {}
              /\ \A side \in Side : pair'.seen[side] = Cached(facts[side][path])
    BY <1>0, <1>a, EntryStackNow
  <1>3. KeepsKnown
    BY <1>0, <1>2, Pass2KeepsKnown DEF Pass2, AllPaths
  <1>4. /\ dir \in CommonDirs /\ Took(dir, Top, {}) /\ n \in Nat /\ IsFrame(Top)
    BY <1>0, <1>1, <1>a, TopFacts, NestTop DEF Top
  <1>5. \A file : Decided(file)' <=> Decided(file)
    BY <1>1 DEF Decided
  <1>6. DirInError(dir)' <=> DirInError(dir)
    BY <1>1 DEF DirInError, HasError, InError
  <1>7. /\ path \in CommonDirs <=>
              path \in KnownDirs("left") \cap KnownDirs("right") /\ ~PairIgnored(path)
        /\ Top.errs = {} => ~DirInError(dir)
    BY <1>2, <1>4, EntryFacts DEF Took
  <1>8. /\ path \in CommonDirs => \A side \in Side : KindNow(side, path) = "directory"
        /\ BothFiles(path) => \A side \in Side : KindNow(side, path) = "file"
        /\ path \in CommonDirs \/ BothFiles(path) => ~PairIgnored(path)
    BY <1>0, <1>7, KindsOn DEF BothFiles
  <1>9. ASSUME NEW f, f = rest, NEW w,
               \/ path \in w /\ f.same = Top.same
               \/ SkipsNow(path) /\ f.same = Top.same
               \/ DiffersNow(path) /\ ~f.same
        PROVE  Took(dir, f, w)'
    <2>1. SkipsNow(path) \/ DiffersNow(path) => path \notin CommonDirs /\ ~BothFiles(path)
      <3>1. AbsentNow(path) => /\ \E side \in Side : KindNow(side, path) = "directory"
                               /\ \E side \in Side : KindNow(side, path) = "none"
        BY DEF AbsentNow
      <3> QED
        BY <1>0, <1>8, <3>1 DEF SkipsNow, DiffersNow
    <2>2. ASSUME Top.errs = {}, SkipsNow(path), NEW file \in Differences(dir)
          PROVE  ~IsWithinSubtree(file, path)
      BY <1>2, <1>4, <1>7, <2>2, NothingBelowSkipped
    <2>3. DiffersNow(path) /\ Top.errs = {} => Unlike(dir)
      BY <1>2, <1>4, <1>7, KindsMakeUnlike DEF PassTrue
    <2>4. f.errs = Top.errs /\ f.todo = Top.todo \ { path } /\ (f.same => Top.same \/ ~DiffersNow(path))
      BY <1>2, <1>9
    <2>5. f.same => Top.same
      BY <1>9
    <2>6. ~f.same /\ f.errs = {} => ~Top.same \/ Unlike(dir)
      BY <1>9, <2>3, <2>4
    <2>7. \A p \in Opened(dir) \ (f.todo \cup w) : p \in Top.todo \cup {} =>
             /\ f.same /\ f.errs = {} => \A file \in Differences(dir) : ~IsWithinSubtree(file, p)
             /\ BothFiles(p) => Decided(p)'
      BY <1>9, <2>1, <2>2, <2>4
    <2> QED
      BY <1>1, <1>3, <1>4, <1>5, <1>6, <2>4, <2>5, <2>6, <2>7, TookStep
  <1>10. n # n + 1 /\ n < n + 1 /\ ~(n < n)
    BY <1>4
  <1>11. PairTrue'
    <2>1. CASE pair' = pair
      BY <1>1, <2>1 DEF PairTrue
    <2>2. CASE pair' # pair
      <3>1. /\ ComparesNow(path) /\ path \in Files /\ pair'.file = path /\ pair'.errs = {}
            /\ \A side \in Side : pair'.seen[side] = Cached(facts[side][path])
        BY <1>2, <2>2
      <3>2. BothFiles(path)'
        BY <1>0, <1>1, <1>3, <3>1, KindsOn, WorldStays DEF ComparesNow, BothFiles
      <3> QED
        BY <3>1, <3>2 DEF PairTrue
    <2> QED
      BY <2>1, <2>2
  <1>12. VerdictsTrue'
    <2>1. ASSUME NEW d \in CommonDirs, ToCome(d) PROVE ToCome(d)'
      <3>1. ASSUME ToComeIn(Top, d)
            PROVE  \/ ToComeIn(frames'[n], d)
                   \/ Len(frames') = n + 1 /\ ToComeIn(frames'[n + 1], d)
        <4>1. IsWithinSubtree(d, dir) /\ (d = dir \/ \E p \in Top.todo : IsWithinSubtree(d, p))
          BY <1>1, <1>a, <3>1 DEF ToComeIn
        <4>2. d = dir \/ (\E p \in rest.todo : IsWithinSubtree(d, p)) \/ IsWithinSubtree(d, path)
          BY <1>2, <4>1
        <4>3. d = dir \/ (\E p \in rest.todo : IsWithinSubtree(d, p)) => ToComeIn(rest, d)
          BY <1>2, <4>1 DEF ToComeIn
        <4>4. ASSUME IsWithinSubtree(d, path)
              PROVE  Len(frames') = n + 1 /\ ToComeIn(frames'[n + 1], d)
          <5>1. path \in CommonDirs
            BY <1>0, <4>4, CommonFacts DEF IsWithinSubtree
          <5>2. ~SkipsNow(path) /\ ~DiffersNow(path) /\ ~ComparesNow(path)
            <6>1. ~PairIgnored(path) /\ \A side \in Side : KindNow(side, path) = "directory"
              BY <1>8, <5>1
            <6> QED
              BY <1>0, <6>1 DEF SkipsNow, DiffersNow, ComparesNow, AbsentNow
          <5>3. Len(frames') = n + 1 /\ frames'[n + 1] = Activation(path)
            BY <1>2, <5>2
          <5> QED
            BY <4>4, <5>3 DEF ToComeIn, Activation
        <4> QED
          BY <4>2, <4>3, <4>4
      <3> QED
        BY <1>0, <1>1, <1>2, <1>a, <2>1, <3>1, ToComeKept
    <2> QED
      BY <1>1, <1>3, <1>5, <2>1, VerdictsStay DEF PassTrue
  <1>13. ASSUME NEW f, NEW w, f = rest, w = Waiting(n)' PROVE Took(dir, f, w)'
    <2>1. CASE SkipsNow(path) /\ rest.same = Top.same
      BY <1>9, <1>13, <2>1
    <2>2. CASE DiffersNow(path) /\ ~rest.same
      BY <1>9, <1>13, <2>2
    <2>3. CASE /\ Len(frames') = n + 1 /\ rest.same = Top.same
               /\ frames'[n + 1] = Activation(path)
      <3>1. w = { path }
        BY <1>10, <1>13, <2>3 DEF Waiting, Activation
      <3> QED
        BY <1>9, <1>13, <2>3, <3>1
    <2>4. CASE /\ Len(frames') = n /\ rest.same = Top.same
               /\ pair' \in Pairs /\ pair'.file = path
      <3>1. pair' # NoPair
        BY <1>2, <2>4 DEF NoPair
      <3>2. w = { path }
        BY <1>10, <1>13, <2>4, <3>1 DEF Waiting
      <3> QED
        BY <1>9, <1>13, <2>4, <3>2
    <2> QED
      BY <1>2, <2>1, <2>2, <2>3, <2>4
  <1>14. ActivationsTrue'
    <2>1. Len(frames') = n + 1 => frames'[n + 1].dir \in CommonDirs /\ ~frames'[n + 1].entered
      <3>1. Len(frames') = n + 1 => DescendsNow(path) /\ frames'[n + 1] = Activation(path)
        BY <1>2, <1>10
      <3>2. DescendsNow(path) => path \in CommonDirs
        BY <1>0, <1>7, KindsOn DEF DescendsNow
      <3> QED
        BY <3>1, <3>2 DEF Activation
    <2>2. \A p : Decided(p) => Decided(p)'
      BY <1>5
    <2> QED
      BY <1>0, <1>1, <1>2, <1>3, <1>13, <1>a, <2>1, <2>2, TopStep DEF PassTrue
  <1>15. ResolvedThere'
    BY <1>1, ResolvedStays DEF PassTrue
  <1> QED
    BY <1>11, <1>12, <1>14, <1>15 DEF PassTrue

\* A read that ends, well or badly, tells only of the pair.
LEMMA PassRead ==
    ASSUME Sound, PassTrue, HashSucceeds \/ HashFails
    PROVE  PassTrue'
  <1>0. TInv /\ KindsApart /\ HeldRight /\ IsNest(frames) /\ RowsInv /\ TreesInv /\ PairInv
    BY DEF Sound, TInv
  <1>a. PICK dir, n, file : dir = Top.dir /\ n = Len(frames) /\ file = pair.file
    OBVIOUS
  <1>1. /\ at = "hash" /\ UNCHANGED worldVars /\ node' = node /\ frames' = frames /\ KeepsKnown
    BY <1>0, CalmFails, Pass2KeepsKnown DEF HashSucceeds, HashFails, Pass2
  <1>2. /\ pair # NoPair /\ Reader \in Side /\ Reader \in Unread /\ Stage \in { "partial", "full" }
        /\ frames # << >> /\ ParentPath(file) = dir /\ Reader \notin pair.errs
        /\ file \in Files
    BY <1>0, <1>1, <1>a, ReaderFacts DEF PairInv, Unread
  <1>3. /\ pair' \in Pairs /\ pair'.file = file
        /\ \A side \in Side, f \in Files : side # Reader \/ f # file => facts'[side][f] = facts[side][f]
    <2>1. CASE HashSucceeds
      BY <1>0, <1>a, <2>1, ReadRows, CalmReads
    <2>2. CASE HashFails
      <3>1. /\ pair' \in Pairs /\ pair'.file = file
            /\ \A side \in Side, f \in Files : ~(side = Reader /\ f = file) => facts'[side][f] = facts[side][f]
        BY <1>0, <1>a, <2>2, FailRows, CalmFails
      <3> QED
        BY <3>1
    <2> QED
      BY <2>1, <2>2
  <1>4. pair' # NoPair
    BY <1>2, <1>3 DEF NoPair, Pairs
  <1>5. \A f \in Files : f # file => (Decided(f)' <=> Decided(f))
    BY <1>3 DEF Decided, Side
  <1>6. VerdictsTrue'
    <2>1. \A f \in Files : Decided(f) \/ (pair # NoPair /\ f = pair.file)
             => Decided(f)' \/ (pair' # NoPair /\ f = pair'.file)
      BY <1>3, <1>4, <1>5, <1>a
    <2> QED
      BY <1>1, <2>1, VerdictsStay DEF PassTrue, ToCome
  <1>7. ActivationsTrue'
    <2>1. Top.entered /\ n \in Nat /\ IsFrame(Top) /\ ~(n < n) /\ Len(frames') = n /\ frames'[n] = Top
      BY <1>0, <1>1, <1>2, <1>a, NestTop DEF PairInv, Top
    <2>2. Took(dir, Top, { file })
      BY <1>2, <1>a, <2>1, TopFacts
    <2>3. ASSUME NEW f, NEW w, f = frames'[n], w = Waiting(n)' PROVE Took(dir, f, w)'
      <3>1. f = Top /\ w = { file }
        BY <1>1, <1>3, <1>4, <2>1, <2>3 DEF Waiting
      <3>2. DirInError(dir)' <=> DirInError(dir)
        BY <1>1 DEF DirInError, HasError, InError
      <3>3. \A path \in Opened(dir) \ (f.todo \cup w) :
               BothFiles(path) /\ Decided(path) => Decided(path)'
        BY <1>5, <3>1 DEF BothFiles, KnownFiles
      <3>4. Took(dir, f, w)
        BY <2>2, <3>1
      <3> QED
        BY <1>1, <3>2, <3>3, <3>4, TookStep
    <2>4. \A path : ParentPath(path) # dir /\ BothFiles(path) /\ Decided(path) => Decided(path)'
      BY <1>2, <1>5 DEF BothFiles, KnownFiles
    <2>5. Len(frames') # Len(frames) + 1 /\ frames'[Len(frames)].dir = dir
      BY <1>a, <2>1
    <2> QED
      BY <1>0, <1>1, <1>2, <1>a, <2>1, <2>3, <2>4, <2>5, TopStep DEF PassTrue
  <1>10. PairTrue'
    <2>1. BothFiles(file)'
      BY <1>1, <1>2, <1>a, WorldStays DEF PassTrue, PairTrue
    <2> QED
      BY <1>3, <2>1 DEF PairTrue
  <1>11. ResolvedThere'
    BY <1>1, ResolvedStays DEF PassTrue
  <1> QED
    BY <1>6, <1>7, <1>10, <1>11 DEF PassTrue

LEMMA PassPairDone ==
    ASSUME Sound, PassTrue, PairRows, PairDone
    PROVE  PassTrue'
  <1>0. TInv /\ IsNest(frames) /\ RowsInv /\ TreesInv /\ PairInv /\ Side = { "left", "right" }
    BY DEF Sound, TInv, Side
  <1>a. PICK dir, n, file : dir = Top.dir /\ n = Len(frames) /\ file = pair.file
    OBVIOUS
  <1> DEFINE checksum == IF Stage = "matching" THEN { pair.seen["left"].full } ELSE {}
             new == frames'[n]
  <1>1. /\ pair # NoPair /\ Unread = {} /\ UNCHANGED worldVars /\ node' = node /\ facts' = facts
        /\ pair' = NoPair /\ KeepsKnown
        /\ frames' = Append(Rest, Taken(Top, pair.file, "file", checksum, pair.errs))
    BY <1>0, Pass2KeepsKnown DEF PairDone, rowVars, Pass2
  <1>2. /\ pair \in Pairs /\ file \in Files /\ file \in AllPaths \ { Root }
        /\ frames # << >> /\ Top.entered /\ ParentPath(file) = dir /\ pair.errs \in SUBSET Side
    BY <1>0, <1>1, <1>a DEF PairInv, Pairs, AllPaths
  <1>3. n \in Nat \ {0} /\ n \in 1..n /\ IsFrame(Top) /\ Top = frames[n]
    BY <1>0, <1>2, <1>a, NestTop DEF Top
  <1> HIDE DEF checksum
  <1>4. /\ frames' # << >> /\ Len(frames') = n
        /\ \A i \in 1..(n - 1) : frames'[i] = frames[i]
        /\ new.dir = dir /\ new.entered /\ new.todo = Top.todo
        /\ new.same = (Top.same /\ checksum # {})
        /\ new.errs = Top.errs \cup pair.errs
    <2> DEFINE x == Taken(Top, pair.file, "file", checksum, pair.errs)
    <2>1. /\ IsFrame(x) /\ x.dir = Top.dir /\ x.entered /\ x.todo = Top.todo
          /\ x.same = (Top.same /\ checksum # {}) /\ x.errs = Top.errs \cup pair.errs
      BY <1>2, <1>3, TakenFrame
    <2> HIDE DEF x
    <2>2. frames' = Append(Rest, x)
      BY <1>1 DEF x
    <2>3. frames' # << >> /\ Len(frames') = n /\ frames'[n] = x
          /\ \A i \in 1..(n - 1) : frames'[i] = frames[i]
      BY <1>0, <1>2, <1>a, <2>1, <2>2, Replaced
    <2> QED
      BY <1>a, <2>1, <2>3
  <1>5. dir \in CommonDirs /\ Took(dir, Top, { file })
    BY <1>1, <1>2, <1>a, TopFacts
  <1>6. /\ Decided(file)
        /\ Stage = "matching" => disk["left"][file].content = disk["right"][file].content
        /\ Stage # "matching" /\ pair.errs = {} =>
              disk["left"][file].content # disk["right"][file].content
    BY <1>1, <1>2, <1>5, <1>a, PairEnds DEF PassTrue
  <1>7. BothFiles(file)
    BY <1>1, <1>2, <1>a DEF PassTrue, PairTrue
  <1>8. \A side \in Side : disk[side][file] # NoFile /\ file \notin dirs[side]
    <2>1. \A side \in Side : disk[side][file] # NoFile
      BY <1>0, <1>2, <1>5, <1>7, EntryFacts DEF BothFiles
    <2> QED
      BY <1>0, <1>2, <2>1 DEF TreesInv
  <1>9. \A f : Decided(f)' <=> Decided(f)
    BY <1>1 DEF Decided
  <1>10. Stage # "matching" /\ pair.errs = {} /\ Top.errs = {} => Unlike(dir)
    <2> SUFFICES ASSUME Stage # "matching", pair.errs = {}, Top.errs = {} PROVE Unlike(dir)
      OBVIOUS
    <2>1. ~DirInError(dir)
      BY <1>5 DEF Took
    <2>2. ~LeftOut(file) /\ NotOut(dir) /\ dir \in AllPaths
      BY <1>2, <1>5, <1>7, <2>1, EntryFacts DEF BothFiles
    <2>3. NotOut(file) /\ IsWithinSubtree(file, dir)
      BY <1>2, <2>2, NotOutBelow, ChildWithin
    <2>4. Shown(file, dir)
      BY <1>2, <2>2, <2>3, ShownBelow
    <2> QED
      BY <1>2, <1>6, <2>4 DEF Unlike, Differences
  <1>11. ASSUME Stage = "matching", NEW other \in Differences(dir)
         PROVE  ~IsWithinSubtree(other, file)
    <2> SUFFICES ASSUME IsWithinSubtree(other, file) PROVE FALSE
      OBVIOUS
    <2>1. /\ other \in Files /\ other \in AllPaths
          /\ disk["left"][other].content # disk["right"][other].content
      BY <1>5, DifferenceIsThere
    <2>2. PICK side \in Side : disk[side][other] # NoFile
      BY <1>5, DifferenceIsThere
    <2>3. other # file
      BY <1>6, <1>11, <2>1
    <2>4. file \in dirs[side]
      BY <1>0, <2>1, <2>2, <2>3, AboveExists DEF Holds, IsWithinSubtree
    <2> QED
      BY <1>8, <2>4
  <1>12. checksum = {} <=> Stage # "matching"
    BY DEF checksum
  <1>13. ASSUME NEW f, NEW w, f = new, w = Waiting(n)' PROVE Took(dir, f, w)'
    <2>1. w = {}
      BY <1>1, <1>3, <1>4, <1>13 DEF Waiting
    <2>2. DirInError(dir)' <=> DirInError(dir)
      BY <1>1 DEF DirInError, HasError, InError
    <2>3. /\ f.same => Top.same
          /\ Top.errs \subseteq f.errs
          /\ ~f.same /\ f.errs = {} => ~Top.same \/ Unlike(dir)
      BY <1>4, <1>10, <1>12, <1>13
    <2>4. \A p \in Opened(dir) \ (f.todo \cup w) : p \in Top.todo \cup { file } =>
             /\ f.same /\ f.errs = {} => \A other \in Differences(dir) : ~IsWithinSubtree(other, p)
             /\ BothFiles(p) => Decided(p)'
      <3>2. f.same => Stage = "matching"
        BY <1>4, <1>12, <1>13
      <3> QED
        BY <1>4, <1>6, <1>9, <1>11, <1>13, <3>2
    <2> QED
      BY <1>1, <1>5, <1>9, <2>2, <2>3, <2>4, TookStep
  <1>14. ActivationsTrue'
    <2>1. Len(frames') # Len(frames) + 1
      BY <1>3, <1>4, <1>a
    <2> QED
      BY <1>0, <1>1, <1>2, <1>4, <1>9, <1>13, <1>a, <2>1, TopStep DEF PassTrue
  <1>15. VerdictsTrue'
    <2>1. ASSUME NEW d \in CommonDirs, ToCome(d) PROVE ToCome(d)'
      <3>1. ToComeIn(Top, d) => ToComeIn(frames'[n], d)
        BY <1>2, <1>4, <1>a DEF ToComeIn
      <3> QED
        BY <1>0, <1>2, <1>4, <1>a, <2>1, <3>1, ToComeKept
    <2> QED
      BY <1>1, <1>6, <1>9, <1>a, <2>1, VerdictsStay DEF PassTrue
  <1>16. PairTrue'
    BY <1>1 DEF PairTrue
  <1>17. ResolvedThere'
    BY <1>1, ResolvedStays DEF PassTrue
  <1> QED
    BY <1>14, <1>15, <1>16, <1>17 DEF PassTrue

\* The entries of a directory cover what lies below it.
LEMMA DifferenceIsOpened ==
    ASSUME Sound, NEW dir \in CommonDirs, ~DirInError(dir), NEW file \in Differences(dir)
    PROVE  \E path \in Opened(dir) : IsWithinSubtree(file, path)
  <1>0. TreesInv
    BY DEF Sound, TInv
  <1>1. /\ file \in Files /\ file \in AllPaths /\ file # dir /\ dir \in Lineage(file)
        /\ \E side \in Side : disk[side][file] # NoFile
    BY DifferenceIsThere DEF IsWithinSubtree
  <1>2. PICK side \in Side : disk[side][file] # NoFile
    BY <1>1
  <1>3. PICK path \in Lineage(file) : path \in AllPaths \ { Root } /\ ParentPath(path) = dir
    BY <1>1, ChildToward
  <1>4. Holds(side, path)
    BY <1>0, <1>1, <1>2, <1>3, AboveExists DEF Holds
  <1>5. path \in Known(side)
    BY <1>3, <1>4, EntryFacts DEF DirInError
  <1>6. path \in Opened(dir)
    BY <1>3, <1>5 DEF Opened, ChildrenOf, Known
  <1> QED
    BY <1>3, <1>6 DEF IsWithinSubtree
\* compareSubtree returns: the directory below takes the result of the innermost.
LEMMA PassReturns ==
    ASSUME Sound, PassTrue, frames # << >>, pair = NoPair, pair' = NoPair,
           UNCHANGED worldVars, facts' = facts, KeepsKnown,
           NEW sum, NEW errs \in SUBSET Side, frames' = Returned(sum, errs),
           NEW dir, dir = Top.dir,
           \A d \in CommonDirs : ToComeIn(Top, d) => Verdict(d)',
           \A d \in CommonDirs : ~ToComeIn(Top, d) =>
               \A side \in Side : /\ node[side][d].resolved => node'[side][d].resolved
                                  /\ node'[side][d].checksum = node[side][d].checksum,
           \A d \in Dirs : d # dir => (DirInError(d)' <=> DirInError(d)),
           sum # {} => Differences(dir) = {},
           sum = {} /\ errs = {} => Unlike(dir),
           ResolvedThere'
    PROVE  PassTrue'
  <1>0. TInv /\ IsNest(frames) /\ TreesInv /\ Side = { "left", "right" }
    BY DEF Sound, TInv, Side
  <1>a. PICK n : dir = Top.dir /\ n = Len(frames)
    OBVIOUS
  <1>1. /\ frames # << >> /\ pair = NoPair /\ pair' = NoPair
        /\ UNCHANGED worldVars /\ KeepsKnown /\ frames' = Returned(sum, errs)
    OBVIOUS
  <1>2. /\ n \in Nat \ {0} /\ n \in 1..n /\ Top = frames[n]
        /\ dir \in CommonDirs /\ dir \in Dirs /\ dir \in AllPaths
    BY <1>0, <1>a, NestTop, TopFacts DEF Top
  <1>5. /\ IsNest(frames') /\ Len(frames') = n - 1 /\ (frames' = << >> <=> n = 1)
        /\ \A i \in 1..(n - 2) : frames'[i] = frames[i]
        /\ n > 1 =>
             LET under == frames[n - 1]
                 new == frames'[n - 1]
             IN  /\ new.dir = under.dir /\ new.todo = under.todo
                 /\ new.entered /\ under.entered
                 /\ new.same = (under.same /\ sum # {})
                 /\ new.errs = under.errs \cup errs
                 /\ under.dir = ParentPath(dir)
    BY <1>0, <1>a, ReturnedTo
  <1>e. ASSUME NEW k \in 1..(n - 1) PROVE frames[k].entered /\ frames[k].dir # dir
    <2>1. \A i \in 1..(Len(frames) - 1) : frames[i].entered
      BY <1>0 DEF IsNest
    <2>2. \A i \in 1..(Len(frames) - 1) : frames[i].dir # frames[Len(frames)].dir
      BY <1>0, TopApart
    <2> QED
      BY <1>2, <1>a, <2>1, <2>2
  <1>6. \A d \in Dirs : d # dir => (DirInError(d)' <=> DirInError(d))
    OBVIOUS
  <1>8. \A file : Decided(file)' <=> Decided(file)
    BY DEF Decided
  <1>9. /\ CommonDirs' = CommonDirs
        /\ \A d : /\ Differences(d)' = Differences(d)
                  /\ Unlike(d)' <=> Unlike(d)
                  /\ BothFiles(d)' <=> BothFiles(d)
    BY WorldStays
  <1>11. sum # {} => Differences(dir) = {}
    OBVIOUS
  <1>12. sum = {} /\ errs = {} => Unlike(dir)
    OBVIOUS
  <1>14. VerdictsTrue'
    <2> SUFFICES ASSUME NEW d \in CommonDirs, ~ToCome(d)'
                 PROVE  Verdict(d)'
      BY <1>9 DEF VerdictsTrue
    <2>1. CASE ToComeIn(Top, d)
      BY <2>1
    <2>2. CASE ~ToComeIn(Top, d)
      <3>1. ~ToCome(d)
        <4> SUFFICES ASSUME NEW k \in 1..n, ToComeIn(frames[k], d) PROVE FALSE
          BY <1>a DEF ToCome
        <4>1. k \in 1..(n - 1)
          BY <1>2, <2>2
        <4>2. /\ k \in 1..Len(frames') /\ frames'[k].dir = frames[k].dir
              /\ frames'[k].todo = frames[k].todo /\ frames'[k].entered /\ frames[k].entered
          <5>1. k = n - 1 \/ k \in 1..(n - 2)
            BY <1>2, <4>1
          <5>2. frames[k].entered
            BY <1>e, <4>1
          <5>i. n > 1 /\ k \in 1..Len(frames')
            BY <1>2, <1>5, <4>1
          <5>3. CASE k = n - 1
            BY <1>5, <5>i, <5>2, <5>3
          <5>4. CASE k \in 1..(n - 2)
            BY <1>5, <5>i, <5>2, <5>4
          <5> QED
            BY <5>1, <5>3, <5>4
        <4>3. ToComeIn(frames'[k], d)
          BY <4>2 DEF ToComeIn
        <4> QED
          BY <4>2, <4>3 DEF ToCome, ToComeIn
      <3>2. Verdict(d)
        BY <3>1 DEF PassTrue, VerdictsTrue
      <3>3. d # dir /\ d \in Dirs
        <4>1. dir \in CommonDirs => IsWithinSubtree(dir, dir)
          BY <1>2, PathFacts DEF IsWithinSubtree
        <4> QED
          BY <1>0, <1>2, <2>2, <4>1, CommonFacts DEF ToComeIn
      <3>4. \A side \in Side : /\ node'[side][d].resolved
                                /\ node'[side][d].checksum = node[side][d].checksum
        BY <2>2, <3>2 DEF Verdict
      <3>5. \A file \in Files : ParentPath(file) = d =>
               (Decided(file) \/ (pair # NoPair /\ file = pair.file)
                   => Decided(file)' \/ (pair' # NoPair /\ file = pair'.file))
        BY <1>8
      <3>6. DirInError(d) => DirInError(d)'
        BY <1>6, <3>3
      <3> QED
        BY <3>2, <3>4, <3>5, <3>6, VerdictStep
    <2> QED
      BY <2>1, <2>2
  <1>15. ActivationsTrue'
    <2> SUFFICES ASSUME NEW k \in 1..Len(frames'), NEW d \in Dirs, NEW f, NEW w,
                        f = frames'[k], w = Waiting(k)', d = f.dir
                 PROVE  d \in CommonDirs' /\ (f.entered => Took(d, f, w)')
      BY ActivationsStep
    <2>1. k \in 1..(n - 1) /\ k \in 1..n /\ k + 1 \in 1..n /\ k < n
      BY <1>2, <1>5
    <2>2. frames[k].entered /\ frames[k].dir # dir
      BY <1>e, <2>1
    <2>3. Waiting(k) = { frames[k + 1].dir }
      BY <1>a, <2>1 DEF Waiting
    <2>4. frames[k].dir = d /\ d # dir
      <3>1. k = n - 1 \/ k \in 1..(n - 2)
        BY <1>2, <2>1
      <3> QED
        BY <1>2, <1>5, <2>1, <2>2, <3>1
    <2>5. d \in CommonDirs /\ Took(d, frames[k], Waiting(k))
      BY <1>a, <2>1, <2>2, <2>4 DEF PassTrue, ActivationsTrue
    <2>6. DirInError(d)' <=> DirInError(d)
      BY <1>6, <2>4
    <2>7. CASE k \in 1..(n - 2)
      <3>1. f = frames[k] /\ k < Len(frames')
        BY <1>2, <1>5, <2>7
      <3>2. frames'[k + 1].dir = frames[k + 1].dir
        <4>1. k + 1 \in 1..(n - 2) \/ (k + 1 = n - 1 /\ n > 1)
          BY <1>2, <2>7
        <4> QED
          BY <1>5, <4>1
      <3>3. w = Waiting(k)
        BY <2>3, <3>1, <3>2 DEF Waiting
      <3>4. Took(d, f, w)
        BY <2>5, <3>1, <3>3
      <3>5. Took(d, f, w)'
        BY <1>1, <1>8, <2>6, <3>4, TookStep
      <3> QED
        BY <1>9, <2>5, <3>5
    <2>8. CASE k = n - 1
      <3> DEFINE under == frames[n - 1]
      <3>1. /\ n > 1 /\ f.todo = under.todo /\ f.same = (under.same /\ sum # {})
            /\ f.errs = under.errs \cup errs /\ ParentPath(dir) = d
        BY <1>2, <1>5, <2>1, <2>4, <2>8
      <3>2. w = {}
        BY <1>1, <1>2, <1>5, <2>8 DEF Waiting
      <3>3. k + 1 = n /\ frames[k + 1].dir = dir
        BY <1>2, <1>a, <2>8
      <3>4. Took(d, under, { dir })
        BY <2>3, <2>5, <2>8, <3>3
      <3> HIDE DEF under
      <3>5. dir # Root /\ IsWithinSubtree(dir, d)
        <4>1. frames[k + 1].dir # Root
          BY <1>0, <1>a, <2>1 DEF IsNest
        <4> QED
          BY <1>2, <3>1, <3>3, <4>1, ChildWithin
      <3>6. /\ f.same => under.same
            /\ under.errs \subseteq f.errs
            /\ ~f.same /\ f.errs = {} => ~under.same \/ Unlike(d)
        <4>1. Unlike(dir) => Unlike(d)
          BY <1>0, <1>2, <2>5, <3>5, UnlikeAbove
        <4> QED
          BY <1>12, <3>1, <4>1
      <3>7. \A p \in Opened(d) \ (f.todo \cup w) : p \in under.todo \cup { dir } =>
               /\ f.same /\ f.errs = {} => \A file \in Differences(d) : ~IsWithinSubtree(file, p)
               /\ BothFiles(p) => Decided(p)'
        <4>1. f.same => \A file \in Differences(d) : ~IsWithinSubtree(file, dir)
          BY <1>0, <1>2, <1>11, <2>5, <3>1, <3>5, UnlikeAbove
        <4>3. ~BothFiles(dir)
          <5>1. dir \in KnownDirs("left")
            BY <1>2, <2>5, <3>1, <3>5, EntryFacts
          <5> QED
            BY <1>0, <5>1 DEF BothFiles, Sound, KindsApart
        <4> QED
          BY <3>1, <4>1, <4>3
      <3>8. Took(d, f, w)'
        BY <1>1, <1>8, <2>6, <3>4, <3>6, <3>7, TookStep
      <3> QED
        BY <1>9, <2>5, <3>8
    <2>9. k = n - 1 \/ k \in 1..(n - 2)
      BY <1>2, <2>1
    <2> QED
      BY <2>7, <2>8, <2>9
  <1>16. PairTrue'
    BY DEF PairTrue
  <1> QED
    BY <1>14, <1>15, <1>16 DEF PassTrue

LEMMA PassFinish ==
    ASSUME Sound, PassTrue, FinishDir
    PROVE  PassTrue'
  <1>0. TInv /\ KindsApart /\ HeldRight /\ IsNest(frames) /\ RowsInv /\ TreesInv /\ PairInv /\ Side = { "left", "right" }
    BY DEF Sound, TInv, Side
  <1>a. PICK dir, n : dir = Top.dir /\ n = Len(frames)
    OBVIOUS
  <1> DEFINE sum == IF Top.same /\ Top.errs = {} THEN { Top.kids } ELSE {}
  <1>1. /\ frames # << >> /\ Top.entered /\ Top.todo = {} /\ pair = NoPair /\ pair' = NoPair
        /\ UNCHANGED worldVars /\ KeepsKnown /\ frames' = Returned(sum, Top.errs)
    BY <1>0, Pass2KeepsKnown DEF FinishDir, Loops, Pass2
  <1>2. /\ n \in Nat \ {0} /\ n \in 1..n /\ Top = frames[n] /\ Top.errs \in SUBSET Side
        /\ dir \in CommonDirs /\ dir \in Dirs /\ dir \in AllPaths /\ Took(dir, Top, {})
    BY <1>0, <1>1, <1>a, NestTop, FrameTypes, TopFacts DEF Top
  <1>3. /\ facts' = facts
        /\ \A side \in Side, d \in Dirs :
             IF d # dir THEN node'[side][d] = node[side][d]
             ELSE /\ node'[side][d].outcome = node[side][d].outcome
                  /\ node'[side][d].unreadable = (node[side][d].unreadable \/ side \in Top.errs)
                  /\ node'[side][d].checksum = sum
                  /\ node'[side][d].resolved
    BY <1>0, <1>a, CalmFinish
  <1>4. /\ sum # {} <=> Top.same /\ Top.errs = {}
    OBVIOUS
  <1> HIDE DEF sum
  <1>6. /\ \A d \in Dirs : d # dir => (DirInError(d)' <=> DirInError(d))
        /\ DirInError(dir) => DirInError(dir)'
        /\ Top.errs # {} => DirInError(dir)'
    BY <1>2, <1>3 DEF DirInError, HasError, InError
  <1>8. \A file : Decided(file)' <=> Decided(file)
    BY <1>3 DEF Decided
  <1>9. /\ CommonDirs' = CommonDirs
        /\ \A d : /\ Differences(d)' = Differences(d)
                  /\ Unlike(d)' <=> Unlike(d)
                  /\ BothFiles(d)' <=> BothFiles(d)
    BY <1>1, WorldStays
  <1>10. \A path \in Opened(dir) :
             /\ Top.same /\ Top.errs = {} => \A file \in Differences(dir) : ~IsWithinSubtree(file, path)
             /\ BothFiles(path) => Decided(path)
    BY <1>1, <1>2 DEF Took
  <1>11. sum # {} => Differences(dir) = {}
    <2>1. Top.errs = {} => ~DirInError(dir)
      BY <1>2 DEF Took
    <2> QED
      BY <1>2, <1>4, <1>10, <2>1, DifferenceIsOpened
  <1>12. sum = {} /\ Top.errs = {} => Unlike(dir)
    BY <1>2, <1>4 DEF Took
  <1>13. Verdict(dir)'
    <2>1. /\ \A side \in Side : node'[side][dir].resolved
          /\ node'["left"][dir].checksum = node'["right"][dir].checksum
          /\ node'["left"][dir].checksum # {} => Differences(dir)' = {}
          /\ node'["left"][dir].checksum = {} /\ ~DirInError(dir)' => Unlike(dir)'
      BY <1>0, <1>2, <1>3, <1>6, <1>9, <1>11, <1>12
    <2>3. ASSUME NEW file \in Files, BothFiles(file), ParentPath(file) = dir
          PROVE  Decided(file)
      <3>1. file # Root
        BY PassAssumption
      <3>2. file \in Opened(dir)
        BY <1>0, <2>3, <3>1 DEF BothFiles, Opened, ChildrenOf
      <3> QED
        BY <1>10, <2>3, <3>2
    <2> QED
      BY <1>8, <1>9, <2>1, <2>3 DEF Verdict
  <1>14. \A d \in CommonDirs : d \in Dirs /\ (ToComeIn(Top, d) <=> d = dir)
    <2>1. \A d \in CommonDirs : d \in Dirs
      BY <1>0, CommonFacts
    <2>2. IsWithinSubtree(dir, dir)
      BY <1>2, PathFacts DEF IsWithinSubtree
    <2> QED
      BY <1>1, <1>a, <2>1, <2>2 DEF ToComeIn
  <1>15. ResolvedThere'
    <2>1. ASSUME NEW side \in Side, NEW d \in Dirs, node'[side][d].resolved
          PROVE  d \in dirs["left"] \cap dirs["right"]
      <3>1. CASE d = dir
        BY <1>0, <1>2, <3>1, CommonFacts
      <3>2. CASE d # dir
        BY <1>3, <2>1, <3>2 DEF PassTrue, ResolvedThere
      <3> QED
        BY <3>1, <3>2
    <2> QED
      BY <1>1, <2>1 DEF ResolvedThere, worldVars
  <1> DEFINE errs == Top.errs
  <1>16. errs \in SUBSET Side /\ frames' = Returned(sum, errs) /\ (sum = {} /\ errs = {} => Unlike(dir))
    BY <1>1, <1>2, <1>12
  <1> HIDE DEF errs
  <1>17. \A d \in CommonDirs : ToComeIn(Top, d) => Verdict(d)'
    BY <1>13, <1>14
  <1>18. \A d \in CommonDirs : ~ToComeIn(Top, d) =>
            \A side \in Side : /\ node[side][d].resolved => node'[side][d].resolved
                               /\ node'[side][d].checksum = node[side][d].checksum
    BY <1>3, <1>14
  <1> QED
    BY <1>1, <1>3, <1>6, <1>11, <1>15, <1>16, <1>17, <1>18, <1>a, PassReturns

LEMMA PassStarts ==
    ASSUME TInv, StartPass2, Root \in CommonDirs, ResolvedThere
    PROVE  PassTrue'
  <1>1. /\ at = "listing" /\ frames' = << Activation(Root) >> /\ node' = node
        /\ facts' = facts /\ pair' = pair /\ UNCHANGED worldVars
    BY DEF StartPass2, rowVars
  <1>2. pair = NoPair
    BY <1>1 DEF TInv, PairInv
  <1>3. KeepsKnown
    BY <1>1 DEF KeepsKnown
  <1>4. CommonDirs' = CommonDirs
    BY <1>1, <1>3, WorldStays
  <1>5. /\ frames' # << >> /\ Len(frames') = 1
        /\ frames'[1].dir = Root /\ ~frames'[1].entered
    BY <1>1, RootNest DEF Activation
  <1>6. VerdictsTrue'
    <2>1. ASSUME NEW dir \in CommonDirs PROVE ToCome(dir)'
      <3>1. IsWithinSubtree(dir, Root)
        BY CommonFacts, WithinRoot DEF TInv
      <3> QED
        BY <1>5, <3>1 DEF ToCome, ToComeIn
    <2> QED
      BY <1>4, <2>1 DEF VerdictsTrue
  <1>7. ActivationsTrue'
    <2> SUFFICES ASSUME NEW k \in 1..Len(frames'), NEW dir \in Dirs, NEW f, NEW w,
                        f = frames'[k], w = Waiting(k)', dir = f.dir
                 PROVE  dir \in CommonDirs' /\ (f.entered => Took(dir, f, w)')
      BY ActivationsStep
    <2>1. k = 1
      BY <1>5
    <2> QED
      BY <1>4, <1>5, <2>1
  <1>8. PairTrue'
    BY <1>1, <1>2 DEF PairTrue
  <1>9. ResolvedThere'
    BY <1>1, ResolvedStays
  <1> QED
    BY <1>6, <1>7, <1>8, <1>9 DEF PassTrue

\* A read that ends tells the variables of the pair what it tells the rows.
LEMMA RowsAfterRead ==
    ASSUME TInv, KindsApart, HeldRight, PairRows, HashSucceeds \/ HashFails
    PROVE  PairRows'
  <1>0. TInv /\ IsNest(frames) /\ RowsInv /\ TreesInv /\ PairInv
    BY DEF TInv
  <1>a. PICK file : file = pair.file
    OBVIOUS
  <1>1. at = "hash" /\ KeepsKnown
    BY <1>0, Pass2KeepsKnown DEF HashSucceeds, HashFails, Pass2
  <1>2. /\ pair # NoPair /\ Reader \in Side /\ Stage \in { "partial", "full" }
        /\ Reader \notin pair.errs /\ file \in Files
    BY <1>0, <1>1, <1>a, ReaderFacts DEF PairInv, Unread
  <1>3. pair'.file = file
    <2>1. HashSucceeds => pair'.file = file
      BY <1>0, <1>a, ReadRows
    <2>2. HashFails => pair'.file = file
      BY <1>0, <1>a, FailRows
    <2> QED
      BY <2>1, <2>2
  <1>8. file \in KnownFiles("left") \cap KnownFiles("right") /\ \A side \in Side :
              LET seen == pair.seen[side]
                  row == facts[side][file]
              IN  /\ seen.size = row.size
                  /\ seen.partial \in { 0, row.partial }
                  /\ seen.full \in { 0, row.full }
                  /\ side \in pair.errs => row.failed
    BY <1>2, <1>a DEF PairRows
  <1>9. \A side \in Side :
              LET seen == pair'.seen[side]
                  row == facts'[side][file]
              IN  /\ seen.size = row.size
                  /\ seen.partial \in { 0, row.partial }
                  /\ seen.full \in { 0, row.full }
                  /\ side \in pair'.errs => row.failed
    <2>1. CASE HashSucceeds
      <3> DEFINE content == disk[Reader][pair.file].content
                 value == IF Stage = "partial" THEN PartialOf[content] ELSE content
      <3>1. /\ \A side \in Side, f \in Files :
                  LET old == facts[side][f]
                      new == facts'[side][f]
                  IN  IF side = Reader /\ f = pair.file
                      THEN /\ new.size = old.size /\ new.version = old.version
                           /\ ~new.failed
                           /\ new.partial = IF Stage = "partial" THEN value ELSE old.partial
                           /\ new.full = IF Stage = "full" THEN value ELSE old.full
                      ELSE new = old
            /\ pair'.errs = pair.errs
            /\ \A side \in Side :
                  LET old == pair.seen[side]
                      new == pair'.seen[side]
                  IN  IF side = Reader
                      THEN /\ new.size = old.size
                           /\ new.partial = IF Stage = "partial" THEN value ELSE old.partial
                           /\ new.full = IF Stage = "full" THEN value ELSE old.full
                      ELSE new = old
        BY <1>0, <2>1, ReadRows, CalmReads
      <3> HIDE DEF value
      <3> SUFFICES ASSUME NEW side \in Side
                   PROVE  LET seen == pair'.seen[side]
                              row == facts'[side][file]
                          IN  /\ seen.size = row.size
                              /\ seen.partial \in { 0, row.partial }
                              /\ seen.full \in { 0, row.full }
                              /\ side \in pair'.errs => row.failed
        OBVIOUS
      <3>2. CASE side # Reader
        <4>1. pair'.seen[side] = pair.seen[side] /\ facts'[side][file] = facts[side][file]
          BY <1>2, <3>1, <3>2
        <4> QED
          BY <1>8, <3>1, <4>1
      <3>3. CASE side = Reader
        <4> DEFINE old == facts[side][file]
                   new == facts'[side][file]
                   was == pair.seen[side]
                   now == pair'.seen[side]
        <4>1. /\ new.size = old.size
              /\ new.partial = IF Stage = "partial" THEN value ELSE old.partial
              /\ new.full = IF Stage = "full" THEN value ELSE old.full
          BY <1>2, <1>a, <3>1, <3>3
        <4>2. /\ now.size = was.size
              /\ now.partial = IF Stage = "partial" THEN value ELSE was.partial
              /\ now.full = IF Stage = "full" THEN value ELSE was.full
              /\ side \notin pair'.errs
          BY <1>2, <3>1, <3>3
        <4>3. was.size = old.size /\ was.partial \in { 0, old.partial } /\ was.full \in { 0, old.full }
          BY <1>8
        <4> HIDE DEF old, new, was, now
        <4>4. /\ now.size = new.size /\ now.partial \in { 0, new.partial }
              /\ now.full \in { 0, new.full }
          BY <4>1, <4>2, <4>3
        <4> QED
          BY <4>2, <4>4 DEF new, now
      <3> QED
        BY <3>2, <3>3
    <2>2. CASE HashFails
      <3>1. /\ \A side \in Side, f \in Files :
                  LET old == facts[side][f]
                      new == facts'[side][f]
                  IN  IF side = Reader /\ f = pair.file
                      THEN /\ new.size = old.size /\ new.version = old.version
                           /\ new.failed /\ new.partial = old.partial /\ new.full = old.full
                      ELSE new = old
            /\ pair'.seen = pair.seen
            /\ pair'.errs = pair.errs \cup { Reader }
        BY <1>0, <2>2, FailRows, CalmFails
      <3>2. \A side \in Side :
               LET old == facts[side][file]
                   new == facts'[side][file]
               IN  /\ new.size = old.size /\ new.partial = old.partial /\ new.full = old.full
                   /\ side = Reader \/ old.failed => new.failed
        BY <1>2, <1>a, <3>1
      <3> QED
        BY <1>8, <3>1, <3>2
    <2> QED
      BY <2>1, <2>2
  <1>10. file \in KnownFiles("left")' \cap KnownFiles("right")'
    BY <1>1, <1>8, KnownStays DEF Side
  <1> QED
    BY <1>3, <1>9, <1>10 DEF PairRows

LEMMA PairRowsNext ==
    ASSUME TInv, KindsApart, HeldInCalm, Calm => PairRows, [Next]_vars
    PROVE  (Calm => PairRows)'
  <1> SUFFICES ASSUME Calm' PROVE PairRows'
    OBVIOUS
  <1>c. ASSUME NEW m \in Modes, Compare(m) PROVE PairRows'
    BY <1>c DEF Compare, TInv, PairInv, PairRows
  <1> SUFFICES ASSUME HeldRight, PairRows PROVE PairRows'
    BY <1>c, CalmSteps DEF HeldInCalm
  <1>0. IsNest(frames) /\ RowsInv /\ PairInv /\ Side = { "left", "right" }
    BY DEF TInv, Side
  <1>1. CASE pair' = NoPair
    BY <1>1 DEF PairRows
  <1>2. CASE pair' = pair /\ facts' = facts
    BY <1>2 DEF PairRows, KnownFiles
  <1>3. CASE HashSucceeds \/ HashFails
    BY <1>3, RowsAfterRead
  <1>4. ASSUME NEW path, NextEntry(path) PROVE PairRows'
    <2>1. facts' = facts
      BY <1>4 DEF NextEntry, rowVars
    <2>2. CASE pair' = pair
      BY <1>2, <2>1, <2>2
    <2>3. CASE pair' # pair
      <3>1. /\ ComparesNow(path) /\ path \in Files
            /\ pair'.file = path /\ pair'.errs = {}
            /\ \A side \in Side : pair'.seen[side] = Cached(facts[side][path])
        BY <1>0, <1>4, <2>3, EntryStackNow
      <3>2. path \in KnownFiles("left") \cap KnownFiles("right")
        BY <1>0, <3>1, KindsOn DEF ComparesNow
      <3>3. path \in KnownFiles("left")' \cap KnownFiles("right")'
        BY <2>1, <3>2 DEF KnownFiles
      <3>4. \A side \in Side : facts[side][path] \in FactRow
        BY <1>0, <3>1 DEF RowsInv
      <3>5. \A side \in Side :
               LET seen == pair'.seen[side]
                   row == facts'[side][path]
               IN  /\ seen.size = row.size
                   /\ seen.partial \in { 0, row.partial }
                   /\ seen.full \in { 0, row.full }
        BY <2>1, <3>1, <3>4, CachedRow
      <3> QED
        BY <3>1, <3>3, <3>5 DEF PairRows
    <2> QED
      BY <2>2, <2>3
  <1>5. CASE Pass2
    <2>1. CASE Enter \/ ReadNext \/ EndPass2
      BY <1>2, <2>1 DEF Enter, ReadNext, EndPass2, rowVars
    <2>3. CASE FinishDir
      BY <1>2, <2>3, CalmFinish DEF FinishDir
    <2>2. CASE Cancel \/ PairDone
      BY <1>1, <2>2 DEF Cancel, PairDone
    <2> QED
      BY <1>3, <1>4, <1>5, <2>1, <2>2, <2>3 DEF Pass2
  <1>6. CASE at \in { "off", "listing" } /\ pair' = pair
    BY <1>0, <1>1, <1>6 DEF PairInv
  <1>7. CASE Pass1
    BY <1>6, <1>7, HeldList DEF Pass1, StartPass2, List
  <1>8. CASE Environment
    <2>1. CASE \E m \in Modes : Compare(m)
      BY <1>c, <2>1
    <2>2. CASE Restart
      BY <1>1, <2>2 DEF Restart
    <2>3. CASE Stop
      BY <1>2, <2>3 DEF Stop
    <2>4. CASE Changes
      BY <1>2, <2>4 DEF Changes, rowVars, passVars
    <2> QED
      BY <1>8, <2>1, <2>2, <2>3, <2>4 DEF Environment, Edit, Delete, SetIgnored
  <1>9. CASE UNCHANGED vars
    BY <1>2, <1>9 DEF vars, rowVars, passVars
  <1> QED
    BY <1>5, <1>7, <1>8, <1>9 DEF Next

-----------------------------------------------------------------------------
(* What incremental comparisons trust: checksums left by earlier ones *)

\* Nothing is deleted or un-ignored, nobody presses Stop, and there is no restart.
\* A deletion, the end of an ignore or a restart can make a later incremental
\* comparison show what is not so (README.md lists the configurations); Stops
\* are assumed away to keep to what the proof needs.
KeepsCaches == MayDelete = {} /\ MayUnignore = {} /\ StopPhases = {} /\ ~MayCrash

\* What is known of a side is there.
KnownHolds ==
    \A side \in Side : /\ Root \in dirs[side] /\ KnownDirs(side) \subseteq dirs[side]
                       /\ \A file \in KnownFiles(side) : disk[side][file] # NoFile

RootKnown == at # "off" => \A side \in Side : Root \in KnownDirs(side)

SameSums == \A dir \in Dirs : node["left"][dir].checksum = node["right"][dir].checksum

\* Only what both sides have ever had a checksum or was resolved.
ResultsThere ==
    \A side \in Side, dir \in Dirs :
        node[side][dir].resolved \/ node[side][dir].checksum # {}
            => dir \in dirs["left"] \cap dirs["right"]

\* Only files that both sides have were ever read.
HashedBoth ==
    \A side \in Side, file \in Files : facts[side][file].partial # 0 =>
        /\ facts[side][file].version # 0
        /\ \A other \in Side : disk[other][file] # NoFile

FullHasPartial ==
    \A side \in Side, file \in Files : facts[side][file].full # 0 => facts[side][file].partial # 0

RowsKept == KnownHolds /\ RootKnown /\ SameSums /\ ResultsThere /\ HashedBoth /\ FullHasPartial

\* Nothing that is there goes, and nothing that is left out comes back.
LEMMA WorldGrows ==
    ASSUME TInv, KindsApart, HeldRight, KeepsCaches, [Next]_vars
    PROVE  /\ dirs' = dirs
           /\ \A side \in Side, file \in Files : disk[side][file] # NoFile => disk'[side][file] # NoFile
           /\ \A path \in AllPaths : LeftOut(path) => LeftOut(path)'
  <1>0. TreesInv
    BY DEF TInv
  <1>1. CASE UNCHANGED worldVars
    BY <1>1 DEF worldVars, LeftOut, Holds
  <1>2. ASSUME NEW side \in Side, NEW file \in MayEdit, Edit(side, file)
        PROVE  /\ dirs' = dirs /\ ignored' = ignored
               /\ \A s \in Side, f \in Files : disk[s][f] # NoFile => disk'[s][f] # NoFile
    <2>1. PICK content \in Content, version \in 1..3 :
             disk' = [disk EXCEPT ![side][file] = [content |-> content, version |-> version]]
      BY <1>2 DEF Edit
    <2>2. content # 0 /\ file \in Files
      BY PassAssumption
    <2> DEFINE new == [content |-> content, version |-> version]
    <2>3. new # NoFile
      <3>1. new.content # NoFile.content
        BY <2>2 DEF NoFile
      <3> QED
        BY <3>1
    <2> HIDE DEF new
    <2>4. \A s \in Side, f \in Files : disk'[s][f] = IF s = side /\ f = file THEN new ELSE disk[s][f]
      BY <1>0, <2>1, <2>2 DEF TreesInv, new
    <2> QED
      BY <1>2, <2>3, <2>4 DEF Edit
  <1>3. ASSUME NEW entry \in MayIgnore, SetIgnored(entry[1], entry[2], TRUE)
        PROVE  dirs' = dirs /\ disk' = disk /\ ignored \subseteq ignored'
    BY <1>3 DEF SetIgnored
  <1>4. ASSUME dirs' = dirs, ignored \subseteq ignored',
               \A s \in Side, f \in Files : disk[s][f] # NoFile => disk'[s][f] # NoFile,
               NEW path \in AllPaths, LeftOut(path)
        PROVE  LeftOut(path)'
    BY <1>4 DEF LeftOut, Holds
  <1>5. \/ UNCHANGED worldVars
        \/ \E side \in Side, file \in MayEdit : Edit(side, file)
        \/ \E entry \in MayIgnore : SetIgnored(entry[1], entry[2], TRUE)
    <2>1. CASE Pass1
      BY <2>1 DEF Pass1, StartPass2, List
    <2>2. CASE Pass2
      BY <2>2, Pass2KeepsKnown
    <2>3. CASE Environment
      BY <2>3 DEF Environment, Compare, Stop, Restart, KeepsCaches
    <2> QED
      BY <2>1, <2>2, <2>3 DEF Next, vars
  <1>6. CASE \E entry \in MayIgnore : SetIgnored(entry[1], entry[2], TRUE)
    BY <1>3, <1>4, <1>6
  <1>7. CASE \E side \in Side, file \in MayEdit : Edit(side, file)
    BY <1>2, <1>4, <1>7
  <1> QED
    BY <1>1, <1>5, <1>6, <1>7

LEMMA NothingForgotten ==
    ASSUME KnownHolds, NEW side \in Side, NEW dir, NEW path
    PROVE  ~Forgotten(side, dir, path)
  BY DEF KnownHolds, Forgotten, Kids, ChildrenOf

LEMMA KnownGrows ==
    ASSUME TInv, KindsApart, HeldRight, KnownHolds, KeepsCaches, [Next]_vars
    PROVE  \A side \in Side :
              /\ KnownDirs(side) \subseteq KnownDirs(side)'
              /\ KnownDirs(side)' \subseteq dirs[side]
              /\ \A file \in KnownFiles(side)' : disk[side][file] # NoFile
  <1>0. RowsInv /\ TreesInv /\ ListInv
    BY DEF TInv
  <1>1. CASE \A side \in Side : KnownDirs(side)' = KnownDirs(side) /\ KnownFiles(side)' = KnownFiles(side)
    BY <1>1 DEF KnownHolds
  <1>2. CASE \A side \in Side : /\ KnownDirs(side)' = KnownDirs(side) \cup { Root }
                                /\ KnownFiles(side)' = KnownFiles(side)
    BY <1>2 DEF KnownHolds
  <1>3. ASSUME NEW side \in Side, NEW dir \in Dirs, NEW hidden,
               InTurn(side, dir), ListChildren(side, dir, hidden), NEW s \in Side
        PROVE  /\ KnownDirs(s) \subseteq KnownDirs(s)'
               /\ KnownDirs(s)' \subseteq dirs[s]
               /\ \A file \in KnownFiles(s)' : disk[s][file] # NoFile
    <2>1. /\ \A d \in Dirs : node'[side][d] =
               IF d = dir THEN OwnResult(node[side][d], "done", hidden # {})
               ELSE IF d \in Kids(side, dir) THEN ChildRow(node[side][d])
               ELSE IF Forgotten(side, dir, d) THEN NoNode
               ELSE node[side][d]
          /\ \A file \in Files : facts'[side][file] =
                 IF file \in FilesSeen(side, dir, hidden)
                   THEN FileFacts(facts[side][file], disk[side][file])
                 ELSE IF ParentPath(file) = dir \/ Forgotten(side, dir, file) THEN NoFacts
                 ELSE facts[side][file]
          /\ s # side => node'[s] = node[s] /\ facts'[s] = facts[s]
      BY <1>0, <1>3, ListChildrenRows
    <2>2. CASE s # side
      BY <2>1, <2>2 DEF KnownHolds, KnownDirs, KnownFiles
    <2>3. CASE s = side
      <3>1. ASSUME NEW d \in Dirs
            PROVE  /\ d \in KnownDirs(s) => d \in KnownDirs(s)'
                   /\ d \in KnownDirs(s)' => d \in dirs[s]
        <4>1. d = dir => d \in KnownDirs(s) /\ d \in KnownDirs(s)'
          <5> DEFINE row == node[side][dir]
                     some == hidden # {}
          <5>1. IsRow(row) /\ row.outcome = "pending"
            BY <1>0, <1>3 DEF ListInv, RowsInv, IsTable, InTurn, HeldRight
          <5>2. some \in BOOLEAN /\ "done" \in { "done", "error" }
            OBVIOUS
          <5>3. d = dir => node'[side][d] = OwnResult(row, "done", some)
            BY <2>1
          <5> HIDE DEF row, some
          <5>4. OwnResult(row, "done", some).outcome # "none"
            BY <5>1, <5>2, OwnResultRow
          <5>5. d = dir => node[side][d].outcome # "none" /\ node'[side][d].outcome # "none"
            BY <5>1, <5>3, <5>4 DEF row
          <5> QED
            BY <2>3, <5>5 DEF KnownDirs
        <4>2. d # dir /\ d \in Kids(side, dir) => d \in KnownDirs(s)' /\ d \in dirs[s]
          <5>1. ASSUME d # dir, d \in Kids(side, dir) PROVE node'[side][d].outcome # "none"
            <6> DEFINE row == node[side][d]
            <6>1. IsRow(row) /\ node'[side][d] = ChildRow(row)
              BY <1>0, <2>1, <5>1 DEF RowsInv, IsTable
            <6> HIDE DEF row
            <6> QED
              BY <6>1, ListedRow
          <5> QED
            BY <2>3, <5>1 DEF KnownDirs, Kids, ChildrenOf
        <4>3. d # dir /\ d \notin Kids(side, dir) => node'[side][d] = node[side][d]
          BY <2>1, NothingForgotten
        <4> QED
          BY <2>3, <4>1, <4>2, <4>3 DEF KnownDirs, KnownHolds
      <3>2. ASSUME NEW file \in KnownFiles(s)' PROVE disk[s][file] # NoFile
        <4>0. file \in Files /\ facts'[s][file].version # 0
          BY <3>2 DEF KnownFiles
        <4>1. CASE file \in FilesSeen(side, dir, hidden)
          BY <2>3, <4>1 DEF FilesSeen
        <4>2. CASE file \notin FilesSeen(side, dir, hidden)
          <5>1. facts'[s][file] = facts[s][file]
            BY <2>1, <2>3, <4>0, <4>2, NoFactsIsRow
          <5> QED
            BY <4>0, <5>1 DEF KnownHolds, KnownFiles
        <4> QED
          BY <4>1, <4>2
      <3> QED
        BY <3>1, <3>2 DEF KnownDirs
    <2> QED
      BY <2>2, <2>3
  <1> QED
    BY <1>1, <1>2, <1>3, KnownSteps

\* The checksums of directories that a step leaves.
LEMMA SumSteps ==
    ASSUME TInv, KindsApart, HeldRight, KnownHolds, KeepsCaches, [Next]_vars, ~FinishDir
    PROVE  \A side \in Side, dir \in Dirs :
              LET old == node[side][dir]
                  new == node'[side][dir]
              IN  \/ new.checksum = old.checksum /\ (new.resolved => old.resolved \/ old.checksum # {})
                  \/ new.checksum = {} /\ ~new.resolved
                     /\ \A s \in Side, d \in Dirs : node'[s][d].checksum = {}
  <1>0. RowsInv /\ TreesInv /\ ListInv
    BY DEF TInv
  <1>1. CASE node' = node
    BY <1>1
  <1>2. CASE Enter
    <2>1. CASE node' # node
      <3>a. PICK top : top = Top.dir
        OBVIOUS
      <3>1. /\ node' = [side \in Side |-> [below \in Dirs |->
                    [node[side][below] EXCEPT !.resolved =
                        @ \/ (IsWithinSubtree(below, top) /\ node[side][below].checksum # {})]]]
            /\ facts' = facts
        BY <1>2, <2>1, <3>a DEF Enter
      <3>2. \A side \in Side, d \in Dirs :
                 LET old == node[side][d]
                     new == node'[side][d]
                 IN  /\ new.outcome = old.outcome /\ new.unreadable = old.unreadable
                     /\ new.checksum = old.checksum
                     /\ new.resolved = (old.resolved \/
                                          (IsWithinSubtree(d, top) /\ old.checksum # {}))
        BY <1>0, <3>1, CacheHitRows, Zenon
      <3> QED
        BY <3>2
    <2> QED
      BY <1>1, <2>1
  <1>3. CASE Pass2
    <2>1. CASE ReadNext \/ HashSucceeds \/ HashFails \/ Cancel \/ PairDone \/ EndPass2
      BY <1>1, <2>1, CalmFails DEF ReadNext, HashSucceeds, Cancel, PairDone, EndPass2, rowVars
    <2>2. CASE \E path \in Dirs \cup Files : NextEntry(path)
      BY <1>1, <2>2 DEF NextEntry, rowVars
    <2> QED
      BY <1>2, <1>3, <2>1, <2>2 DEF Pass2
  <1>4. ASSUME NEW m \in Modes, Compare(m), NEW side \in Side, NEW dir \in Dirs
        PROVE  LET old == node[side][dir]
                   new == node'[side][dir]
               IN  \/ new.checksum = old.checksum /\ (new.resolved => old.resolved \/ old.checksum # {})
                   \/ new.checksum = {} /\ ~new.resolved
                      /\ \A s \in Side, d \in Dirs : node'[s][d].checksum = {}
    <2>1. \A s \in Side, d \in Dirs :
             LET old == node[s][d]
                 new == node'[s][d]
             IN  /\ m = "full" => new.checksum = {} /\ ~new.resolved
                 /\ m # "full" => new.checksum = old.checksum /\ new.resolved = old.resolved
      BY <1>0, <1>4, CompareRows
    <2> QED
      BY <2>1
  <1>5. ASSUME NEW side \in Side, NEW dir \in Dirs, List(side, dir), NEW s \in Side, NEW d \in Dirs
        PROVE  node'[s][d].checksum = node[s][d].checksum /\ node'[s][d].resolved = node[s][d].resolved
    <2>1. ASSUME NEW outcome \in { "done", "error" }, NEW some \in BOOLEAN,
                 node'[s][d] = OwnResult(node[s][d], outcome, some)
          PROVE  node'[s][d].checksum = node[s][d].checksum /\ node'[s][d].resolved = node[s][d].resolved
      <3> DEFINE row == node[s][d]
      <3>1. IsRow(row) /\ node'[s][d] = OwnResult(row, outcome, some)
        BY <1>0, <2>1 DEF RowsInv, IsTable
      <3> HIDE DEF row
      <3>2. node'[s][d].checksum = row.checksum /\ node'[s][d].resolved = row.resolved
        BY <3>1, OwnResultRow
      <3> QED
        BY <3>2 DEF row
    <2>2. ASSUME NEW outcome \in { "done", "error" }, OnlyRecord(side, dir, outcome)
          PROVE  node'[s][d].checksum = node[s][d].checksum /\ node'[s][d].resolved = node[s][d].resolved
      <3>1. /\ node'[side][dir] = OwnResult(node[side][dir], outcome, FALSE)
            /\ s # side \/ d # dir => node'[s][d] = node[s][d]
        BY <1>0, <2>2, OnlyRecordRows
      <3>2. CASE s # side \/ d # dir
        BY <3>1, <3>2
      <3>3. CASE s = side /\ d = dir
        BY <2>1, <3>1, <3>3
      <3> QED
        BY <3>2, <3>3
    <2>3. ASSUME NEW hidden, ListChildren(side, dir, hidden)
          PROVE  node'[s][d].checksum = node[s][d].checksum /\ node'[s][d].resolved = node[s][d].resolved
      <3> DEFINE some == hidden # {}
      <3>1. /\ node'[side][d] =
                 IF d = dir THEN OwnResult(node[side][d], "done", some)
                 ELSE IF d \in Kids(side, dir) THEN ChildRow(node[side][d])
                 ELSE IF Forgotten(side, dir, d) THEN NoNode
                 ELSE node[side][d]
            /\ s # side => node'[s] = node[s]
        BY <1>0, <2>3, ListChildrenRows
      <3>2. some \in BOOLEAN
        OBVIOUS
      <3> HIDE DEF some
      <3>3. CASE s # side
        BY <3>1, <3>3
      <3>4. CASE s = side /\ d = dir
        BY <2>1, <3>1, <3>2, <3>4
      <3>5. CASE s = side /\ d # dir /\ d \in Kids(side, dir)
        <4> DEFINE row == node[s][d]
        <4>1. IsRow(row) /\ node'[s][d] = ChildRow(row) /\ ~stopMark
          BY <1>0, <3>1, <3>5 DEF RowsInv, IsTable, HeldRight
        <4> HIDE DEF row
        <4>2. node'[s][d].checksum = row.checksum /\ node'[s][d].resolved = row.resolved
          BY <4>1, ListedRow, PendingRow
        <4> QED
          BY <4>2 DEF row
      <3>6. CASE s = side /\ d # dir /\ d \notin Kids(side, dir)
        BY <3>1, <3>6, NothingForgotten
      <3> QED
        BY <3>3, <3>4, <3>5, <3>6
    <2> QED
      BY <1>5, <2>2, <2>3 DEF List
  <1>7. CASE Environment
    <2>1. CASE Changes
      BY <1>1, <2>1 DEF Changes, rowVars
    <2> QED
      BY <1>4, <1>7, <2>1 DEF Environment, Stop, Restart, Edit, Delete, SetIgnored, KeepsCaches
  <1>8. CASE Pass1
    <2>1. CASE StartPass2
      BY <1>1, <2>1 DEF StartPass2, rowVars
    <2>2. CASE \E side \in Side, dir \in Dirs : List(side, dir)
      BY <1>5, <2>2
    <2> QED
      BY <1>8, <2>1, <2>2 DEF Pass1
  <1>9. CASE UNCHANGED vars
    BY <1>1, <1>9 DEF vars, rowVars
  <1> QED
    BY <1>3, <1>7, <1>8, <1>9 DEF Next

\* The checksums of files that a step leaves.
LEMMA HashSteps ==
    ASSUME TInv, KindsApart, HeldRight, [Next]_vars, ~HashSucceeds
    PROVE  \A side \in Side, file \in Files :
              LET old == facts[side][file]
                  new == facts'[side][file]
              IN  \/ /\ new.partial = old.partial /\ new.full = old.full
                     /\ old.version # 0 => new.version # 0
                  \/ new.partial = 0 /\ new.full = 0
  <1>0. RowsInv /\ TreesInv /\ PairInv
    BY DEF TInv
  <1>1. CASE facts' = facts
    BY <1>1
  <1>2. CASE HashFails
    <2>1. \A side \in Side, f \in Files :
            LET old == facts[side][f]
                new == facts'[side][f]
            IN  IF side = Reader /\ f = pair.file
                THEN /\ new.size = old.size /\ new.version = old.version
                     /\ new.failed /\ new.partial = old.partial /\ new.full = old.full
                ELSE new = old
      BY <1>0, <1>2, CalmFails
    <2> QED
      BY <2>1
  <1>3. CASE Pass2
    <2>1. CASE Enter \/ ReadNext \/ Cancel \/ PairDone \/ FinishDir \/ EndPass2
      BY <1>1, <2>1, CalmFinish DEF Enter, ReadNext, Cancel, PairDone, EndPass2, rowVars
    <2>2. CASE \E path \in Dirs \cup Files : NextEntry(path)
      BY <1>1, <2>2 DEF NextEntry, rowVars
    <2> QED
      BY <1>2, <1>3, <2>1, <2>2 DEF Pass2
  <1>4. ASSUME NEW m \in Modes, Compare(m), NEW side \in Side, NEW file \in Files
        PROVE  LET old == facts[side][file]
                   new == facts'[side][file]
               IN  \/ /\ new.partial = old.partial /\ new.full = old.full
                      /\ old.version # 0 => new.version # 0
                   \/ new.partial = 0 /\ new.full = 0
    <2>1. \A s \in Side, f \in Files :
             LET old == facts[s][f]
                 new == facts'[s][f]
             IN  /\ m = "full" => new.partial = 0 /\ new.full = 0
                 /\ m # "full" => new = old
      BY <1>0, <1>4, CompareRows
    <2> QED
      BY <2>1
  <1>5. ASSUME NEW side \in Side, NEW dir \in Dirs, List(side, dir), NEW s \in Side, NEW file \in Files
        PROVE  LET old == facts[s][file]
                   new == facts'[s][file]
               IN  \/ /\ new.partial = old.partial /\ new.full = old.full
                      /\ old.version # 0 => new.version # 0
                   \/ new.partial = 0 /\ new.full = 0
    <2>1. CASE facts' = facts
      BY <1>1, <2>1
    <2>2. ASSUME NEW hidden, ListChildren(side, dir, hidden)
          PROVE  LET old == facts[s][file]
                     new == facts'[s][file]
                 IN  \/ /\ new.partial = old.partial /\ new.full = old.full
                        /\ old.version # 0 => new.version # 0
                     \/ new.partial = 0 /\ new.full = 0
      <3>1. /\ facts'[side][file] =
                 IF file \in FilesSeen(side, dir, hidden)
                   THEN FileFacts(facts[side][file], disk[side][file])
                 ELSE IF ParentPath(file) = dir \/ Forgotten(side, dir, file) THEN NoFacts
                 ELSE facts[side][file]
            /\ s # side => facts'[s] = facts[s]
        BY <1>0, <2>2, ListChildrenRows
      <3>2. CASE s # side
        BY <3>1, <3>2
      <3>3. CASE s = side /\ file \in FilesSeen(side, dir, hidden)
        <4> DEFINE row == facts[s][file]
                   new == facts'[s][file]
        <4>1. row \in FactRow /\ disk[s][file] # NoFile /\ new = FileFacts(row, disk[s][file])
          BY <1>0, <3>1, <3>3 DEF RowsInv, FilesSeen
        <4> HIDE DEF row
        <4>2. new = row \/ (new.partial = 0 /\ new.full = 0)
          BY <1>0, <4>1, ListedFacts
        <4> QED
          BY <4>2 DEF row
      <3>4. CASE s = side /\ file \notin FilesSeen(side, dir, hidden)
        BY <3>1, <3>4, NoFactsIsRow
      <3> QED
        BY <3>2, <3>3, <3>4
    <2> QED
      BY <1>5, <2>1, <2>2 DEF List, OnlyRecord
  <1>6. CASE Environment
    <2>1. CASE Stop \/ Restart
      BY <1>1, <2>1 DEF Stop, Restart
    <2>2. CASE Changes
      BY <1>1, <2>2 DEF Changes, rowVars
    <2> QED
      BY <1>4, <1>6, <2>1, <2>2 DEF Environment, Edit, Delete, SetIgnored
  <1>7. CASE Pass1
    <2>1. CASE StartPass2
      BY <1>1, <2>1 DEF StartPass2, rowVars
    <2> QED
      BY <1>5, <1>7, <2>1 DEF Pass1
  <1>8. CASE UNCHANGED vars
    BY <1>1, <1>8 DEF vars, rowVars
  <1> QED
    BY <1>3, <1>6, <1>7, <1>8 DEF Next

FramesKnown == \A k \in 1..Len(frames), side \in Side : frames[k].dir \in KnownDirs(side)

\* What a read that ends leaves of a pair that both sides have.
LEMMA HashedPair ==
    ASSUME TInv, KindsApart, HeldRight, KnownHolds, PairRows, FullHasPartial, HashSucceeds
    PROVE  \A side \in Side, file \in Files :
              LET old == facts[side][file]
                  new == facts'[side][file]
              IN  IF side = Reader /\ file = pair.file
                  THEN /\ new.version = old.version /\ old.version # 0
                       /\ new.full # 0 => new.partial # 0
                       /\ \A other \in Side : disk[other][file] # NoFile
                  ELSE new = old
  <1>0. RowsInv /\ TreesInv /\ PairInv /\ Side = { "left", "right" }
    BY DEF TInv, Side
  <1>a. PICK name : name = pair.file
    OBVIOUS
  <1> DEFINE value == IF Stage = "partial" THEN PartialOf[disk[Reader][pair.file].content]
                      ELSE disk[Reader][pair.file].content
  <1>1. /\ value \in Content
        /\ \A side \in Side, file \in Files :
                    LET old == facts[side][file]
                        new == facts'[side][file]
                    IN  IF side = Reader /\ file = pair.file
                        THEN /\ new.size = old.size /\ new.version = old.version
                             /\ ~new.failed
                             /\ new.partial = IF Stage = "partial" THEN value ELSE old.partial
                             /\ new.full = IF Stage = "full" THEN value ELSE old.full
                        ELSE new = old
    BY <1>0, ReadRows, CalmReads
  <1>2. /\ pair # NoPair /\ name \in Files /\ Reader \in Side /\ Stage \in { "partial", "full" }
    BY <1>0, <1>a, ReaderFacts DEF HashSucceeds
  <1> HIDE DEF value
  <1>3. /\ name \in KnownFiles("left") \cap KnownFiles("right")
        /\ \A side \in Side : pair.seen[side].partial \in { 0, facts[side][name].partial }
    BY <1>2, <1>a DEF PairRows
  <1>4. \A side \in Side : facts[side][name].version # 0 /\ disk[side][name] # NoFile
    BY <1>0, <1>3 DEF KnownFiles, KnownHolds
  <1>5. Stage = "full" => \A side \in Side : facts[side][name].partial # 0
    <2> DEFINE l == pair.seen["left"]
               r == pair.seen["right"]
    <2>1. Stage = NextCascadeStep(l, r)
      BY DEF Stage
    <2> HIDE DEF l, r
    <2>2. NextCascadeStep(l, r) = "full" => l.partial # 0 /\ r.partial # 0
      BY DEF NextCascadeStep
    <2> QED
      BY <1>0, <1>3, <2>1, <2>2 DEF l, r
  <1>6. value # 0
    BY <1>1, PassAssumption
  <1> SUFFICES ASSUME NEW side \in Side, NEW file \in Files, side = Reader, file = name
               PROVE  /\ facts'[side][file].version = facts[side][file].version
                      /\ facts[side][file].version # 0
                      /\ facts'[side][file].full # 0 => facts'[side][file].partial # 0
                      /\ \A other \in Side : disk[other][file] # NoFile
    BY <1>1, <1>a
  <1> DEFINE old == facts[side][file]
             new == facts'[side][file]
  <1>7. /\ new.version = old.version
        /\ new.partial = IF Stage = "partial" THEN value ELSE old.partial
    BY <1>1, <1>a
  <1>8. Stage = "full" => old.partial # 0
    BY <1>5
  <1> HIDE DEF old, new
  <1>9. new.partial # 0
    BY <1>2, <1>6, <1>7, <1>8
  <1> QED
    BY <1>4, <1>7, <1>9 DEF old, new

LEMMA RowsKeptNext ==
    ASSUME TInv, KindsApart, HeldRight, KeepsCaches, RowsKept, FramesKnown, PairRows, [Next]_vars
    PROVE  RowsKept'
  <1>0. /\ KnownHolds /\ RootKnown /\ SameSums /\ ResultsThere /\ HashedBoth /\ FullHasPartial
        /\ IsNest(frames) /\ RowsInv /\ PairInv /\ Side = { "left", "right" }
    BY DEF RowsKept, TInv, Side
  <1>1. /\ dirs' = dirs
        /\ \A side \in Side, file \in Files : disk[side][file] # NoFile => disk'[side][file] # NoFile
        /\ \A side \in Side : /\ KnownDirs(side) \subseteq KnownDirs(side)'
                              /\ KnownDirs(side)' \subseteq dirs[side]
                              /\ \A file \in KnownFiles(side)' : disk[side][file] # NoFile
        /\ \A side \in Side : KnownFiles(side)' \subseteq Files
    BY <1>0, WorldGrows, KnownGrows DEF KnownFiles
  <1>2. KnownHolds'
    BY <1>0, <1>1 DEF KnownHolds
  <1>3. RootKnown'
    <2>1. at # "off" => \A side \in Side : Root \in KnownDirs(side)'
      BY <1>0, <1>1 DEF RootKnown
    <2>2. ASSUME NEW m \in Modes, Compare(m) PROVE \A side \in Side : Root \in KnownDirs(side)'
      <3>1. \A side \in Side : node'[side][Root].outcome = "pending"
        BY <1>0, <2>2, CompareRows, RootLineage
      <3> QED
        BY <3>1, RootLineage DEF KnownDirs
    <2>3. at = "off" /\ at' # "off" => \E m \in Modes : Compare(m)
      <3>1. Pass1 => at = "listing"
        BY HeldList DEF Pass1, StartPass2
      <3>2. Pass2 => at # "off"
        BY DEF Pass2, Enter, ReadNext, HashSucceeds, HashFails, Cancel, PairDone, FinishDir, EndPass2,
           NextEntry, Loops
      <3>3. Environment /\ at = "off" /\ at' # "off" => \E m \in Modes : Compare(m)
        BY DEF Environment, Stop, Restart, Edit, Delete, SetIgnored, Changes, passVars
      <3>4. UNCHANGED vars => at' = at
        BY DEF vars, passVars
      <3> QED
        BY <3>1, <3>2, <3>3, <3>4 DEF Next
    <2> QED
      BY <2>1, <2>2, <2>3 DEF RootKnown
  <1>4. ASSUME FinishDir PROVE SameSums' /\ ResultsThere'
    <2>a. PICK top, sum : top = Top.dir /\ sum = IF Top.same /\ Top.errs = {} THEN { Top.kids } ELSE {}
      OBVIOUS
    <2>1. \A side \in Side, d \in Dirs :
             IF d # top THEN node'[side][d] = node[side][d]
             ELSE node'[side][d].checksum = sum
      BY <1>0, <1>4, <2>a, CalmFinish
    <2>2. top \in dirs["left"] \cap dirs["right"]
      <3>1. frames # << >> /\ Len(frames) \in 1..Len(frames)
        BY <1>0, <1>4, NestTop DEF FinishDir, Loops
      <3> QED
        BY <1>0, <2>a, <3>1 DEF FramesKnown, KnownHolds, Top
    <2>3. SameSums'
      <3> SUFFICES ASSUME NEW d \in Dirs PROVE node'["left"][d].checksum = node'["right"][d].checksum
        BY DEF SameSums
      <3>1. CASE d = top
        BY <1>0, <2>1, <3>1
      <3>2. CASE d # top
        BY <1>0, <2>1, <3>2 DEF SameSums
      <3> QED
        BY <3>1, <3>2
    <2>4. ResultsThere'
      <3> SUFFICES ASSUME NEW side \in Side, NEW d \in Dirs,
                          node'[side][d].resolved \/ node'[side][d].checksum # {}
                   PROVE  d \in dirs["left"] \cap dirs["right"]
        BY <1>1 DEF ResultsThere
      <3>1. CASE d = top
        BY <2>2, <3>1
      <3>2. CASE d # top
        BY <1>0, <2>1, <3>2 DEF ResultsThere
      <3> QED
        BY <3>1, <3>2
    <2> QED
      BY <2>3, <2>4
  <1>5. ASSUME ~FinishDir PROVE SameSums' /\ ResultsThere'
    <2>1. \A side \in Side, dir \in Dirs :
              LET old == node[side][dir]
                  new == node'[side][dir]
              IN  \/ new.checksum = old.checksum /\ (new.resolved => old.resolved \/ old.checksum # {})
                  \/ new.checksum = {} /\ ~new.resolved
                     /\ \A s \in Side, d \in Dirs : node'[s][d].checksum = {}
      BY <1>0, <1>5, SumSteps
    <2>2. SameSums'
      BY <1>0, <2>1 DEF SameSums
    <2>3. ResultsThere'
      BY <1>0, <1>1, <2>1 DEF ResultsThere
    <2> QED
      BY <2>2, <2>3
  <1>6. SameSums' /\ ResultsThere'
    BY <1>4, <1>5
  <1>7. ASSUME HashSucceeds PROVE HashedBoth' /\ FullHasPartial'
    <2>1. \A side \in Side, file \in Files :
              LET old == facts[side][file]
                  new == facts'[side][file]
              IN  IF side = Reader /\ file = pair.file
                  THEN /\ new.version = old.version /\ old.version # 0
                       /\ new.full # 0 => new.partial # 0
                       /\ \A other \in Side : disk[other][file] # NoFile
                  ELSE new = old
      BY <1>0, <1>7, HashedPair
    <2> SUFFICES ASSUME NEW side \in Side, NEW file \in Files
                 PROVE  /\ facts'[side][file].partial # 0 =>
                             /\ facts'[side][file].version # 0
                             /\ \A other \in Side : disk'[other][file] # NoFile
                        /\ facts'[side][file].full # 0 => facts'[side][file].partial # 0
      BY DEF HashedBoth, FullHasPartial
    <2>2. CASE side = Reader /\ file = pair.file
      BY <1>1, <2>1, <2>2
    <2>3. CASE ~(side = Reader /\ file = pair.file)
      <3>1. facts'[side][file] = facts[side][file]
        BY <2>1, <2>3
      <3> QED
        BY <1>0, <1>1, <3>1 DEF HashedBoth, FullHasPartial
    <2> QED
      BY <2>2, <2>3
  <1>8. ASSUME ~HashSucceeds PROVE HashedBoth' /\ FullHasPartial'
    <2>1. \A side \in Side, file \in Files :
              LET old == facts[side][file]
                  new == facts'[side][file]
              IN  \/ /\ new.partial = old.partial /\ new.full = old.full
                     /\ old.version # 0 => new.version # 0
                  \/ new.partial = 0 /\ new.full = 0
      BY <1>0, <1>8, HashSteps
    <2> SUFFICES ASSUME NEW side \in Side, NEW file \in Files
                 PROVE  /\ facts'[side][file].partial # 0 =>
                             /\ facts'[side][file].version # 0
                             /\ \A other \in Side : disk'[other][file] # NoFile
                        /\ facts'[side][file].full # 0 => facts'[side][file].partial # 0
      BY DEF HashedBoth, FullHasPartial
    <2> QED
      BY <1>0, <1>1, <2>1 DEF HashedBoth, FullHasPartial
  <1>9. HashedBoth' /\ FullHasPartial'
    BY <1>7, <1>8
  <1> QED
    BY <1>2, <1>3, <1>6, <1>9 DEF RowsKept

\* A file that both sides have a checksum of has one content: so says its last comparison.
AlikeFile(file) ==
    (\A side \in Side : facts[side][file].partial # 0) =>
        /\ facts["left"][file].full # 0
        /\ facts["left"][file].full = facts["right"][file].full

\* So have all those below an entry that a directory is shown with.
AlikeIn(dir, path) ==
    \A file \in Files : IsWithinSubtree(file, path) /\ Shown(file, dir) => AlikeFile(file)

Entered(dir) == \E k \in 1..Len(frames) : frames[k].dir = dir /\ frames[k].entered

\* A directory keeps a checksum only while this is so of what is below it, but
\* for one that is being compared again,
SumsTrue ==
    \A dir \in Dirs : node["left"][dir].checksum # {} /\ ~Entered(dir) => AlikeIn(dir, dir)

\* of which it is so of the entries that have been taken.
TookAlike ==
    \A k \in 1..Len(frames), dir \in Dirs :
        dir = frames[k].dir /\ frames[k].entered /\ frames[k].same =>
            \A path \in Opened(dir) \ (frames[k].todo \cup Waiting(k)) : AlikeIn(dir, path)

AlikeStays == \A dir, path : AlikeIn(dir, path) => AlikeIn(dir, path)'

LEMMA AlikeKept ==
    ASSUME NEW dir, NEW path, AlikeIn(dir, path),
           \A file \in Files : IsWithinSubtree(file, path) /\ AlikeFile(file) => AlikeFile(file)',
           \A p \in AllPaths : LeftOut(p) => LeftOut(p)'
    PROVE  AlikeIn(dir, path)'
  <1> SUFFICES ASSUME NEW file \in Files, IsWithinSubtree(file, path), Shown(file, dir)'
               PROVE  AlikeFile(file)'
    BY DEF AlikeIn
  <1>1. Lineage(file) \subseteq AllPaths
    BY LineageInDirs DEF AllPaths
  <1>2. Shown(file, dir)
    BY <1>1 DEF Shown
  <1> QED
    BY <1>2 DEF AlikeIn

LEMMA AlikeSteps ==
    ASSUME TInv, KindsApart, HeldRight, KeepsCaches, [Next]_vars, ~HashSucceeds
    PROVE  AlikeStays
  <1>1. \A side \in Side, file \in Files :
              LET old == facts[side][file]
                  new == facts'[side][file]
              IN  \/ /\ new.partial = old.partial /\ new.full = old.full
                     /\ old.version # 0 => new.version # 0
                  \/ new.partial = 0 /\ new.full = 0
    BY HashSteps
  <1>2. ASSUME NEW file \in Files, AlikeFile(file) PROVE AlikeFile(file)'
    <2>1. "left" \in Side /\ "right" \in Side
      BY DEF Side
    <2> SUFFICES ASSUME \A side \in Side : facts'[side][file].partial # 0
                 PROVE  /\ facts'["left"][file].full # 0
                        /\ facts'["left"][file].full = facts'["right"][file].full
      BY DEF AlikeFile
    <2>2. \A side \in Side : /\ facts'[side][file].partial = facts[side][file].partial
                             /\ facts'[side][file].full = facts[side][file].full
      BY <1>1
    <2> QED
      BY <1>2, <2>1, <2>2 DEF AlikeFile
  <1>3. \A p \in AllPaths : LeftOut(p) => LeftOut(p)'
    BY WorldGrows
  <1> QED
    BY <1>2, <1>3, AlikeKept DEF AlikeStays

LEMMA AlikeAbove ==
    ASSUME NEW child \in AllPaths \ { Root }, AlikeIn(child, child), NEW dir, dir = ParentPath(child)
    PROVE  AlikeIn(dir, child)
  <1> SUFFICES ASSUME NEW file \in Files, IsWithinSubtree(file, child), Shown(file, dir)
               PROVE  Shown(file, child)
    BY DEF AlikeIn
  <1>1. IsWithinSubtree(child, dir) /\ ~IsWithinSubtree(dir, child)
    BY ChildWithin
  <1>2. ASSUME NEW above \in Lineage(file), IsWithinSubtree(above, child), above # child
        PROVE  ~LeftOut(above)
    <2>1. above \in AllPaths
      BY LineageInDirs DEF AllPaths
    <2>2. IsWithinSubtree(above, dir) /\ above # dir
      BY <1>1, <1>2, <2>1, WithinTransitive
    <2> QED
      BY <2>2 DEF Shown
  <1> QED
    BY <1>2 DEF Shown

LEMMA TookAlikeStep ==
    ASSUME \A k \in 1..Len(frames'), dir \in Dirs : \A f, w :
               f = frames'[k] /\ w = Waiting(k)' /\ dir = f.dir /\ f.entered /\ f.same =>
                   \A path \in Opened(dir)' \ (f.todo \cup w) : AlikeIn(dir, path)'
    PROVE  TookAlike'
  BY DEF TookAlike

\* The activations are the same, or there are none.
LEMMA TookAlikeStill ==
    ASSUME TookAlike, AlikeStays, frames' = frames,
           frames # << >> => /\ \A dir : Opened(dir)' = Opened(dir)
                             /\ pair # NoPair => pair' # NoPair /\ pair'.file = pair.file
                             /\ pair = NoPair => pair' = NoPair
    PROVE  TookAlike'
  <1> SUFFICES ASSUME NEW k \in 1..Len(frames'), NEW dir \in Dirs, NEW f, NEW w,
                      f = frames'[k], w = Waiting(k)', dir = f.dir, f.entered, f.same,
                      NEW path \in Opened(dir)' \ (f.todo \cup w)
               PROVE  AlikeIn(dir, path)'
    BY TookAlikeStep
  <1>1. frames # << >>
    OBVIOUS
  <1>2. w = Waiting(k)
    BY <1>1 DEF Waiting
  <1>3. AlikeIn(dir, path)
    BY <1>1, <1>2 DEF TookAlike
  <1> QED
    BY <1>3 DEF AlikeStays

\* A step of the innermost activation, which may have pushed one more.
LEMMA TookAlikeTop ==
    ASSUME IsNest(frames), frames # << >>, NEW top, top = Top.dir, NEW n, n = Len(frames),
           TookAlike, AlikeStays, \A dir : Opened(dir)' = Opened(dir),
           Len(frames') \in { Len(frames), Len(frames) + 1 },
           \A i \in 1..(Len(frames) - 1) : frames'[i] = frames[i],
           frames'[Len(frames)].dir = top,
           \A f, w : f = frames'[n] /\ w = Waiting(n)' /\ f.entered /\ f.same =>
               \A path \in Opened(top) \ (f.todo \cup w) : AlikeIn(top, path),
           Len(frames') = Len(frames) + 1 => ~frames'[Len(frames) + 1].entered
    PROVE  TookAlike'
  <1>0. n \in Nat \ {0} /\ n \in 1..n
    BY NestTop
  <1> SUFFICES ASSUME NEW k \in 1..Len(frames'), NEW dir \in Dirs, NEW f, NEW w,
                      f = frames'[k], w = Waiting(k)', dir = f.dir, f.entered, f.same,
                      NEW path \in Opened(dir) \ (f.todo \cup w)
               PROVE  AlikeIn(dir, path)
    BY TookAlikeStep DEF AlikeStays
  <1>2. CASE k = n
    BY <1>0, <1>2
  <1>3. CASE k = n + 1
    BY <1>0, <1>3
  <1>4. CASE k \in 1..(n - 1)
    <2>1. f = frames[k] /\ k + 1 \in 1..n /\ k < n /\ k < Len(frames') /\ k \in 1..n
      BY <1>0, <1>4
    <2>2. frames'[k + 1].dir = frames[k + 1].dir
      <3>1. k + 1 = n \/ k + 1 \in 1..(n - 1)
        BY <1>0, <1>4
      <3>2. frames[n].dir = top
        BY DEF Top
      <3> QED
        BY <1>0, <3>1, <3>2
    <2>3. w = Waiting(k)
      BY <2>1, <2>2 DEF Waiting
    <2> QED
      BY <2>1, <2>3 DEF TookAlike
  <1>5. k = n \/ k = n + 1 \/ k \in 1..(n - 1)
    BY <1>0
  <1> QED
    BY <1>2, <1>3, <1>4, <1>5

\* compareSubtree returns.
LEMMA TookAlikeReturns ==
    ASSUME IsNest(frames), frames # << >>, pair = NoPair, pair' = NoPair,
           TookAlike, AlikeStays, \A dir : Opened(dir)' = Opened(dir),
           NEW sum, NEW errs \in SUBSET Side, frames' = Returned(sum, errs),
           NEW top, top = Top.dir, sum # {} => AlikeIn(top, top)
    PROVE  TookAlike'
  <1>a. PICK n : n = Len(frames)
    OBVIOUS
  <1>0. n \in Nat \ {0} /\ n \in 1..n /\ Top = frames[n] /\ top \in Dirs
    BY <1>a, NestTop DEF Top
  <1>1. /\ IsNest(frames') /\ Len(frames') = n - 1
        /\ \A i \in 1..(n - 2) : frames'[i] = frames[i]
        /\ n > 1 =>
             LET under == frames[n - 1]
                 new == frames'[n - 1]
             IN  /\ new.dir = under.dir /\ new.todo = under.todo
                 /\ new.entered /\ under.entered
                 /\ new.same = (under.same /\ sum # {})
                 /\ under.dir = ParentPath(top) /\ top # Root
    BY <1>a, ReturnedTo
  <1>b. n > 1 =>
             LET under == frames[n - 1]
                 new == frames'[n - 1]
             IN  /\ new.dir = under.dir /\ new.todo = under.todo /\ under.entered
                 /\ new.same => under.same /\ sum # {}
                 /\ under.dir = ParentPath(top) /\ top # Root
    <2> DEFINE under == frames[n - 1]
               new == frames'[n - 1]
    <2>1. n > 1 => new.same = (under.same /\ sum # {})
      BY <1>1
    <2> HIDE DEF under, new
    <2>2. n > 1 => (new.same => under.same /\ sum # {})
      BY <2>1, Zenon
    <2> QED
      BY <1>1, <2>2 DEF under, new
  <1> SUFFICES ASSUME NEW k \in 1..Len(frames'), NEW dir \in Dirs, NEW f, NEW w,
                      f = frames'[k], w = Waiting(k)', dir = f.dir, f.entered, f.same,
                      NEW path \in Opened(dir) \ (f.todo \cup w)
               PROVE  AlikeIn(dir, path)
    BY TookAlikeStep DEF AlikeStays
  <1>2. k \in 1..(n - 1) /\ k \in 1..n /\ k + 1 \in 1..n /\ k < n
    BY <1>0, <1>1
  <1>3. Waiting(k) = { frames[k + 1].dir }
    BY <1>a, <1>2 DEF Waiting
  <1>4. CASE k \in 1..(n - 2)
    <2>1. f = frames[k] /\ k < Len(frames')
      BY <1>0, <1>1, <1>4
    <2>2. frames'[k + 1].dir = frames[k + 1].dir
      <3>1. k + 1 \in 1..(n - 2) \/ (k + 1 = n - 1 /\ n > 1)
        BY <1>0, <1>4
      <3> QED
        BY <1>1, <3>1
    <2>3. w = Waiting(k)
      BY <1>3, <2>1, <2>2 DEF Waiting
    <2> QED
      BY <1>2, <1>a, <2>1, <2>3 DEF TookAlike
  <1>5. CASE k = n - 1
    <2> DEFINE under == frames[n - 1]
    <2>0. n > 1 /\ k = n - 1
      BY <1>0, <1>2, <1>5
    <2>1. /\ n > 1 /\ f.todo = under.todo /\ under.same /\ under.entered /\ sum # {}
          /\ dir = under.dir /\ ParentPath(top) = dir /\ top # Root
      BY <1>b, <2>0
    <2>2. k + 1 = n /\ Waiting(k) = { top }
      BY <1>0, <1>3, <1>5
    <2>3. under = frames[k]
      BY <1>5
    <2> HIDE DEF under
    <2>4. CASE path = top
      <3>1. AlikeIn(top, top) /\ top \in AllPaths \ { Root }
        BY <1>0, <2>1 DEF AllPaths
      <3> QED
        BY <2>1, <2>4, <3>1, AlikeAbove
    <2>5. CASE path # top
      BY <1>2, <1>a, <2>1, <2>2, <2>3, <2>5 DEF TookAlike
    <2> QED
      BY <2>4, <2>5
  <1>6. k = n - 1 \/ k \in 1..(n - 2)
    BY <1>0, <1>2
  <1> QED
    BY <1>4, <1>5, <1>6

\* Every directory above the innermost activation's has an activation.
LEMMA NestCovers ==
    ASSUME NEW s, IsNest(s), s # << >>, NEW above \in Lineage(s[Len(s)].dir)
    PROVE  \E k \in 1..Len(s) : s[k].dir = above
  <1>1. /\ Len(s) \in Nat /\ Len(s) \in 1..Len(s) /\ s[Len(s)].dir \in AllPaths
    BY NestTop DEF AllPaths
  <1> DEFINE S == { s[k].dir : k \in 1..Len(s) }
  <1>2. s[Len(s)].dir \in S
    BY <1>1
  <1>3. ASSUME NEW a \in S, a # Root PROVE ParentPath(a) \in S
    <2>1. PICK k \in 1..Len(s) : a = s[k].dir
      OBVIOUS
    <2>2. k # 1
      BY <1>3, <2>1 DEF IsNest
    <2>3. k - 1 \in 1..(Len(s) - 1) /\ k - 1 \in 1..Len(s) /\ (k - 1) + 1 = k
      BY <1>1, <2>2
    <2>4. ParentPath(s[k].dir) = s[k - 1].dir
      BY <2>3 DEF IsNest
    <2> QED
      BY <2>1, <2>3, <2>4
  <1>4. Lineage(s[Len(s)].dir) \subseteq S
    <2> HIDE DEF S
    <2> QED
      BY <1>1, <1>2, <1>3, Upward
  <1> QED
    BY <1>4

LEMMA OpenedStays ==
    ASSUME KeepsKnown
    PROVE  \A dir : Opened(dir)' = Opened(dir)
  BY KnownStays DEF Opened

\* What all entries of a directory say, the directory says.
LEMMA AlikeWhole ==
    ASSUME KnownClosed, KindsApart, HashedBoth, NEW dir \in Dirs, NEW one \in Side, dir \in KnownDirs(one),
           \A path \in Opened(dir) : AlikeIn(dir, path)
    PROVE  AlikeIn(dir, dir)
  <1> SUFFICES ASSUME NEW file \in Files, IsWithinSubtree(file, dir), Shown(file, dir),
                      \A side \in Side : facts[side][file].partial # 0
               PROVE  AlikeFile(file)
    BY DEF AlikeIn, AlikeFile
  <1>1. \A side \in Side : file \in KnownFiles(side)
    BY DEF HashedBoth, KnownFiles
  <1>2. file # dir /\ file \in AllPaths /\ dir \in Lineage(file)
    BY <1>1 DEF KindsApart, AllPaths, IsWithinSubtree
  <1>3. PICK path \in Lineage(file) : path \in AllPaths \ { Root } /\ ParentPath(path) = dir
    BY <1>2, ChildToward
  <1>4. path \in Known(one)
    BY <1>1, <1>2, <1>3, KnownAbove DEF Known
  <1>5. path \in Opened(dir)
    BY <1>3, <1>4 DEF Opened, ChildrenOf, Known
  <1> QED
    BY <1>3, <1>5 DEF AlikeIn, IsWithinSubtree

\* Of an entry that is skipped nothing is shown, or one side has nothing below it.
LEMMA AlikeSkipped ==
    ASSUME KnownHolds, KnownClosed, HashedBoth, NEW path \in AllPaths \ { Root }, SkipsNow(path),
           NEW dir, dir = ParentPath(path)
    PROVE  AlikeIn(dir, path)
  <1> SUFFICES ASSUME NEW file \in Files, IsWithinSubtree(file, path), Shown(file, dir),
                      \A side \in Side : facts[side][file].partial # 0
               PROVE  FALSE
    BY DEF AlikeIn, AlikeFile
  <1>0. file \in AllPaths /\ path \in Lineage(file)
    BY DEF AllPaths, IsWithinSubtree
  <1>1. CASE PairIgnored(path)
    <2>1. LeftOut(path)
      <3>1. PICK side \in Side : << side, path >> \in ignored /\ path \in KnownDirs(side) \cup KnownFiles(side)
        BY <1>1 DEF PairIgnored
      <3>2. Holds(side, path)
        BY <3>1 DEF KnownHolds, Holds, KnownFiles
      <3> QED
        BY <3>1, <3>2 DEF LeftOut
    <2>2. IsWithinSubtree(path, dir) /\ path # dir
      BY ChildWithin
    <2> QED
      BY <1>0, <2>1, <2>2 DEF Shown
  <1>2. CASE AbsentNow(path)
    <2>1. PICK other \in Side : KindNow(other, path) = "none"
      BY <1>2 DEF AbsentNow
    <2>2. path \notin Known(other)
      BY <2>1 DEF KindNow, Known
    <2>3. file \in KnownFiles(other)
      BY DEF HashedBoth, KnownFiles
    <2> QED
      BY <1>0, <2>2, <2>3, KnownAbove DEF Known
  <1> QED
    BY <1>1, <1>2 DEF SkipsNow

LEMMA AlikePair ==
    ASSUME TInv, KindsApart, HeldRight, KnownClosed, HashedBoth, PairRows, pair # NoPair, Stage = "matching",
           NEW name, name = pair.file, NEW dir
    PROVE  AlikeIn(dir, name)
  <1>0. PairInv /\ Side = { "left", "right" }
    BY DEF TInv, Side
  <1>1. /\ name \in Files /\ name \in KnownFiles("left") \cap KnownFiles("right")
        /\ \A side \in Side : pair.seen[side].full \in { 0, facts[side][name].full }
    BY <1>0 DEF PairInv, Pairs, PairRows
  <1>2. pair.seen["left"].full # 0 /\ pair.seen["left"].full = pair.seen["right"].full
    <2> DEFINE l == pair.seen["left"]
               r == pair.seen["right"]
    <2>1. NextCascadeStep(l, r) = "matching"
      BY DEF Stage
    <2> HIDE DEF l, r
    <2>2. l.full # 0 /\ l.full = r.full
      BY <2>1 DEF NextCascadeStep
    <2> QED
      BY <2>2 DEF l, r
  <1>3. AlikeFile(name)
    BY <1>0, <1>1, <1>2 DEF AlikeFile
  <1> SUFFICES ASSUME NEW file \in Files, IsWithinSubtree(file, name),
                      \A side \in Side : facts[side][file].partial # 0
               PROVE  file = name
    BY <1>3 DEF AlikeIn, AlikeFile
  <1>4. file \in KnownFiles("left") /\ file \in AllPaths /\ name \in Lineage(file)
    BY <1>0 DEF HashedBoth, KnownFiles, AllPaths, IsWithinSubtree
  <1>5. file # name => name \in KnownDirs("left")
    BY <1>0, <1>4, KnownAbove DEF Known
  <1> QED
    BY <1>0, <1>1, <1>5 DEF KindsApart

\* A read tells of a pair below directories that are being compared, and not
\* below what has been taken of them.
LEMMA AlikeHash ==
    ASSUME TInv, KindsApart, HeldRight, KnownHolds, ResultsThere, PairRows, SumsTrue, TookAlike, HashSucceeds
    PROVE  SumsTrue' /\ TookAlike'
  <1>0. TreesInv /\ RowsInv /\ PairInv /\ IsNest(frames) /\ Side = { "left", "right" }
    BY DEF TInv, Side
  <1>a. PICK name, n : name = pair.file /\ n = Len(frames)
    OBVIOUS
  <1>1. /\ node' = node /\ frames' = frames /\ UNCHANGED worldVars /\ at = "hash" /\ KeepsKnown
    BY Pass2KeepsKnown DEF HashSucceeds, Pass2
  <1>2. /\ pair # NoPair /\ name \in Files /\ name # Root /\ frames # << >> /\ Top.entered
        /\ ParentPath(name) = Top.dir
        /\ name \in KnownFiles("left") \cap KnownFiles("right")
    BY <1>0, <1>1, <1>a DEF PairInv, Pairs, PairRows
  <1>3. /\ pair' \in Pairs /\ pair'.file = name
        /\ \A side \in Side, f \in Files : f # name => facts'[side][f] = facts[side][f]
    BY <1>0, <1>a, ReadRows, CalmReads
  <1>4. pair' # NoPair
    BY <1>2, <1>3 DEF NoPair, Pairs
  <1>5. /\ n \in Nat \ {0} /\ n \in 1..n /\ Top = frames[n]
        /\ name \in AllPaths \ { Root }
        /\ Lineage(name) = { name } \cup Lineage(frames[n].dir)
    BY <1>0, <1>2, <1>a, NestTop, PathFacts DEF Top, AllPaths
  <1>6. ASSUME NEW dir, NEW path, AlikeIn(dir, path), ~IsWithinSubtree(name, path)
        PROVE  AlikeIn(dir, path)'
    <2>1. ASSUME NEW file \in Files, IsWithinSubtree(file, path), AlikeFile(file)
          PROVE  AlikeFile(file)'
      <3>1. \A side \in Side : facts'[side][file] = facts[side][file]
        BY <1>3, <1>6, <2>1
      <3> QED
        BY <1>0, <2>1, <3>1 DEF AlikeFile
    <2>2. \A p : LeftOut(p) => LeftOut(p)'
      BY <1>1 DEF worldVars, LeftOut, Holds
    <2> QED
      BY <1>6, <2>1, <2>2, AlikeKept
  <1>7. ASSUME NEW k \in 1..n PROVE frames[k].entered
    <2>1. \A i \in 1..(Len(frames) - 1) : frames[i].entered
      BY <1>0 DEF IsNest
    <2>2. k = n \/ k \in 1..(n - 1)
      BY <1>5
    <2> QED
      BY <1>2, <1>5, <1>a, <2>1, <2>2
  <1>8. SumsTrue'
    <2> SUFFICES ASSUME NEW dir \in Dirs, node["left"][dir].checksum # {}, ~Entered(dir)
                 PROVE  AlikeIn(dir, dir)'
      BY <1>1 DEF SumsTrue, Entered
    <2>1. AlikeIn(dir, dir)
      BY DEF SumsTrue
    <2>2. ~IsWithinSubtree(name, dir)
      <3> SUFFICES ASSUME dir \in Lineage(name) PROVE FALSE
        BY DEF IsWithinSubtree
      <3>1. dir # name
        <4>1. dir \in dirs["left"]
          BY <1>0 DEF ResultsThere
        <4>2. disk["left"][name] # NoFile
          BY <1>0, <1>2 DEF KnownHolds
        <4> QED
          BY <1>0, <1>2, <4>1, <4>2 DEF TreesInv
      <3>2. PICK k \in 1..Len(frames) : frames[k].dir = dir
        BY <1>0, <1>2, <1>5, <1>a, <3>1, NestCovers
      <3> QED
        BY <1>7, <1>a, <3>2 DEF Entered
    <2> QED
      BY <1>6, <2>1, <2>2
  <1>9. TookAlike'
    <2> SUFFICES ASSUME NEW k \in 1..Len(frames'), NEW dir \in Dirs, NEW f, NEW w,
                        f = frames'[k], w = Waiting(k)', dir = f.dir, f.entered, f.same,
                        NEW path \in Opened(dir)' \ (f.todo \cup w)
                 PROVE  AlikeIn(dir, path)'
      BY TookAlikeStep
    <2>1. w = Waiting(k) /\ path \in Opened(dir)
      BY <1>1, <1>2, <1>3, <1>4, <1>a, OpenedStays DEF Waiting
    <2>2. AlikeIn(dir, path)
      BY <1>1, <2>1 DEF TookAlike
    <2>3. path \in AllPaths \ { Root } /\ ParentPath(path) = dir
      BY <2>1, OpenedChildren
    <2>4. \E q \in Waiting(k) : /\ q \in AllPaths \ { Root } /\ ParentPath(q) = dir
                                /\ q \in Lineage(name)
      <3>1. CASE k = n
        <4>1. Waiting(k) = { name } /\ name \in Lineage(name)
          BY <1>2, <1>5, <1>a, <3>1, PathFacts DEF Waiting
        <4> QED
          BY <1>1, <1>2, <1>5, <3>1, <4>1
      <3>2. CASE k \in 1..(n - 1)
        <4>1. k + 1 \in 1..n /\ k < n /\ k + 1 <= n
          BY <1>5, <3>2
        <4>2. /\ IsFrame(frames[k + 1]) /\ frames[k + 1].dir # Root
              /\ ParentPath(frames[k + 1].dir) = frames[k].dir
          BY <1>0, <1>a, <3>2, <4>1 DEF IsNest
        <4>3. frames[k + 1].dir \in AllPaths
          BY <4>2, FrameTypes DEF AllPaths
        <4>4. IsWithinSubtree(frames[n].dir, frames[k + 1].dir)
          BY <1>0, <1>5, <1>a, <4>1, NestChain
        <4>5. Waiting(k) = { frames[k + 1].dir }
          BY <1>a, <4>1 DEF Waiting
        <4> QED
          BY <1>1, <1>5, <4>2, <4>3, <4>4, <4>5 DEF IsWithinSubtree
      <3> QED
        BY <1>1, <1>5, <1>a, <3>1, <3>2
    <2>5. ~IsWithinSubtree(name, path)
      <3> SUFFICES ASSUME path \in Lineage(name) PROVE FALSE
        BY DEF IsWithinSubtree
      <3>1. PICK q \in Waiting(k) : /\ q \in AllPaths \ { Root } /\ ParentPath(q) = dir
                                    /\ q \in Lineage(name)
        BY <2>4
      <3>2. q = path
        BY <1>5, <2>3, <3>1, ChildIsUnique
      <3> QED
        BY <2>1, <3>1, <3>2
    <2> QED
      BY <1>6, <2>2, <2>5
  <1> QED
    BY <1>8, <1>9

\* The activation that has opened its directory.
LEMMA OpenedNow ==
    ASSUME IsNest(frames), frames # << >>, ~Top.entered, NEW dir, dir = Top.dir, NEW n, n = Len(frames),
           frames' = Append(Rest, [Top EXCEPT
               !.entered = TRUE, !.todo = Opened(Top.dir),
               !.errs = { side \in Side : HasError(side, Top.dir) }])
    PROVE  LET new == frames'[n]
           IN  /\ frames' # << >> /\ Len(frames') = n
               /\ \A i \in 1..(n - 1) : frames'[i] = frames[i]
               /\ new.dir = dir /\ new.entered /\ new.todo = Opened(dir) /\ new.same
  <1>1. PICK errs \in SUBSET Side : errs = { side \in Side : HasError(side, dir) }
    OBVIOUS
  <1>2. frames' = Append(Rest, [Top EXCEPT
             !.entered = TRUE, !.todo = Opened(Top.dir), !.errs = errs])
    BY <1>1
  <1>3. /\ frames' # << >> /\ Len(frames') = Len(frames)
        /\ \A i \in 1..(Len(frames) - 1) : frames'[i] = frames[i]
        /\ frames'[Len(frames)] = Top'
        /\ Top'.dir = Top.dir /\ Top'.entered
        /\ Top'.todo = Opened(Top.dir) /\ Top'.same /\ Top'.errs = errs
    BY <1>2, OpenedFrame
  <1> QED
    BY <1>1, <1>3

\* What a step leaves of the activations: those that have been entered stay,
\* but for the innermost when its directory is finished.
LEMMA EnteredStays ==
    ASSUME TInv, KindsApart, HeldRight, KeepsCaches, ~aborted, [Next]_vars
    PROVE  /\ ~FinishDir => \A dir : Entered(dir) => Entered(dir)'
           /\ FinishDir => \A dir : dir # Top.dir /\ Entered(dir) => Entered(dir)'
  <1>0. IsNest(frames) /\ RowsInv /\ PairInv
    BY DEF TInv
  <1>a. PICK n, top : n = Len(frames) /\ top = Top.dir
    OBVIOUS
  <1>1. CASE frames' = frames
    BY <1>1 DEF Entered
  <1>2. ASSUME frames # << >>, NEW sum, NEW errs \in SUBSET Side, frames' = Returned(sum, errs),
               NEW dir, Entered(dir), dir # top \/ ~Top.entered
        PROVE  Entered(dir)'
    <2>1. /\ n \in Nat \ {0} /\ Len(frames') = n - 1 /\ Top = frames[n]
          /\ \A i \in 1..(n - 2) : frames'[i] = frames[i]
          /\ n > 1 => /\ frames'[n - 1].dir = frames[n - 1].dir /\ frames'[n - 1].entered
      BY <1>0, <1>2, <1>a, NestTop, ReturnedTo DEF Top
    <2>2. PICK k \in 1..n : frames[k].dir = dir /\ frames[k].entered
      BY <1>2, <1>a DEF Entered
    <2>3. k # n
      BY <1>2, <1>a, <2>1, <2>2
    <2>4. k \in 1..Len(frames') /\ n > 1 /\ (k = n - 1 \/ k \in 1..(n - 2))
      BY <2>1, <2>3
    <2>5. frames'[k].dir = dir /\ frames'[k].entered
      BY <2>1, <2>2, <2>4
    <2> QED
      BY <2>4, <2>5 DEF Entered
  <1>3. ASSUME frames # << >>, Len(frames') \in { n, n + 1 },
               \A i \in 1..(n - 1) : frames'[i] = frames[i],
               frames'[n].dir = top, frames'[n].entered, NEW dir, Entered(dir)
        PROVE  Entered(dir)'
    <2>1. n \in Nat \ {0} /\ n \in 1..n /\ Top = frames[n]
      BY <1>0, <1>3, <1>a, NestTop DEF Top
    <2>2. PICK k \in 1..n : frames[k].dir = dir /\ frames[k].entered
      BY <1>3, <1>a DEF Entered
    <2>3. k \in 1..Len(frames') /\ (k = n \/ k \in 1..(n - 1))
      BY <1>3, <2>1
    <2>4. frames'[k].dir = dir /\ frames'[k].entered
      BY <1>3, <1>a, <2>1, <2>2, <2>3
    <2> QED
      BY <2>3, <2>4 DEF Entered
  <1>4. ASSUME Enter, NEW dir, Entered(dir) PROVE Entered(dir)'
    <2>1. frames # << >> /\ ~Top.entered
      BY <1>4 DEF Enter
    <2>2. CASE frames' = Returned({}, {})
      BY <1>2, <1>4, <2>1, <2>2
    <2>3. CASE frames' = Returned(node["left"][Top.dir].checksum, {})
      BY <1>2, <1>4, <2>1, <2>3
    <2>4. CASE frames' = Append(Rest, [Top EXCEPT
               !.entered = TRUE, !.todo = Opened(Top.dir),
               !.errs = { side \in Side : HasError(side, Top.dir) }])
      <3>1. /\ Len(frames') = n /\ frames'[n].dir = top /\ frames'[n].entered
            /\ \A i \in 1..(n - 1) : frames'[i] = frames[i]
        BY <1>0, <1>a, <2>1, <2>4, OpenedNow
      <3> QED
        BY <1>3, <1>4, <2>1, <3>1
    <2> QED
      BY <1>4, <2>2, <2>3, <2>4, EnterIsNow DEF EnterNow
  <1>5. ASSUME NEW path, NextEntry(path), NEW dir, Entered(dir) PROVE Entered(dir)'
    <2>1. frames # << >>
      BY <1>5 DEF NextEntry, Loops
    <2>2. /\ Len(frames') \in { n, n + 1 } /\ frames'[n].dir = top /\ frames'[n].entered
          /\ \A i \in 1..(n - 1) : frames'[i] = frames[i]
      BY <1>0, <1>5, <1>a, EntryStackNow
    <2> QED
      BY <1>3, <1>5, <2>1, <2>2
  <1>6. ASSUME PairDone, NEW dir, Entered(dir) PROVE Entered(dir)'
    <2> DEFINE checksum == IF Stage = "matching" THEN { pair.seen["left"].full } ELSE {}
               x == Taken(Top, pair.file, "file", checksum, pair.errs)
    <2>1. /\ frames # << >> /\ Top.entered /\ IsFrame(Top) /\ pair.errs \in SUBSET Side
      BY <1>0, <1>6, NestTop DEF PairDone, PairInv, Pairs, Top
    <2>2. frames' = Append(Rest, x)
      BY <1>6 DEF PairDone
    <2> HIDE DEF checksum
    <2>3. IsFrame(x) /\ x.dir = Top.dir /\ x.entered
      BY <2>1, TakenFrame
    <2> HIDE DEF x
    <2>4. /\ Len(frames') = n /\ frames'[n] = x
          /\ \A i \in 1..(n - 1) : frames'[i] = frames[i]
      BY <1>0, <1>a, <2>1, <2>2, <2>3, Replaced
    <2> QED
      BY <1>3, <1>6, <1>a, <2>1, <2>3, <2>4
  <1>7. ASSUME FinishDir, NEW dir, dir # top, Entered(dir) PROVE Entered(dir)'
    <2>1. PICK sum, errs : frames' = Returned(sum, errs) /\ errs = Top.errs /\ frames # << >>
      BY <1>7 DEF FinishDir, Loops
    <2>2. errs \in SUBSET Side
      BY <1>0, <2>1, NestTop, FrameTypes DEF Top
    <2> QED
      BY <1>2, <1>7, <2>1, <2>2
  <1>8. frames' = frames \/ Enter \/ PairDone \/ FinishDir \/ frames = << >>
            \/ \E path : NextEntry(path)
    <2>1. CASE Pass2
      BY <2>1 DEF Pass2, ReadNext, HashSucceeds, HashFails, Cancel, EndPass2
    <2>2. CASE Pass1
      BY <1>0, <2>2, HeldList DEF Pass1, StartPass2, List, PairInv
    <2>3. CASE Environment
      BY <2>3 DEF Environment, Compare, Stop, Restart, Edit, Delete, SetIgnored, Changes, passVars,
         KeepsCaches
    <2> QED
      BY <2>1, <2>2, <2>3 DEF Next, vars, passVars
  <1>9. frames = << >> => \A dir : ~Entered(dir)
    BY DEF Entered
  <1>10. \A dir : Entered(dir) /\ ~(FinishDir /\ dir = top) => Entered(dir)'
    BY <1>1, <1>4, <1>5, <1>6, <1>7, <1>8, <1>9
  <1> QED
    BY <1>10, <1>a

LEMMA KeptAborted ==
    ASSUME KeepsCaches, ~aborted, [Next]_vars
    PROVE  ~aborted'
  <1>1. CASE Pass1
    BY <1>1 DEF Pass1, StartPass2, List
  <1>2. CASE Pass2
    BY <1>2 DEF Pass2, Enter, ReadNext, HashSucceeds, HashFails, Cancel, PairDone, FinishDir, EndPass2,
       NextEntry
  <1>3. CASE Environment
    BY <1>3 DEF Environment, Compare, Stop, Restart, Edit, Delete, SetIgnored, Changes, passVars,
       KeepsCaches
  <1> QED
    BY <1>1, <1>2, <1>3 DEF Next, vars, passVars

\* The directory that is finished has a checksum only when all below it is alike.
LEMMA AlikeAtFinish ==
    ASSUME TInv, KindsApart, KnownClosed, HashedBoth, FramesKnown, TookAlike, FinishDir,
           Top.same, Top.errs = {}, NEW top, top = Top.dir
    PROVE  AlikeIn(top, top)
  <1>a. PICK n : n = Len(frames)
    OBVIOUS
  <1>1. /\ frames # << >> /\ Top.entered /\ Top.todo = {} /\ pair = NoPair /\ IsNest(frames)
    BY DEF FinishDir, Loops, TInv
  <1>2. n \in Nat /\ n \in 1..n /\ ~(n < n) /\ Top = frames[n] /\ top \in Dirs
    BY <1>1, <1>a, NestTop DEF Top
  <1>3. Waiting(n) = {}
    BY <1>1, <1>2, <1>a DEF Waiting
  <1>4. \A path \in Opened(top) : AlikeIn(top, path)
    BY <1>1, <1>2, <1>3, <1>a DEF TookAlike
  <1>5. "left" \in Side /\ top \in KnownDirs("left")
    BY <1>2, <1>a DEF FramesKnown, Side
  <1> QED
    BY <1>2, <1>4, <1>5, AlikeWhole

LEMMA SumsNext ==
    ASSUME TInv, KindsApart, HeldRight, KnownClosed, PairRows, KeepsCaches, RowsKept, FramesKnown, SumsTrue, TookAlike,
           ~aborted, [Next]_vars
    PROVE  SumsTrue'
  <1>0. RowsInv /\ IsNest(frames) /\ "left" \in Side /\ KnownHolds /\ ResultsThere /\ HashedBoth
    BY DEF TInv, Side, RowsKept
  <1>1. CASE HashSucceeds
    BY <1>0, <1>1, AlikeHash
  <1>2. CASE ~HashSucceeds
    <2>1. AlikeStays
      BY <1>2, AlikeSteps
    <2> SUFFICES ASSUME NEW dir \in Dirs, node'["left"][dir].checksum # {}, ~Entered(dir)'
                 PROVE  AlikeIn(dir, dir)
      BY <2>1 DEF SumsTrue, AlikeStays
    <2>2. CASE ~FinishDir
      <3>1. ~Entered(dir)
        BY <2>2, EnteredStays
      <3>2. node["left"][dir].checksum # {}
        BY <1>0, <2>2, SumSteps
      <3> QED
        BY <3>1, <3>2 DEF SumsTrue
    <2>3. CASE FinishDir
      <3>a. PICK top, sum : top = Top.dir /\ sum = IF Top.same /\ Top.errs = {} THEN { Top.kids } ELSE {}
        OBVIOUS
      <3>1. IF dir # top THEN node'["left"][dir] = node["left"][dir]
             ELSE node'["left"][dir].checksum = sum
        BY <1>0, <2>3, <3>a, CalmFinish
      <3>2. CASE dir # top
        <4>1. ~Entered(dir)
          BY <2>3, <3>2, <3>a, EnteredStays
        <4> QED
          BY <3>1, <3>2, <4>1 DEF SumsTrue
      <3>3. CASE dir = top
        <4>1. Top.same /\ Top.errs = {}
          BY <3>1, <3>3, <3>a
        <4> QED
          BY <1>0, <2>3, <3>3, <3>a, <4>1, AlikeAtFinish
      <3> QED
        BY <3>2, <3>3
    <2> QED
      BY <2>2, <2>3
  <1> QED
    BY <1>1, <1>2

LEMMA TookAlikeEnter ==
    ASSUME TInv, HeldRight, FramesKnown, SumsTrue, TookAlike, AlikeStays, KeepsKnown, Enter
    PROVE  TookAlike'
  <1>0. IsNest(frames) /\ PairInv
    BY DEF TInv
  <1>a. PICK n, top : n = Len(frames) /\ top = Top.dir
    OBVIOUS
  <1>1. /\ frames # << >> /\ ~Top.entered /\ pair' = pair /\ at = "run"
        /\ \A dir : Opened(dir)' = Opened(dir)
    BY OpenedStays DEF Enter
  <1>2. pair = NoPair
    BY <1>0, <1>1 DEF PairInv
  <1>3. n \in Nat \ {0} /\ n \in 1..n /\ Top = frames[n] /\ top \in Dirs
    BY <1>0, <1>1, <1>a, NestTop DEF Top
  <1>4. CASE frames' = Returned({}, {})
    <2>1. \E sum, errs : sum = {} /\ errs = {} /\ frames' = Returned(sum, errs)
      BY <1>4
    <2>2. PICK sum, errs : sum = {} /\ errs \in SUBSET Side /\ frames' = Returned(sum, errs)
      BY <2>1
    <2> QED
      BY <1>0, <1>1, <1>2, <1>a, <2>2, TookAlikeReturns
  <1>5. CASE ~PairIgnored(top) /\ HitNow(top) /\ frames' = Returned(node["left"][top].checksum, {})
    <2>1. PICK sum, errs : sum = node["left"][top].checksum /\ errs = {} /\ frames' = Returned(sum, errs)
      BY <1>5
    <2>2. ~Entered(top)
      <3> SUFFICES ASSUME NEW k \in 1..n, frames[k].dir = top, frames[k].entered PROVE FALSE
        BY <1>a DEF Entered
      <3>1. k \in 1..(n - 1)
        BY <1>1, <1>3
      <3> QED
        BY <1>0, <1>3, <1>a, <3>1, TopApart
    <2>3. sum # {} => AlikeIn(top, top)
      BY <1>3, <2>1, <2>2 DEF SumsTrue
    <2>4. errs \in SUBSET Side
      BY <2>1
    <2> QED
      BY <1>0, <1>1, <1>2, <1>a, <2>1, <2>3, <2>4, TookAlikeReturns
  <1>6. CASE frames' = Append(Rest, [Top EXCEPT
               !.entered = TRUE, !.todo = Opened(Top.dir),
               !.errs = { side \in Side : HasError(side, Top.dir) }])
    <2>1. /\ Len(frames') = n /\ frames'[n].dir = top /\ frames'[n].todo = Opened(top)
          /\ \A i \in 1..(n - 1) : frames'[i] = frames[i]
      BY <1>0, <1>1, <1>6, <1>a, OpenedNow
    <2>2. Len(frames') # Len(frames) + 1
      BY <1>3, <1>a, <2>1
    <2> QED
      BY <1>0, <1>1, <1>a, <2>1, <2>2, TookAlikeTop
  <1> QED
    BY <1>4, <1>5, <1>6, <1>a, EnterIsNow DEF EnterNow

LEMMA TookAlikeEntry ==
    ASSUME TInv, KindsApart, HeldRight, KnownClosed, KnownHolds, HashedBoth, TookAlike, AlikeStays, KeepsKnown,
           NEW path, NextEntry(path)
    PROVE  TookAlike'
  <1>0. IsNest(frames) /\ RowsInv
    BY DEF TInv
  <1>a. PICK n, dir : n = Len(frames) /\ dir = Top.dir
    OBVIOUS
  <1> DEFINE rest == frames'[n]
  <1>1. /\ frames # << >> /\ Top.entered /\ path \in Top.todo /\ pair = NoPair
        /\ \A d : Opened(d)' = Opened(d)
    BY OpenedStays DEF NextEntry, Loops
  <1>2. n \in Nat \ {0} /\ n \in 1..n /\ ~(n < n) /\ n < n + 1 /\ n # n + 1 /\ Top = frames[n] /\ dir \in Dirs
    BY <1>0, <1>1, <1>a, NestTop DEF Top
  <1>3. /\ Len(frames') \in { n, n + 1 }
        /\ path \in AllPaths \ { Root } /\ ParentPath(path) = dir
        /\ \A i \in 1..(n - 1) : frames'[i] = frames[i]
        /\ rest.dir = dir /\ rest.todo = Top.todo \ { path }
        /\ \/ /\ SkipsNow(path) /\ Len(frames') = n /\ rest.same = Top.same
           \/ /\ Len(frames') = n /\ ~rest.same
           \/ /\ Len(frames') = n + 1 /\ rest.same = Top.same
              /\ frames'[n + 1] = Activation(path)
           \/ /\ Len(frames') = n /\ rest.same = Top.same
              /\ pair' \in Pairs /\ pair'.file = path
    BY <1>0, <1>a, EntryStackNow
  <1>4. ASSUME Top.same, NEW p \in Opened(dir) \ Top.todo PROVE AlikeIn(dir, p)
    <2>1. Waiting(n) = {}
      BY <1>1, <1>2, <1>a DEF Waiting
    <2> QED
      BY <1>1, <1>2, <1>4, <1>a, <2>1 DEF TookAlike
  <1>5. SkipsNow(path) => AlikeIn(dir, path)
    BY <1>3, AlikeSkipped
  <1>6. ASSUME NEW f, NEW w, f = rest, w = Waiting(n)', f.entered, f.same,
               NEW p \in Opened(dir) \ (f.todo \cup w)
        PROVE  AlikeIn(dir, p)
    <2>1. rest.same
      BY <1>6
    <2>2. p # path => p \in Opened(dir) \ Top.todo
      BY <1>3, <1>6
    <2>3. CASE SkipsNow(path) /\ rest.same = Top.same
      <3>1. Top.same
        BY <2>1, <2>3
      <3> QED
        BY <1>4, <1>5, <2>2, <2>3, <3>1
    <2>4. CASE /\ Len(frames') = n + 1 /\ rest.same = Top.same
               /\ frames'[n + 1] = Activation(path)
      <3>1. w = { path }
        BY <1>2, <1>6, <2>4 DEF Waiting, Activation
      <3>2. Top.same
        BY <2>1, <2>4
      <3> QED
        BY <1>4, <1>6, <2>2, <3>1, <3>2
    <2>5. CASE /\ Len(frames') = n /\ rest.same = Top.same
               /\ pair' \in Pairs /\ pair'.file = path
      <3>1. pair' # NoPair
        BY <1>3, <2>5 DEF NoPair
      <3>2. w = { path }
        BY <1>2, <1>6, <2>5, <3>1 DEF Waiting
      <3>3. Top.same
        BY <2>1, <2>5
      <3> QED
        BY <1>4, <1>6, <2>2, <3>2, <3>3
    <2> QED
      BY <1>3, <2>1, <2>3, <2>4, <2>5
  <1>7. Len(frames') = n + 1 => ~frames'[n + 1].entered
    BY <1>2, <1>3 DEF Activation
  <1> QED
    BY <1>0, <1>1, <1>3, <1>6, <1>7, <1>a, TookAlikeTop

LEMMA TookAlikePair ==
    ASSUME TInv, KindsApart, HeldRight, KnownClosed, HashedBoth, PairRows, TookAlike, AlikeStays, KeepsKnown, PairDone
    PROVE  TookAlike'
  <1>0. IsNest(frames) /\ RowsInv /\ PairInv
    BY DEF TInv
  <1>a. PICK n, dir, name : n = Len(frames) /\ dir = Top.dir /\ name = pair.file
    OBVIOUS
  <1> DEFINE checksum == IF Stage = "matching" THEN { pair.seen["left"].full } ELSE {}
             x == Taken(Top, pair.file, "file", checksum, pair.errs)
  <1>1. /\ frames # << >> /\ Top.entered /\ pair # NoPair /\ pair' = NoPair /\ pair.errs \in SUBSET Side
        /\ \A d : Opened(d)' = Opened(d)
    BY <1>0, OpenedStays DEF PairDone, PairInv, Pairs
  <1>2. /\ n \in Nat \ {0} /\ n \in 1..n /\ ~(n < n) /\ n # n + 1 /\ Top = frames[n] /\ dir \in Dirs
        /\ IsFrame(Top)
    BY <1>0, <1>1, <1>a, NestTop DEF Top
  <1>3. frames' = Append(Rest, x)
    BY DEF PairDone
  <1>4. checksum # {} => Stage = "matching"
    OBVIOUS
  <1> HIDE DEF checksum
  <1>5. /\ IsFrame(x) /\ x.dir = Top.dir /\ x.entered /\ x.todo = Top.todo
        /\ x.same = (Top.same /\ checksum # {})
    BY <1>1, <1>2, TakenFrame
  <1> HIDE DEF x
  <1>6. x.same => Top.same /\ Stage = "matching"
    BY <1>4, <1>5, Zenon
  <1>7. /\ Len(frames') = n /\ frames'[n] = x
        /\ \A i \in 1..(n - 1) : frames'[i] = frames[i]
    BY <1>0, <1>1, <1>3, <1>5, <1>a, Replaced
  <1>8. ASSUME NEW f, NEW w, f = frames'[n], w = Waiting(n)', f.entered, f.same,
               NEW p \in Opened(dir) \ (f.todo \cup w)
        PROVE  AlikeIn(dir, p)
    <2>1. Top.same /\ Stage = "matching" /\ f.todo = Top.todo
      BY <1>5, <1>6, <1>7, <1>8
    <2>2. CASE p = name
      BY <1>1, <1>a, <2>1, <2>2, AlikePair
    <2>3. CASE p # name
      <3>1. Waiting(n) = { name }
        BY <1>1, <1>2, <1>a DEF Waiting
      <3>2. p \in Opened(dir) \ (Top.todo \cup Waiting(n))
        BY <1>8, <2>1, <2>3, <3>1
      <3> QED
        BY <1>1, <1>2, <1>a, <2>1, <3>2 DEF TookAlike
    <2> QED
      BY <2>2, <2>3
  <1> QED
    BY <1>0, <1>1, <1>2, <1>5, <1>7, <1>8, <1>a, TookAlikeTop

LEMMA TookAlikeNext ==
    ASSUME TInv, KindsApart, HeldRight, KnownClosed, PairRows, KeepsCaches, RowsKept, FramesKnown, SumsTrue, TookAlike,
           ~aborted, [Next]_vars
    PROVE  TookAlike'
  <1>0. /\ RowsInv /\ IsNest(frames) /\ PairInv /\ KnownHolds /\ ResultsThere /\ HashedBoth
        /\ (at \in { "off", "listing" } => frames = << >>)
    BY DEF TInv, RowsKept, PairInv
  <1>1. CASE HashSucceeds
    BY <1>0, <1>1, AlikeHash
  <1>2. CASE ~HashSucceeds
    <2>1. AlikeStays
      BY <1>2, AlikeSteps
    <2>2. Pass2 => KeepsKnown /\ \A dir : Opened(dir)' = Opened(dir)
      BY Pass2KeepsKnown, OpenedStays
    <2>3. CASE Enter
      BY <2>1, <2>2, <2>3, TookAlikeEnter DEF Pass2
    <2>4. CASE \E path \in Dirs \cup Files : NextEntry(path)
      <3>1. PICK path : NextEntry(path)
        BY <2>4
      <3> QED
        BY <1>0, <2>1, <2>2, <2>4, <3>1, TookAlikeEntry DEF Pass2
    <2>5. CASE PairDone
      BY <1>0, <2>1, <2>2, <2>5, TookAlikePair DEF Pass2
    <2>6. CASE FinishDir
      <3>1. PICK sum, errs, top : /\ sum = IF Top.same /\ Top.errs = {} THEN { Top.kids } ELSE {}
                                  /\ errs = Top.errs /\ top = Top.dir
        OBVIOUS
      <3>2. /\ frames # << >> /\ pair = NoPair /\ pair' = NoPair /\ frames' = Returned(sum, errs)
        BY <2>6, <3>1 DEF FinishDir, Loops
      <3>3. errs \in SUBSET Side
        BY <1>0, <3>1, <3>2, NestTop, FrameTypes DEF Top
      <3>4. sum # {} => AlikeIn(top, top)
        <4>1. sum # {} => Top.same /\ Top.errs = {}
          BY <3>1
        <4> QED
          BY <1>0, <2>6, <3>1, <4>1, AlikeAtFinish
      <3>5. \A dir : Opened(dir)' = Opened(dir)
        BY <2>2, <2>6 DEF Pass2
      <3> QED
        BY <1>0, <2>1, <3>1, <3>2, <3>3, <3>4, <3>5, TookAlikeReturns
    <2>7. CASE ReadNext \/ HashFails \/ EndPass2
      <3>1. frames' = frames /\ (pair' = pair \/ (HashFails /\ pair'.file = pair.file /\ pair' # NoPair /\ pair # NoPair))
        <4>1. CASE HashFails
          <5>1. pair' \in Pairs /\ pair'.file = pair.file /\ pair # NoPair
            BY <1>0, <4>1, FailRows DEF PairInv, HashFails
          <5>2. pair' # NoPair
            BY <1>0, <5>1 DEF NoPair, PairInv, Pairs
          <5> QED
            BY <4>1, <5>1, <5>2 DEF HashFails
        <4> QED
          BY <2>7, <4>1 DEF ReadNext, EndPass2
      <3> QED
        BY <2>1, <2>2, <2>7, <3>1, TookAlikeStill DEF Pass2
    <2>8. CASE StartPass2
      <3>1. frames' = << Activation(Root) >>
        BY <2>8 DEF StartPass2
      <3>2. \A k \in 1..Len(frames') : ~frames'[k].entered
        <4>1. Len(frames') = 1 /\ frames'[1] = Activation(Root)
          BY <3>1
        <4>2. \A k \in 1..Len(frames') : k = 1
          BY <4>1
        <4> QED
          BY <4>1, <4>2 DEF Activation
      <3> QED
        BY <3>2 DEF TookAlike
    <2>9. CASE frames = << >> /\ frames' = frames
      BY <2>1, <2>9, TookAlikeStill
    <2>10. CASE /\ frames' = frames /\ pair' = pair /\ node' = node /\ facts' = facts
      BY <2>1, <2>10, TookAlikeStill DEF Opened, KnownDirs, KnownFiles
    <2>11. CASE Pass2
      BY <1>2, <2>3, <2>4, <2>5, <2>6, <2>7, <2>11 DEF Pass2, Cancel
    <2>12. CASE Pass1
      BY <1>0, <2>8, <2>9, <2>12, HeldList DEF Pass1, List
    <2>13. CASE Environment
      <3>1. CASE Changes
        BY <2>10, <3>1 DEF Changes, rowVars, passVars
      <3> QED
        BY <1>0, <2>9, <2>13, <3>1 DEF Environment, Compare, Stop, Restart, Edit, Delete, SetIgnored,
           KeepsCaches
    <2>14. CASE UNCHANGED vars
      BY <2>10, <2>14 DEF vars, rowVars, passVars
    <2> QED
      BY <2>11, <2>12, <2>13, <2>14 DEF Next
  <1> QED
    BY <1>1, <1>2

\* What incremental comparisons rely on.
CacheInv == RowsKept /\ FramesKnown /\ SumsTrue /\ TookAlike /\ ~aborted

LEMMA CacheInit == Init => CacheInv
  <1> SUFFICES ASSUME Init PROVE CacheInv
    OBVIOUS
  <1>1. /\ node = [side \in Side |-> [dir \in Dirs |-> NoNode]]
        /\ facts = [side \in Side |-> [file \in Files |-> NoFacts]]
        /\ frames = << >> /\ ~aborted /\ at = "off" /\ "left" \in Side
    BY DEF Init, Side, NoNodes, NoFileRows
  <1>2. /\ \A side \in Side, dir \in Dirs : node[side][dir] = NoNode
        /\ \A side \in Side, file \in Files : facts[side][file] = NoFacts
    BY <1>1
  <1>3. \A side \in Side : Root \in dirs[side]
    <2>1. PICK trees \in Initial : dirs = [side \in Side |-> trees[side].dirs]
      BY DEF Init
    <2> QED
      BY <2>1, PassAssumption DEF IsTree
  <1>4. \A side \in Side : KnownDirs(side) = {} /\ KnownFiles(side) = {}
    BY <1>2, NoNodeIsRow, NoFactsIsRow DEF KnownDirs, KnownFiles
  <1>5. KnownHolds /\ RootKnown
    BY <1>1, <1>3, <1>4 DEF KnownHolds, RootKnown
  <1>6. SameSums /\ ResultsThere
    BY <1>1, <1>2, NoNodeIsRow DEF SameSums, ResultsThere, Side
  <1>7. HashedBoth /\ FullHasPartial
    BY <1>2, NoFactsIsRow DEF HashedBoth, FullHasPartial
  <1>8. FramesKnown /\ TookAlike
    BY <1>1 DEF FramesKnown, TookAlike
  <1>9. SumsTrue
    BY <1>1, <1>2, NoNodeIsRow DEF SumsTrue
  <1> QED
    BY <1>1, <1>5, <1>6, <1>7, <1>8, <1>9 DEF CacheInv, RowsKept

LEMMA CacheNext ==
    ASSUME TInv, KindsApart, HeldRight, KnownClosed, PairRows, KeepsCaches, CacheInv, [Next]_vars
    PROVE  CacheInv'
  <1>0. RowsKept /\ FramesKnown /\ SumsTrue /\ TookAlike /\ ~aborted /\ KnownHolds /\ RootKnown
    BY DEF CacheInv, RowsKept
  <1>1. RowsKept'
    BY <1>0, RowsKeptNext
  <1>2. FramesKnown'
    BY HeldInCalmNext DEF HeldInCalm, Calm, KeepsCaches, HeldRight, FramesKnown
  <1>3. SumsTrue'
    BY <1>0, SumsNext
  <1>4. TookAlike'
    BY <1>0, TookAlikeNext
  <1>5. ~aborted'
    BY <1>0, KeptAborted
  <1> QED
    BY <1>1, <1>2, <1>3, <1>4, <1>5 DEF CacheInv

\* A directory that is answered from its checksum is what the checksum says.
LEMMA CachedBelow ==
    ASSUME Sound, RowsKept, NEW top \in CommonDirs, AlikeIn(top, top),
           \A side \in Side : ValidNow(side, top)
    PROVE  /\ Differences(top) = {}
           /\ \A dir \in CommonDirs : IsWithinSubtree(dir, top) =>
                 /\ \A side \in Side : node[side][dir].checksum # {}
                 /\ Differences(dir) = {}
                 /\ \A file \in Files : BothFiles(file) /\ ParentPath(file) = dir => Decided(file)
  <1>0. /\ TInv /\ TreesInv /\ RowsInv /\ KindsApart /\ KnownClosed /\ FactsTrue /\ AllListed
        /\ HashedBoth /\ FullHasPartial /\ Side = { "left", "right" }
    BY DEF Sound, TInv, RowsKept, Side
  <1>1. /\ top \in AllPaths /\ NotOut(top)
    BY <1>0, CommonFacts
  <1>2. ASSUME NEW side \in Side, NEW dir, Visited(side, dir), dir \in Dirs, IsWithinSubtree(dir, top)
        PROVE  /\ Listed(side, dir) /\ node[side][dir].checksum # {}
               /\ ~HasError(side, dir) /\ ~node[side][dir].unreadable
    <2>1. Listed(side, dir) /\ dir \in KnownDirs(side)
      BY <1>0, <1>2 DEF AllListed, Listed, KnownDirs
    <2> QED
      BY <1>2, <2>1 DEF ValidNow, HasError, InError
  <1>3. ASSUME NEW file \in Files, Shown(file, top), \A side \in Side : file \in KnownFiles(side)
        PROVE  /\ facts["left"][file].full # 0
               /\ facts["left"][file].full = facts["right"][file].full
    <2>1. IsWithinSubtree(file, top)
      BY <1>3 DEF Shown
    <2>2. \A side \in Side : facts[side][file].partial # 0
      BY <1>0, <1>3, <2>1 DEF ValidNow, FullHasPartial
    <2> QED
      BY <1>3, <2>1, <2>2 DEF AlikeIn, AlikeFile
  <1>4. Differences(top) = {}
    <2> SUFFICES ASSUME NEW file \in Differences(top) PROVE FALSE
      OBVIOUS
    <2>1. /\ file \in Files /\ file \in AllPaths /\ file # Root /\ NotOut(file)
          /\ IsWithinSubtree(file, top) /\ file # top
          /\ disk["left"][file].content # disk["right"][file].content
      BY DifferenceIsThere
    <2>2. PICK some \in Side : disk[some][file] # NoFile
      BY DifferenceIsThere
    <2> DEFINE p == ParentPath(file)
    <2>3. p \in Dirs /\ p \in AllPaths /\ IsWithinSubtree(p, top) /\ p \in Lineage(file)
      <3>1. IsWithinSubtree(file, p) /\ IsWithinSubtree(p, top) /\ p \in Dirs
        BY <2>1, ChildWithin
      <3> QED
        BY <3>1 DEF IsWithinSubtree, AllPaths
    <2>4. ASSUME NEW side \in Side, disk[side][file] # NoFile
          PROVE  /\ file \in KnownFiles(side) /\ facts[side][file].partial # 0
                 /\ facts[side][file].version = disk[side][file].version
      <3>1. Holds(side, file)
        BY <2>1, <2>4 DEF Holds
      <3>2. p \in dirs[side]
        BY <1>0, <2>1, <3>1, HoldsAbove
      <3>3. NotOut(p) /\ Holds(side, p)
        BY <2>1, <2>3, <3>2, NotOutAbove DEF Holds
      <3>4. Visited(side, p)
        BY <1>0, <2>3, <3>2, <3>3, VisitedThere
      <3>5. Listed(side, p) /\ ~node[side][p].unreadable
        BY <1>2, <2>3, <3>4
      <3>6. file \in KnownFiles(side) /\ facts[side][file].version = disk[side][file].version
        BY <2>1, <2>4, <3>5 DEF Listed
      <3> QED
        BY <1>0, <2>1, <3>6 DEF ValidNow, FullHasPartial
    <2>5. \A side \in Side : disk[side][file] # NoFile
      BY <1>0, <2>1, <2>2, <2>4 DEF HashedBoth
    <2>6. /\ facts["left"][file].full # 0
          /\ facts["left"][file].full = facts["right"][file].full
      BY <1>3, <2>1, <2>4, <2>5 DEF Differences
    <2>7. \A side \in Side : facts[side][file].full \in { 0, disk[side][file].content }
      BY <1>0, <2>1, <2>4, <2>5 DEF FactsTrue, IsTrue
    <2> QED
      BY <1>0, <2>1, <2>6, <2>7
  <1>5. ASSUME NEW dir \in CommonDirs, IsWithinSubtree(dir, top)
        PROVE  /\ \A side \in Side : node[side][dir].checksum # {}
               /\ Differences(dir) = {}
               /\ \A file \in Files : BothFiles(file) /\ ParentPath(file) = dir => Decided(file)
    <2>1. dir \in Dirs /\ dir \in AllPaths /\ NotOut(dir) /\ \A side \in Side : Visited(side, dir)
      BY <1>0, CommonFacts
    <2>2. \A side \in Side : node[side][dir].checksum # {} /\ ~HasError(side, dir)
      BY <1>2, <1>5, <2>1
    <2>3. \A path \in AllPaths : IsWithinSubtree(path, dir) /\ NotOut(path) =>
              IsWithinSubtree(path, top) /\ Shown(path, top)
      BY <1>1, <1>5, WithinTransitive, ShownBelow
    <2>4. Differences(dir) = {}
      <3> SUFFICES ASSUME NEW file \in Differences(dir) PROVE FALSE
        OBVIOUS
      <3>1. /\ file \in Files /\ file \in AllPaths /\ NotOut(file) /\ IsWithinSubtree(file, dir)
            /\ disk["left"][file].content # disk["right"][file].content
        BY DifferenceIsThere
      <3>2. file \in Differences(top)
        BY <2>3, <3>1 DEF Differences
      <3> QED
        BY <1>4, <3>2
    <2>5. ASSUME NEW file \in Files, BothFiles(file), ParentPath(file) = dir
          PROVE  Decided(file)
      <3>1. file \in AllPaths \ { Root }
        BY PassAssumption DEF AllPaths
      <3>2. ~LeftOut(file)
        BY <2>2, <2>5, <3>1, EntryFacts DEF BothFiles, DirInError
      <3>3. NotOut(file) /\ IsWithinSubtree(file, dir)
        BY <2>1, <2>5, <3>1, <3>2, NotOutBelow, ChildWithin
      <3>4. Shown(file, top)
        BY <2>3, <3>1, <3>3
      <3>5. /\ facts["left"][file].full # 0
            /\ facts["left"][file].full = facts["right"][file].full
        BY <1>0, <1>3, <2>5, <3>4 DEF BothFiles
      <3> QED
        BY <3>5 DEF Decided
    <2> QED
      BY <2>2, <2>4, <2>5
  <1> QED
    BY <1>4, <1>5

LEMMA PassCached ==
    ASSUME Sound, PassTrue, CacheInv, Enter, HitNow(Top.dir)
    PROVE  PassTrue'
  <1>0. /\ TInv /\ HeldRight /\ IsNest(frames) /\ TreesInv /\ RowsInv /\ PairInv /\ Side = { "left", "right" }
        /\ RowsKept /\ SameSums /\ ResultsThere /\ SumsTrue
    BY DEF Sound, TInv, CacheInv, RowsKept, Side
  <1>a. PICK dir, n, sum, errs : /\ dir = Top.dir /\ n = Len(frames) /\ errs = {}
                                 /\ sum = node["left"][Top.dir].checksum
    OBVIOUS
  <1>1. /\ frames # << >> /\ ~Top.entered /\ UNCHANGED worldVars /\ facts' = facts /\ pair' = pair
        /\ KeepsKnown /\ at = "run"
    BY <1>0, Pass2KeepsKnown DEF Enter, Pass2
  <1>2. /\ dir \in CommonDirs /\ dir \in Dirs /\ dir \in AllPaths /\ ~PairIgnored(dir)
    BY <1>1, <1>a, TopFacts
  <1>3. pair = NoPair /\ pair' = NoPair
    BY <1>0, <1>1 DEF PairInv
  <1>4. /\ frames' = Returned(sum, errs)
        /\ node' = [side \in Side |-> [below \in Dirs |->
                     [node[side][below] EXCEPT !.resolved =
                         @ \/ (IsWithinSubtree(below, dir) /\ node[side][below].checksum # {})]]]
    BY <1>0, <1>2, <1>a, EnterIsNow DEF EnterNow
  <1>5. /\ sum # {} /\ \A side \in Side : ValidNow(side, dir)
    BY <1>a DEF HitNow
  <1>6. ~Entered(dir)
    <2>1. n \in Nat \ {0} /\ Top = frames[n]
      BY <1>0, <1>1, <1>a, NestTop DEF Top
    <2> SUFFICES ASSUME NEW k \in 1..n, frames[k].dir = dir, frames[k].entered PROVE FALSE
      BY <1>a DEF Entered
    <2>2. k \in 1..(n - 1)
      BY <1>1, <2>1
    <2> QED
      BY <1>0, <1>a, <2>1, <2>2, TopApart
  <1>7. AlikeIn(dir, dir)
    BY <1>0, <1>2, <1>5, <1>6, <1>a DEF SumsTrue
  <1>8. /\ Differences(dir) = {}
        /\ \A d \in CommonDirs : IsWithinSubtree(d, dir) =>
                 /\ \A side \in Side : node[side][d].checksum # {}
                 /\ Differences(d) = {}
                 /\ \A file \in Files : BothFiles(file) /\ ParentPath(file) = d => Decided(file)
    BY <1>0, <1>2, <1>5, <1>7, CachedBelow
  <1>9. \A side \in Side, d \in Dirs :
                 LET old == node[side][d]
                     new == node'[side][d]
                 IN  /\ new.outcome = old.outcome /\ new.unreadable = old.unreadable
                     /\ new.checksum = old.checksum
                     /\ new.resolved = (old.resolved \/
                                          (IsWithinSubtree(d, dir) /\ old.checksum # {}))
    <2>1. /\ node' = [side \in Side |-> [below \in Dirs |->
                     [node[side][below] EXCEPT !.resolved =
                         @ \/ (IsWithinSubtree(below, dir) /\ node[side][below].checksum # {})]]]
          /\ facts' = facts
      BY <1>1, <1>4
    <2> QED
      BY <1>0, <2>1, CacheHitRows, Zenon
  <1>10. /\ CommonDirs' = CommonDirs
         /\ \A d : /\ Differences(d)' = Differences(d)
                   /\ BothFiles(d)' <=> BothFiles(d)
    BY <1>1, WorldStays
  <1>11. \A file : Decided(file)' <=> Decided(file)
    BY <1>1 DEF Decided
  <1>12. ASSUME NEW d \in CommonDirs, ToComeIn(Top, d) PROVE Verdict(d)'
    <2>1. IsWithinSubtree(d, dir) /\ d \in Dirs
      BY <1>0, <1>12, <1>a, CommonFacts DEF ToComeIn
    <2>2. \A side \in Side : node'[side][d].resolved /\ node'[side][d].checksum # {}
      <3> SUFFICES ASSUME NEW side \in Side
                   PROVE  node'[side][d].resolved /\ node'[side][d].checksum # {}
        OBVIOUS
      <3>1. node[side][d].checksum # {}
        BY <1>8, <1>12, <2>1
      <3>2. /\ node'[side][d].checksum = node[side][d].checksum
            /\ node'[side][d].resolved = (node[side][d].resolved \/
                                            (IsWithinSubtree(d, dir) /\ node[side][d].checksum # {}))
        BY <1>9, <2>1
      <3> QED
        BY <2>1, <3>1, <3>2
    <2>3. node'["left"][d].checksum = node'["right"][d].checksum
      BY <1>0, <1>9, <2>1 DEF SameSums
    <2>4. "left" \in Side
      BY <1>0
    <2> QED
      BY <1>8, <1>10, <1>11, <2>1, <2>2, <2>3, <2>4 DEF Verdict
  <1>13. \A d \in CommonDirs : d \in Dirs
    BY <1>0, CommonFacts
  <1>14. \A d \in CommonDirs : ~ToComeIn(Top, d) =>
               \A side \in Side : /\ node[side][d].resolved => node'[side][d].resolved
                                  /\ node'[side][d].checksum = node[side][d].checksum
    <2>1. \A d \in Dirs, side \in Side : /\ node[side][d].resolved => node'[side][d].resolved
                                         /\ node'[side][d].checksum = node[side][d].checksum
      BY <1>9
    <2> QED
      BY <1>13, <2>1
  <1>15. \A d \in Dirs : DirInError(d)' <=> DirInError(d)
    BY <1>9 DEF DirInError, HasError, InError
  <1>16. ResolvedThere'
    <2> SUFFICES ASSUME NEW side \in Side, NEW d \in Dirs, node'[side][d].resolved
                 PROVE  d \in dirs["left"] \cap dirs["right"]
      BY <1>1 DEF ResolvedThere, worldVars
    <2>1. node[side][d].resolved \/ node[side][d].checksum # {}
      BY <1>9
    <2> QED
      BY <1>0, <2>1 DEF ResultsThere
  <1>17. errs \in SUBSET Side
    BY <1>a
  <1>18. \A d \in CommonDirs : ToComeIn(Top, d) => Verdict(d)'
    BY <1>12
  <1>19. /\ \A d \in Dirs : d # dir => (DirInError(d)' <=> DirInError(d))
         /\ frames' = Returned(sum, errs)
         /\ sum # {} => Differences(dir) = {}
         /\ sum = {} /\ errs = {} => Unlike(dir)
         /\ dir = Top.dir
    BY <1>4, <1>5, <1>8, <1>15, <1>a
  <1> QED
    BY <1>1, <1>3, <1>14, <1>16, <1>17, <1>18, <1>19, PassReturns

-----------------------------------------------------------------------------
(* What the user is shown *)

\* What holds of a comparison nobody interferes with, full or relying on caches.
StatusInv ==
    Undisturbed /\ (mode = "full" \/ KeepsCaches) =>
        /\ at = "listing" => ResolvedThere
        /\ at # "listing" /\ Root \in CommonDirs => PassTrue

LEMMA ListingResolves ==
    ASSUME TInv, HeldRight, NEW side \in Side, NEW dir \in Dirs, List(side, dir), NEW s \in Side, NEW d \in Dirs
    PROVE  node'[s][d].resolved => node[s][d].resolved
  <1>0. RowsInv /\ TreesInv /\ IsRow(node[s][d])
    BY DEF TInv, RowsInv, IsTable
  <1>1. ASSUME NEW outcome \in { "done", "error" }, NEW some \in BOOLEAN,
               node'[s][d] = OwnResult(node[s][d], outcome, some)
        PROVE  node'[s][d].resolved => node[s][d].resolved
    <2> DEFINE row == node[s][d]
    <2>1. IsRow(row) /\ node'[s][d] = OwnResult(row, outcome, some)
      BY <1>0, <1>1
    <2> HIDE DEF row
    <2>2. node'[s][d].resolved = row.resolved
      BY <2>1, OwnResultRow
    <2> QED
      BY <2>2 DEF row
  <1>2. ASSUME NEW outcome \in { "done", "error" }, OnlyRecord(side, dir, outcome)
        PROVE  node'[s][d].resolved => node[s][d].resolved
    <2>1. /\ node'[side][dir] = OwnResult(node[side][dir], outcome, FALSE)
          /\ s # side \/ d # dir => node'[s][d] = node[s][d]
      BY <1>0, <1>2, OnlyRecordRows
    <2> QED
      BY <1>1, <2>1
  <1>3. ASSUME NEW hidden, ListChildren(side, dir, hidden)
        PROVE  node'[s][d].resolved => node[s][d].resolved
    <2> DEFINE some == hidden # {}
    <2>1. /\ node'[side][d] =
               IF d = dir THEN OwnResult(node[side][d], "done", some)
               ELSE IF d \in Kids(side, dir) THEN ChildRow(node[side][d])
               ELSE IF Forgotten(side, dir, d) THEN NoNode
               ELSE node[side][d]
          /\ s # side => node'[s] = node[s]
      BY <1>0, <1>3, ListChildrenRows
    <2>2. some \in BOOLEAN
      OBVIOUS
    <2> HIDE DEF some
    <2>3. CASE s # side
      BY <2>1, <2>3
    <2>4. CASE s = side /\ d = dir
      BY <1>1, <2>1, <2>2, <2>4
    <2>5. CASE s = side /\ d # dir
      <3>1. node'[s][d] \in { Pending(node[s][d]), NoNode, node[s][d] }
        BY <1>0, <2>1, <2>5, ListedRow DEF HeldRight
      <3>2. Pending(node[s][d]).resolved = node[s][d].resolved
        <4> DEFINE row == node[s][d]
        <4>1. IsRow(row)
          BY <1>0
        <4> HIDE DEF row
        <4>2. Pending(row).resolved = row.resolved
          BY <4>1, PendingRow
        <4> QED
          BY <4>2 DEF row
      <3> QED
        BY <3>1, <3>2, NoNodeIsRow
    <2> QED
      BY <2>3, <2>4, <2>5
  <1> QED
    BY <1>2, <1>3 DEF List

LEMMA StatusNext ==
    ASSUME TInv, KindsApart, HeldInCalm, KnownClosed, FactsTrue, ListedInv, Calm => PairRows,
           KeepsCaches => CacheInv, StatusInv, [Next]_vars
    PROVE  StatusInv'
  <1> SUFFICES ASSUME Undisturbed', mode' = "full" \/ KeepsCaches
               PROVE  /\ at' = "listing" => ResolvedThere'
                      /\ at' # "listing" /\ Root \in CommonDirs' => PassTrue'
    BY DEF StatusInv, KeepsCaches
  <1>u. clean' /\ quiet'
    BY DEF Undisturbed
  <1>0. RowsInv /\ TreesInv /\ ControlInv /\ PairInv
    BY DEF TInv
  <1>1. CASE Pass2
    <2>1. /\ UNCHANGED worldVars /\ Undisturbed /\ mode' = mode /\ KeepsKnown
          /\ at \in { "run", "hash" } /\ at' \in { "run", "hash", "off" }
      BY <1>1, <1>u, Pass2KeepsKnown DEF Pass2, Enter, ReadNext, HashSucceeds, HashFails, Cancel,
         PairDone, FinishDir, EndPass2, NextEntry, Loops, historyVars, Undisturbed
    <2>2. CommonDirs' = CommonDirs
      BY <2>1, WorldStays
    <2>3. Sound /\ PairRows
      BY <2>1, EverythingListed DEF Sound, HeldInCalm, Calm
    <2>4. Root \in CommonDirs => PassTrue
      BY <2>1 DEF StatusInv
    <2>5. ASSUME PassTrue PROVE PassTrue'
      <3>1. CASE Enter /\ ~HitNow(Top.dir)
        BY <2>3, <2>5, <3>1, PassOpens
      <3>2. CASE Enter /\ HitNow(Top.dir)
        <4>1. CacheInv
          BY <2>1, <3>2 DEF HitNow
        <4> QED
          BY <2>3, <2>5, <3>2, <4>1, PassCached
      <3>3. CASE ReadNext \/ EndPass2
        <4>1. UNCHANGED << worldVars, rowVars, frames, pair >>
          BY <3>3 DEF ReadNext, EndPass2
        <4> QED
          BY <2>5, <4>1, PassTrueStill
      <3>4. CASE HashSucceeds \/ HashFails
        BY <2>3, <2>5, <3>4, PassRead
      <3>5. CASE Cancel
        BY <1>0, <2>1, <3>5 DEF Cancel, ControlInv, Undisturbed
      <3>6. CASE PairDone
        BY <2>3, <2>5, <3>6, PassPairDone
      <3>7. CASE FinishDir
        BY <2>3, <2>5, <3>7, PassFinish
      <3>8. ASSUME NEW path, NextEntry(path) PROVE PassTrue'
        BY <2>3, <2>5, <3>8, PassEntry
      <3> QED
        BY <1>1, <3>1, <3>2, <3>3, <3>4, <3>5, <3>6, <3>7, <3>8 DEF Pass2
    <2> QED
      BY <2>1, <2>2, <2>4, <2>5
  <1>2. CASE StartPass2
    <2>1. /\ at = "listing" /\ at' = "run" /\ Undisturbed /\ mode' = mode /\ UNCHANGED worldVars
          /\ node' = node /\ facts' = facts
      BY <1>2, <1>u DEF StartPass2, historyVars, rowVars, Undisturbed
    <2>2. CommonDirs' = CommonDirs
      BY <2>1, WorldStays DEF KeepsKnown
    <2>3. ResolvedThere
      BY <2>1 DEF StatusInv
    <2> QED
      BY <1>2, <2>1, <2>2, <2>3, PassStarts
  <1>3. ASSUME NEW side \in Side, NEW dir \in Dirs, List(side, dir)
        PROVE  at' = "listing" /\ ResolvedThere'
    <2>0. Undisturbed /\ at' = at /\ mode' = mode /\ dirs' = dirs
      BY <1>3, <1>u DEF List, historyVars, worldVars, Undisturbed
    <2>1. at = "listing" /\ HeldRight
      BY <1>3, <2>0, HeldList DEF HeldInCalm, Calm
    <2>2. ResolvedThere
      BY <2>0, <2>1 DEF StatusInv
    <2> QED
      BY <1>3, <2>0, <2>1, <2>2, ListingResolves DEF ResolvedThere
  <1>4. ASSUME NEW m \in Modes, Compare(m)
        PROVE  at' = "listing" /\ ResolvedThere'
    <2>1. at' = "listing" /\ mode' = m
      BY <1>4 DEF Compare
    <2>2. CASE m = "full"
      <3>1. \A s \in Side, d \in Dirs :
               LET old == node[s][d]
                   new == node'[s][d]
               IN  m = "full" => new.checksum = {} /\ ~new.resolved
        BY <1>0, <1>4, CompareRows
      <3> QED
        BY <2>1, <2>2, <3>1 DEF ResolvedThere
    <2>3. CASE m # "full"
      <3>1. KeepsCaches /\ CacheInv
        BY <2>1, <2>3
      <3>2. CacheInv'
        BY <3>1, CacheNext DEF KeepsCaches, HeldInCalm, Calm
      <3>3. ResultsThere'
        BY <3>2 DEF CacheInv, RowsKept
      <3> QED
        BY <2>1, <3>3 DEF ResultsThere, ResolvedThere
    <2> QED
      BY <2>2, <2>3
  <1>5. CASE Environment
    BY <1>4, <1>5, <1>u DEF Environment, Stop, Restart, Edit, Delete, SetIgnored, Changes
  <1>6. CASE UNCHANGED vars
    <2>1. /\ UNCHANGED << worldVars, rowVars, frames, pair >> /\ at' = at /\ Undisturbed /\ mode' = mode
          /\ node' = node /\ facts' = facts /\ dirs' = dirs
      BY <1>6, <1>u DEF vars, passVars, historyVars, rowVars, worldVars, Undisturbed
    <2>2. CommonDirs' = CommonDirs
      BY <2>1, WorldStays DEF KeepsKnown
    <2>3. ResolvedThere => ResolvedThere'
      BY <2>1 DEF ResolvedThere
    <2> QED
      BY <2>1, <2>2, <2>3, PassTrueStill DEF StatusInv
  <1> QED
    BY <1>1, <1>2, <1>3, <1>5, <1>6 DEF Next, Pass1

LEMMA VerdictsShown ==
    ASSUME Sound, PassTrue, pair = NoPair, frames = << >>
    PROVE  /\ \A dir \in CommonDirs :
                /\ DirStatus(dir) # "not_compared"
                /\ DirStatus(dir) = "matching" => Differences(dir) = {}
                /\ DirStatus(dir) = "differs" => Differences(dir) \cup IgnoredInOneSided(dir) # {}
           /\ \A file \in Files :
                /\ \A side \in Side : disk[side][file] # NoFile
                /\ ParentPath(file) \in CommonDirs /\ Shown(file, Root)
                => CASE FileStatus(file) = "matching" -> file \notin Differences(Root)
                     [] FileStatus(file) = "differs" -> file \in Differences(Root)
                     [] FileStatus(file) = "error" -> TRUE
                     [] OTHER -> \E side \in Side : HasError(side, ParentPath(file))
  <1>0. TreesInv /\ Side = { "left", "right" } /\ AllListed /\ FactsTrue
    BY DEF Sound, TInv, Side
  <1>v. \A dir \in CommonDirs : Verdict(dir)
    BY DEF PassTrue, VerdictsTrue, ToCome
  <1>1. ASSUME NEW dir \in CommonDirs
        PROVE  /\ DirStatus(dir) # "not_compared"
               /\ DirStatus(dir) = "matching" => Differences(dir) = {}
               /\ DirStatus(dir) = "differs" => Unlike(dir)
    <2>1. Verdict(dir)
      BY <1>v
    <2>2. \A side \in Side : node[side][dir].outcome = "done"
      BY <1>0, CommonFacts DEF AllListed, Listed
    <2>3. CASE DirInError(dir)
      <3>1. DirStatus(dir) = "error"
        BY <2>3 DEF DirStatus, DirInError
      <3> QED
        BY <3>1
    <2>4. CASE ~DirInError(dir)
      <3>1. DirStatus(dir) = IF node["left"][dir].checksum # {} THEN "matching" ELSE "differs"
        BY <1>0, <2>1, <2>2, <2>4 DEF DirStatus, DirInError, Verdict
      <3> QED
        BY <2>1, <2>4, <3>1 DEF Verdict
    <2> QED
      BY <2>3, <2>4
  <1>2. ASSUME NEW file \in Files, \A side \in Side : disk[side][file] # NoFile,
               ParentPath(file) \in CommonDirs, Shown(file, Root)
        PROVE  \/ FileStatus(file) = "matching" /\ file \notin Differences(Root)
               \/ FileStatus(file) = "differs" /\ file \in Differences(Root)
               \/ FileStatus(file) = "error"
               \/ FileStatus(file) = "not_compared" /\ \E side \in Side : HasError(side, ParentPath(file))
    <2> DEFINE dir == ParentPath(file)
               left == facts["left"][file]
               right == facts["right"][file]
               lheld == disk["left"][file]
               rheld == disk["right"][file]
    <2>1. file \in AllPaths \ { Root }
      BY PassAssumption DEF AllPaths
    <2>2. ~LeftOut(file)
      BY <1>2, <2>1, PathFacts, WithinRoot DEF Shown
    <2>3. \A side \in Side : file \notin KnownDirs(side) /\ (file \in KnownFiles(side) \/ HasError(side, dir))
      <3>1. \A side \in Side : Holds(side, file) /\ file \notin dirs[side]
        BY <1>0, <1>2 DEF Holds, TreesInv
      <3> QED
        BY <1>2, <2>1, <3>1, EntryFacts DEF Known
    <2>4. CASE \E side \in Side : file \notin KnownFiles(side)
      <3>1. 0 \in { left.version, right.version }
        BY <1>0, <2>4 DEF KnownFiles
      <3>2. FileStatus(file) = "not_compared"
        BY <3>1 DEF FileStatus
      <3> QED
        BY <2>3, <2>4, <3>2
    <2>5. CASE \A side \in Side : file \in KnownFiles(side)
      <3>1. BothFiles(file)
        BY <1>0, <1>2, <2>1, <2>2, <2>5, EntryFacts DEF BothFiles
      <3>2. Decided(file)
        <4>1. Verdict(dir)
          BY <1>2, <1>v
        <4> QED
          BY <3>1, <4>1 DEF Verdict
      <3>3. /\ left.version = lheld.version /\ right.version = rheld.version
            /\ lheld # NoFile /\ rheld # NoFile
        BY <1>0, <1>2, <2>1, <2>5, EntryFacts
      <3>4. IsTrue(left, lheld) /\ IsTrue(right, rheld)
        BY <1>0 DEF FactsTrue
      <3>5. /\ left.size = SizeOf[lheld.content] /\ right.size = SizeOf[rheld.content]
            /\ left.partial \in { 0, PartialOf[lheld.content] }
            /\ right.partial \in { 0, PartialOf[rheld.content] }
            /\ left.full \in { 0, lheld.content } /\ right.full \in { 0, rheld.content }
        BY <3>3, <3>4 DEF IsTrue
      <3>6. 0 \notin { left.version, right.version }
        BY <1>0, <2>5 DEF KnownFiles
      <3>7. file \in Differences(Root) <=> lheld.content # rheld.content
        BY <1>2 DEF Differences
      <3>8. /\ left.failed \/ right.failed => FileStatus(file) = "error"
            /\ ~left.failed /\ ~right.failed /\ 0 \notin { left.full, right.full } =>
                  FileStatus(file) = IF left.full = right.full THEN "matching" ELSE "differs"
            /\ ~left.failed /\ ~right.failed /\ 0 \in { left.full, right.full }
               /\ left.size # right.size => FileStatus(file) = "differs"
            /\ ~left.failed /\ ~right.failed /\ 0 \in { left.full, right.full }
               /\ left.size = right.size
               /\ 0 \notin { left.partial, right.partial } /\ left.partial # right.partial
                  => FileStatus(file) = "differs"
        BY <3>6 DEF FileStatus
      <3>9. \/ left.failed \/ right.failed \/ left.size # right.size
            \/ 0 \notin { left.full, right.full }
            \/ 0 \notin { left.partial, right.partial } /\ left.partial # right.partial
        BY <3>2 DEF Decided
      <3> HIDE DEF left, right, lheld, rheld
      <3> QED
        BY <3>5, <3>7, <3>8, <3>9
    <2> QED
      BY <2>4, <2>5
  <1> QED
    BY <1>1, <1>2 DEF Unlike

\* Where nobody stops, no comparison begins with a Stop on the engine's mind.
CleanIsQuiet == StopPhases = {} /\ clean => quiet

ShownInv ==
    TInv /\ KindsApart /\ HeldInCalm /\ KnownClosed /\ FactsTrue /\ ListedInv /\ (Calm => PairRows)
    /\ (KeepsCaches => CacheInv) /\ StatusInv /\ CleanIsQuiet

LEMMA ShownFollows == ShownInv => (mode = "full" \/ KeepsCaches => StatusesShownRight)
  <1> SUFFICES ASSUME ShownInv, mode = "full" \/ KeepsCaches, at = "off", Undisturbed
               PROVE  /\ \A dir \in CommonDirs :
                           /\ DirStatus(dir) # "not_compared"
                           /\ DirStatus(dir) = "matching" => Differences(dir) = {}
                           /\ DirStatus(dir) = "differs" => Differences(dir) \cup IgnoredInOneSided(dir) # {}
                      /\ \A file \in Files :
                           /\ \A side \in Side : disk[side][file] # NoFile
                           /\ ParentPath(file) \in CommonDirs /\ Shown(file, Root)
                           => CASE FileStatus(file) = "matching" -> file \notin Differences(Root)
                                [] FileStatus(file) = "differs" -> file \in Differences(Root)
                                [] FileStatus(file) = "error" -> TRUE
                                [] OTHER -> \E side \in Side : HasError(side, ParentPath(file))
    BY DEF StatusesShownRight, DirectoriesShownRight, DirectoriesAreRight, FilesShownRight
  <1>0. TInv /\ TreesInv /\ PairInv
    BY DEF ShownInv, TInv
  <1>1. Sound
    BY EverythingListed DEF ShownInv, Sound, HeldInCalm, Calm
  <1>2. CASE Root \in CommonDirs
    <2>1. PassTrue /\ frames = << >> /\ pair = NoPair
      BY <1>0, <1>2 DEF ShownInv, StatusInv, PairInv
    <2> QED
      BY <1>1, <2>1, VerdictsShown
  <1>3. CASE Root \notin CommonDirs
    <2>1. \A dir : dir \notin CommonDirs
      BY <1>0, <1>3, CommonFacts
    <2> QED
      BY <2>1
  <1> QED
    BY <1>2, <1>3

LEMMA ShownInit == Init => ShownInv
  <1> SUFFICES ASSUME Init PROVE ShownInv
    OBVIOUS
  <1>1. TInv
    BY TInit
  <1>2. /\ \A side \in Side, dir \in Dirs : node[side][dir] = NoNode
        /\ \A side \in Side, file \in Files : facts[side][file] = NoFacts
        /\ ~clean
    BY DEF Init, NoNodes, NoFileRows
  <1>3. \A side \in Side : KnownDirs(side) = {} /\ KnownFiles(side) = {}
    BY <1>2, NoNodeIsRow, NoFactsIsRow DEF KnownDirs, KnownFiles
  <1>t. leftover = {} /\ \A side \in Side : toList[side] = {}
    BY DEF Init, NothingToList
  <1>4. KindsApart /\ KnownClosed
    BY <1>3, <1>t DEF KindsApart, KnownClosed, Known
  <1>5. FactsTrue
    BY <1>1, <1>2, NoFactsIsRow DEF FactsTrue, IsTrue, TInv, TreesInv
  <1>6. PairRows /\ HeldInCalm
    BY DEF Init, PairRows, HeldInCalm, HeldRight
  <1> QED
    BY <1>1, <1>2, <1>4, <1>5, <1>6, CacheInit DEF ShownInv, ListedInv, StatusInv, CleanIsQuiet, Undisturbed

LEMMA ShownNext == ShownInv /\ [Next]_vars => ShownInv'
  <1> SUFFICES ASSUME ShownInv, [Next]_vars PROVE ShownInv'
    OBVIOUS
  <1>1. TInv /\ KindsApart /\ HeldInCalm /\ KnownClosed /\ FactsTrue /\ ListedInv /\ (Calm => PairRows)
        /\ StatusInv /\ (KeepsCaches => CacheInv) /\ CleanIsQuiet
    BY DEF ShownInv
  <1>2. TInv' /\ KindsApart' /\ HeldInCalm' /\ KnownClosed' /\ FactsTrue' /\ ListedInv'
    BY <1>1, TNext, KindsNext, HeldInCalmNext, ClosedNext, FactsNext, ListedNext
  <1>3. (Calm => PairRows)'
    BY <1>1, PairRowsNext
  <1>4. StatusInv'
    BY <1>1, StatusNext
  <1>5. KeepsCaches => CacheInv'
    BY <1>1, CacheNext DEF KeepsCaches, HeldInCalm, Calm
  <1>6. KeepsCaches' <=> KeepsCaches
    BY DEF KeepsCaches
  <1>7. CleanIsQuiet'
    <2> SUFFICES ASSUME StopPhases = {}, clean' PROVE quiet'
      BY DEF CleanIsQuiet
    <2>1. CASE \E m \in Modes : Compare(m)
      BY <1>1, <2>1 DEF Compare, HeldInCalm, Calm, HeldRight
    <2>2. CASE clean' = clean /\ quiet' = quiet
      BY <1>1, <2>2 DEF CleanIsQuiet
    <2>3. CASE Pass1
      BY <2>2, <2>3 DEF Pass1, StartPass2, List, historyVars
    <2>4. CASE Pass2
      BY <2>2, <2>4 DEF Pass2, Enter, ReadNext, HashSucceeds, HashFails, Cancel, PairDone, FinishDir,
         EndPass2, NextEntry, historyVars
    <2>5. CASE Environment
      BY <2>1, <2>5 DEF Environment, Stop, Restart, Edit, Delete, SetIgnored, Changes
    <2> QED
      BY <2>2, <2>3, <2>4, <2>5 DEF Next, vars, historyVars
  <1> QED
    BY <1>2, <1>3, <1>4, <1>5, <1>6, <1>7 DEF ShownInv

LEMMA ShownAlways == Spec => []ShownInv
  BY ShownInit, ShownNext, PTL DEF Spec

\* When a full comparison has ended, nobody interfered with it, and at its
\* start the engine had no Stop on its mind, every directory and file of the two
\* trees is shown as what it is on disk (getComparisonView): whatever earlier
\* comparisons, Stops and restarts had left in the tables, and however the
\* entries, errors and ignored paths lie.
THEOREM FullComparisonIsRight == Spec => [](mode = "full" => StatusesShownRight)
  <1>1. ShownInv => (mode = "full" => StatusesShownRight)
    BY ShownFollows
  <1> QED
    BY <1>1, ShownAlways, PTL

\* So it is when the comparison is incremental and answers directories from the
\* checksums of earlier ones (isCacheStillValid), provided that nothing is ever
\* deleted or un-ignored, that nobody presses Stop and that there is no restart.
THEOREM IncrementalIsRight ==
    ASSUME KeepsCaches
    PROVE  Spec => []StatusesShownRight
  <1>1. ShownInv => StatusesShownRight
    BY ShownFollows
  <1> QED
    BY <1>1, ShownAlways, PTL

-----------------------------------------------------------------------------
(* What need not be read again *)

\* What the rows of a pair of files say decides the pair.
Ready(file) ==
    /\ ~facts["left"][file].failed /\ ~facts["right"][file].failed
    /\ NextCascadeStep(facts["left"][file], facts["right"][file]) \in { "differs", "matching" }

\* The rows of the files that are compared are those of the files on disk, but
\* for what a listing under way could not stat, and they decide every pair.
FilesSettled ==
    \A file \in Files : NotOut(file) =>
        /\ \A side \in Side :
              /\ disk[side][file] # NoFile /\ (at = "off" \/ Awaits(side, file)) =>
                    file \in KnownFiles(side)
              /\ file \in KnownFiles(side) => facts[side][file].version = disk[side][file].version
        /\ file \in KnownFiles("left") \cap KnownFiles("right") => Ready(file)

SettledInv ==
    settled /\ (at = "off" \/ mode = "incremental") =>
        /\ FilesSettled /\ at # "hash"
        /\ pair # NoPair => Stage \in { "differs", "matching" }

\* When the roots themselves are left out, Pass 2 does not begin with them.
SkipsRoot ==
    clean /\ at # "listing" /\ Root \notin CommonDirs => \A k \in 1..Len(frames) : ~frames[k].entered

\* A listing keeps the rows of the files it sees, and awaits nothing it does not see.
LEMMA ListKeepsSettled ==
    ASSUME TInv, HeldRight, KnownHolds, FactsTrue, FilesSettled, UNCHANGED worldVars,
           NEW side \in Side, NEW dir \in Dirs, NEW hidden, dir \in toList[side],
           ListChildren(side, dir, hidden), NEW s \in Side, NEW file \in Files, NotOut(file)
    PROVE  \/ facts'[s][file] = facts[s][file] /\ (Awaits(s, file)' => Awaits(s, file))
           \/ facts'[s][file] = NoFacts /\ (disk[s][file] # NoFile => ~Awaits(s, file)')
  <1>0. TreesInv /\ RowsInv /\ ListInv /\ file \in AllPaths /\ file # Root
    BY PassAssumption DEF TInv, AllPaths
  <1>1. /\ facts'[side][file] =
             IF file \in FilesSeen(side, dir, hidden)
               THEN FileFacts(facts[side][file], disk[side][file])
             ELSE IF ParentPath(file) = dir \/ Forgotten(side, dir, file) THEN NoFacts
             ELSE facts[side][file]
        /\ s # side => facts'[s] = facts[s]
    BY <1>0, ListChildrenRows
  <1>2. /\ toList'[side] = (toList[side] \ { dir }) \cup Kids(side, dir)
        /\ s # side => toList'[s] = toList[s]
    <2>1. LoopGoesOn(side, dir, Kids(side, dir)) /\ leftover = {} /\ ~stopMark
      BY DEF ListChildren, Kids, HeldRight
    <2> QED
      BY <1>0, <2>1, LoopLists
  <1>3. ASSUME Awaits(s, file)' PROVE Awaits(s, file)
    <2>1. PICK above \in Lineage(file) : above \in toList'[s]
      BY <1>3 DEF Awaits
    <2>2. CASE above \in toList[s]
      BY <2>1, <2>2 DEF Awaits
    <2>3. CASE above \notin toList[s]
      <3>1. s = side /\ above \in Kids(side, dir)
        BY <1>2, <2>1, <2>3
      <3>2. above # Root /\ ParentPath(above) = dir /\ above \in AllPaths
        BY <1>0, <3>1 DEF Kids, ChildrenOf, TreesInv, AllPaths
      <3>a. dir \in AllPaths /\ dir \in Lineage(dir)
        BY PathFacts DEF AllPaths
      <3>3. dir \in Lineage(above) /\ above \in Lineage(file)
        BY <2>1, <3>2, <3>a, PathFacts
      <3>b. IsWithinSubtree(file, above) /\ IsWithinSubtree(above, dir)
        BY <3>3 DEF IsWithinSubtree
      <3>c. IsWithinSubtree(file, dir)
        BY <1>0, <3>b, WithinTransitive
      <3>4. dir \in Lineage(file)
        BY <3>c DEF IsWithinSubtree
      <3> QED
        BY <3>1, <3>4 DEF Awaits
    <2> QED
      BY <2>2, <2>3
  <1>4. CASE s # side
    BY <1>1, <1>3, <1>4
  <1>5. CASE s = side /\ file \in FilesSeen(side, dir, hidden)
    <2>1. disk[side][file] # NoFile /\ ParentPath(file) = dir
      BY <1>5 DEF FilesSeen, ChildrenOf
    <2>2. Awaits(side, file)
      <3>a. dir \in Lineage(dir)
        BY PathFacts DEF AllPaths
      <3>1. dir \in Lineage(file)
        BY <1>0, <2>1, <3>a, PathFacts
      <3> QED
        BY <3>1 DEF Awaits
    <2>3. facts[side][file].version = disk[side][file].version
      BY <2>1, <2>2 DEF FilesSettled
    <2>4. facts[side][file].size = SizeOf[disk[side][file].content]
      BY <2>1, <2>3 DEF FactsTrue, IsTrue
    <2>5. FileFacts(facts[side][file], disk[side][file]) = facts[side][file]
      BY <2>3, <2>4 DEF FileFacts
    <2> QED
      BY <1>1, <1>3, <1>5, <2>5
  <1>6. CASE s = side /\ file \notin FilesSeen(side, dir, hidden) /\ ParentPath(file) = dir
    <2>1. facts'[s][file] = NoFacts
      BY <1>1, <1>6
    <2>2. ASSUME disk[s][file] # NoFile, NEW above \in Lineage(file), above \in toList'[s]
          PROVE  FALSE
      <3>1. above = file \/ above \in Lineage(dir)
        BY <1>0, <1>6, PathFacts
      <3>2. dir \in AllPaths /\ dir \in Lineage(file)
        BY <1>0, <1>6, PathFacts DEF AllPaths
      <3>3. ASSUME above \in Kids(side, dir) PROVE FALSE
        <4>1. above # Root /\ ParentPath(above) = dir /\ above \in dirs[side] /\ above \in AllPaths
          BY <1>0, <3>3 DEF Kids, ChildrenOf, TreesInv, AllPaths
        <4>2. above \notin Lineage(dir)
          BY <4>1, PathFacts
        <4>3. above # file
          BY <1>0, <1>6, <2>2, <4>1 DEF TreesInv
        <4> QED
          BY <3>1, <4>2, <4>3
      <3>4. above \in toList[side] /\ above # dir
        BY <1>2, <1>6, <2>2, <3>3
      <3>5. CASE above = file
        <4>1. IsWithinSubtree(above, dir)
          BY <3>2, <3>5 DEF IsWithinSubtree
        <4> QED
          BY <1>0, <3>4, <4>1 DEF ListInv
      <3>6. CASE above \in Lineage(dir)
        <4>1. IsWithinSubtree(dir, above)
          BY <3>6 DEF IsWithinSubtree
        <4> QED
          BY <1>0, <3>4, <4>1 DEF ListInv
      <3> QED
        BY <3>1, <3>5, <3>6
    <2>3. disk[s][file] # NoFile => ~Awaits(s, file)'
      BY <2>2 DEF Awaits
    <2> QED
      BY <2>1, <2>3
  <1>7. CASE s = side /\ file \notin FilesSeen(side, dir, hidden) /\ ParentPath(file) # dir
    <2>1. ~Forgotten(side, dir, file)
      BY NothingForgotten
    <2> QED
      BY <1>1, <1>3, <1>7, <2>1
  <1> QED
    BY <1>4, <1>5, <1>6, <1>7

LEMMA ListSettled ==
    ASSUME TInv, HeldRight, KnownHolds, FactsTrue, FilesSettled,
           NEW side \in Side, NEW dir \in Dirs, List(side, dir)
    PROVE  FilesSettled'
  <1>0. /\ UNCHANGED worldVars /\ at' = at /\ at = "listing" /\ dir \in toList[side] /\ ListInv
        /\ disk' = disk /\ \A path : NotOut(path)' <=> NotOut(path)
    BY HeldList DEF List, worldVars, TInv, NotOut, LeftOut, Holds
  <1>1. ASSUME NEW s \in Side, NEW file \in Files, NotOut(file)
        PROVE  \/ facts'[s][file] = facts[s][file] /\ (Awaits(s, file)' => Awaits(s, file))
               \/ facts'[s][file] = NoFacts /\ (disk[s][file] # NoFile => ~Awaits(s, file)')
    <2>1. ASSUME NEW outcome, OnlyRecord(side, dir, outcome)
          PROVE  facts' = facts /\ (Awaits(s, file)' => Awaits(s, file))
      <3>1. facts' = facts /\ LoopGoesOn(side, dir, {}) /\ leftover = {}
        BY <2>1 DEF OnlyRecord, HeldRight
      <3>2. toList'[s] = IF s = side THEN (toList[s] \ { dir }) \cup (IF stopMark THEN {} ELSE {})
                         ELSE toList[s]
        BY <1>0, <3>1, LoopLists
      <3>3. toList'[s] \subseteq toList[s]
        BY <3>2
      <3> QED
        BY <3>1, <3>3 DEF Awaits
    <2>2. ASSUME NEW hidden, ListChildren(side, dir, hidden)
          PROVE  \/ facts'[s][file] = facts[s][file] /\ (Awaits(s, file)' => Awaits(s, file))
                 \/ facts'[s][file] = NoFacts /\ (disk[s][file] # NoFile => ~Awaits(s, file)')
      BY <1>0, <1>1, <2>2, ListKeepsSettled
    <2> QED
      BY <2>1, <2>2 DEF List
  <1> SUFFICES ASSUME NEW file \in Files, NotOut(file)
               PROVE  /\ \A s \in Side :
                            /\ disk[s][file] # NoFile /\ Awaits(s, file)' => file \in KnownFiles(s)'
                            /\ file \in KnownFiles(s)' => facts'[s][file].version = disk[s][file].version
                      /\ file \in KnownFiles("left")' \cap KnownFiles("right")' => Ready(file)'
    BY <1>0 DEF FilesSettled
  <1>2. NoFacts.version = 0
    BY DEF NoFacts
  <1>3. ASSUME NEW s \in Side
        PROVE  /\ file \in KnownFiles(s)' => facts'[s][file] = facts[s][file] /\ file \in KnownFiles(s)
               /\ disk[s][file] # NoFile /\ Awaits(s, file)' => file \in KnownFiles(s)'
    <2>1. CASE facts'[s][file] = facts[s][file] /\ (Awaits(s, file)' => Awaits(s, file))
      BY <2>1 DEF FilesSettled, KnownFiles
    <2>2. CASE facts'[s][file] = NoFacts /\ (disk[s][file] # NoFile => ~Awaits(s, file)')
      BY <1>2, <2>2 DEF KnownFiles
    <2> QED
      BY <1>1, <2>1, <2>2
  <1>4. file \in KnownFiles("left")' \cap KnownFiles("right")' => Ready(file)'
    BY <1>3 DEF FilesSettled, Ready, Side
  <1> QED
    BY <1>3, <1>4 DEF FilesSettled

LEMMA SkipsRootNext ==
    ASSUME TInv, HeldRight, CacheInv, SkipsRoot, [Next]_vars
    PROVE  SkipsRoot'
  <1> SUFFICES ASSUME clean', at' # "listing", Root \notin CommonDirs'
               PROVE  \A k \in 1..Len(frames') : ~frames'[k].entered
    BY DEF SkipsRoot
  <1>0. /\ TreesInv /\ IsNest(frames) /\ PairInv /\ KnownHolds /\ RootKnown /\ FramesKnown
        /\ ~aborted /\ Side = { "left", "right" }
    BY DEF TInv, CacheInv, RowsKept, Side
  <1>1. CASE Pass2
    <2>1. UNCHANGED worldVars /\ KeepsKnown /\ clean' = clean /\ at \in { "run", "hash" }
      BY <1>1, Pass2KeepsKnown DEF Pass2, Enter, ReadNext, HashSucceeds, HashFails, Cancel, PairDone,
         FinishDir, EndPass2, NextEntry, Loops, historyVars
    <2>2. Root \notin CommonDirs
      BY <2>1, WorldStays
    <2>3. \A k \in 1..Len(frames) : ~frames[k].entered
      BY <2>1, <2>2 DEF SkipsRoot
    <2>4. frames # << >> => ~Top.entered /\ pair = NoPair
      <3>1. frames # << >> => Len(frames) \in 1..Len(frames)
        BY <1>0, NestTop
      <3> QED
        BY <1>0, <2>3, <3>1 DEF Top, PairInv
    <2>5. CASE frames' = frames
      BY <2>3, <2>5
    <2>6. CASE frames' = << >>
      BY <2>6
    <2>7. CASE Enter
      <3>1. frames # << >> /\ EnterNow
        BY <2>7, EnterIsNow DEF Enter
      <3>a. PICK n : n = Len(frames)
        OBVIOUS
      <3>2. n = 1 /\ frames[1].dir = Root
        <4>1. n \in Nat /\ n > 0
          BY <1>0, <3>1, <3>a, NestTop
        <4>2. ASSUME n > 1 PROVE FALSE
          <5>1. 1 \in 1..(n - 1) /\ 1 \in 1..n
            BY <4>1, <4>2
          <5> QED
            BY <1>0, <2>3, <3>a, <5>1 DEF IsNest
        <4> QED
          BY <1>0, <3>1, <4>1, <4>2 DEF IsNest
      <3>3. Top.dir = Root
        BY <3>a, <3>2 DEF Top
      <3>4. \A side \in Side : Root \in KnownDirs(side)
        <4>1. 1 \in 1..Len(frames)
          BY <3>a, <3>2
        <4> QED
          BY <1>0, <3>2, <4>1 DEF FramesKnown
      <3>5. LeftOut(Root)
        BY <1>0, <2>2, CommonFacts, RootLineage DEF KnownHolds, NotOut
      <3>6. PairIgnored(Root)
        BY <3>4, <3>5 DEF LeftOut, PairIgnored
      <3>7. frames' = Returned({}, {})
        BY <3>1, <3>3, <3>6 DEF EnterNow
      <3>8. Rest = << >>
        BY <1>0, <3>a, <3>2, StackFacts DEF Rest, IsNest
      <3> QED
        BY <3>7, <3>8 DEF Returned
    <2> QED
      BY <1>0, <1>1, <2>1, <2>4, <2>5, <2>6, <2>7 DEF Pass2, ReadNext, HashSucceeds, HashFails,
         Cancel, PairDone, FinishDir, EndPass2, NextEntry, Loops, PairInv
  <1>2. CASE StartPass2
    <2>1. frames' = << Activation(Root) >>
      BY <1>2 DEF StartPass2
    <2> QED
      BY <2>1 DEF Activation
  <1>3. CASE \E side \in Side, dir \in Dirs : List(side, dir)
    BY <1>3, HeldList DEF List
  <1>4. CASE Environment
    BY <1>4 DEF Environment, Compare, Stop, Restart, Edit, Delete, SetIgnored, Changes
  <1>5. CASE UNCHANGED vars
    <2>1. UNCHANGED worldVars /\ KeepsKnown /\ at' = at /\ frames' = frames /\ clean' = clean
      BY <1>5 DEF vars, passVars, historyVars, KeepsKnown, rowVars
    <2>2. Root \notin CommonDirs
      BY <2>1, WorldStays
    <2> QED
      BY <2>1, <2>2 DEF SkipsRoot
  <1> QED
    BY <1>1, <1>2, <1>3, <1>4, <1>5 DEF Next, Pass1

\* A comparison that ends without read errors leaves rows that decide every pair.
LEMMA EndSettles ==
    ASSUME Sound, PairInv, KnownHolds, FullHasPartial, frames = << >>,
           Root \in CommonDirs => PassTrue,
           \A side \in Side : /\ \A file \in Files : ~facts[side][file].failed
                              /\ \A dir \in Dirs : ~HasError(side, dir),
           NEW file \in Files, NotOut(file)
    PROVE  /\ \A side \in Side :
                 /\ disk[side][file] # NoFile => file \in KnownFiles(side)
                 /\ file \in KnownFiles(side) => facts[side][file].version = disk[side][file].version
           /\ file \in KnownFiles("left") \cap KnownFiles("right") => Ready(file)
  <1>0. /\ TreesInv /\ RowsInv /\ AllListed /\ FactsTrue /\ Side = { "left", "right" }
        /\ file \in AllPaths /\ file # Root
    BY PassAssumption DEF Sound, TInv, AllPaths, Side
  <1> DEFINE dir == ParentPath(file)
  <1>1. dir \in Dirs /\ NotOut(dir) /\ dir \in Lineage(file)
    <2>1. dir \in Dirs /\ dir \in AllPaths
      BY <1>0, PathFacts DEF AllPaths
    <2>2. dir \in Lineage(dir)
      BY <2>1, PathFacts
    <2>3. dir \in Lineage(file)
      BY <1>0, <2>2, PathFacts
    <2> QED
      BY <1>0, <2>1, <2>3, NotOutAbove
  <1>2. ASSUME NEW side \in Side, disk[side][file] # NoFile
        PROVE  /\ dir \in dirs[side] /\ Visited(side, dir)
               /\ file \in KnownFiles(side) /\ facts[side][file].version = disk[side][file].version
    <2>1. Holds(side, file)
      BY <1>2 DEF Holds
    <2>2. dir \in dirs[side] /\ Holds(side, dir) /\ dir \in AllPaths
      BY <1>0, <1>1, <2>1, HoldsAbove DEF Holds, AllPaths
    <2>3. Visited(side, dir)
      BY <1>0, <1>1, <2>2, VisitedThere
    <2>4. Listed(side, dir)
      BY <1>0, <1>1, <2>3 DEF AllListed
    <2>5. ~node[side][dir].unreadable
      BY <1>1 DEF HasError, InError
    <2>6. file \in KnownFiles(side)
      BY <1>2, <2>4, <2>5 DEF Listed
    <2>7. facts[side][file].version = disk[side][file].version
      BY <2>4, <2>6 DEF Listed
    <2> QED
      BY <2>2, <2>3, <2>6, <2>7
  <1>3. \A side \in Side : file \in KnownFiles(side) => disk[side][file] # NoFile
    BY DEF KnownHolds
  <1>4. ASSUME file \in KnownFiles("left"), file \in KnownFiles("right") PROVE Ready(file)
    <2>1. dir \in dirs["left"] \cap dirs["right"]
      BY <1>0, <1>2, <1>3, <1>4
    <2>2. dir \in CommonDirs
      BY <1>0, <1>1, <2>1, CommonFacts
    <2>3. PassTrue
      BY <1>0, <2>2, CommonFacts
    <2>4. ~ToCome(dir)
      BY DEF ToCome
    <2>5. Verdict(dir)
      BY <2>2, <2>3, <2>4 DEF PassTrue, VerdictsTrue
    <2>6. ~PairIgnored(file)
      BY <1>0, <2>2, PathFacts, EntryFacts DEF NotOut
    <2>7. BothFiles(file) /\ pair = NoPair
      BY <1>4, <2>6 DEF BothFiles, PairInv
    <2>8. Decided(file)
      BY <2>5, <2>7 DEF Verdict
    <2> DEFINE l == facts["left"][file]
               r == facts["right"][file]
    <2>9. ~l.failed /\ ~r.failed
      BY <1>0
    <2>10. \/ l.size # r.size
           \/ 0 \notin { l.full, r.full }
           \/ 0 \notin { l.partial, r.partial } /\ l.partial # r.partial
      BY <2>8, <2>9 DEF Decided
    <2>11. /\ l.full # 0 => l.partial # 0
           /\ r.full # 0 => r.partial # 0
      BY <1>0 DEF FullHasPartial
    <2> HIDE DEF l, r
    <2>12. NextCascadeStep(l, r) \in { "differs", "matching" }
      BY <2>10, <2>11 DEF NextCascadeStep
    <2> QED
      BY <2>9, <2>12 DEF Ready, l, r
  <1> QED
    BY <1>2, <1>3, <1>4

LEMMA SettledAlways ==
    ASSUME UNCHANGED worldVars, facts' = facts,
           \A file \in Files : NotOut(file) =>
               /\ \A side \in Side :
                    /\ disk[side][file] # NoFile /\ (at' = "off" \/ Awaits(side, file)') =>
                          file \in KnownFiles(side)
                    /\ file \in KnownFiles(side) => facts[side][file].version = disk[side][file].version
               /\ file \in KnownFiles("left") \cap KnownFiles("right") => Ready(file)
    PROVE  FilesSettled'
  <1> SUFFICES ASSUME NEW file \in Files, NotOut(file)'
               PROVE  /\ \A side \in Side :
                           /\ disk'[side][file] # NoFile /\ (at' = "off" \/ Awaits(side, file)') =>
                                 file \in KnownFiles(side)'
                           /\ file \in KnownFiles(side)' => facts'[side][file].version = disk'[side][file].version
                      /\ file \in KnownFiles("left")' \cap KnownFiles("right")' => Ready(file)'
    BY DEF FilesSettled
  <1>1. NotOut(file) /\ disk' = disk
    BY DEF worldVars, NotOut, LeftOut, Holds
  <1>2. \A side \in Side : KnownFiles(side)' = KnownFiles(side)
    BY DEF KnownFiles
  <1>3. Ready(file)' <=> Ready(file)
    BY DEF Ready
  <1>4. KnownFiles("left")' = KnownFiles("left") /\ KnownFiles("right")' = KnownFiles("right")
    BY <1>2 DEF Side
  <1> QED
    BY <1>1, <1>2, <1>3, <1>4

LEMMA SettledStill ==
    ASSUME FilesSettled, UNCHANGED worldVars, facts' = facts, at' = "off" => at = "off",
           \A side \in Side, file \in Files : Awaits(side, file)' => at = "off" \/ Awaits(side, file)
    PROVE  FilesSettled'
  BY SettledAlways DEF FilesSettled

LEMMA SettledNext ==
    ASSUME ShownInv, HeldRight, KeepsCaches, SkipsRoot, SettledInv, [Next]_vars
    PROVE  SettledInv'
  <1> SUFFICES ASSUME settled', at' = "off" \/ mode' = "incremental"
               PROVE  /\ FilesSettled' /\ at' # "hash"
                      /\ pair' # NoPair => Stage' \in { "differs", "matching" }
    BY DEF SettledInv
  <1>0. /\ TInv /\ TreesInv /\ IsNest(frames) /\ PairInv /\ ControlInv /\ RowsInv /\ ListInv
        /\ FactsTrue /\ ListedInv /\ CacheInv /\ KnownHolds /\ FullHasPartial /\ FramesKnown
        /\ ~aborted /\ Side = { "left", "right" }
    BY DEF ShownInv, TInv, CacheInv, RowsKept, Side
  <1>1. CASE Pass2 /\ ~EndPass2
    <2>1. /\ UNCHANGED worldVars /\ KeepsKnown /\ settled' = settled /\ mode' = mode /\ toList' = toList
          /\ at \in { "run", "hash" } /\ at' \in { "run", "hash" }
      <3>1. UNCHANGED worldVars /\ KeepsKnown
        BY <1>0, <1>1, Pass2KeepsKnown
      <3> QED
        BY <1>1, <3>1 DEF Pass2, Enter, ReadNext, HashSucceeds, HashFails, Cancel, PairDone,
           FinishDir, NextEntry, Loops, historyVars, engineVars
    <2>2. settled /\ mode = "incremental"
      BY <2>1
    <2>3. FilesSettled /\ at = "run" /\ (pair # NoPair => Stage \in { "differs", "matching" })
      BY <2>1, <2>2 DEF SettledInv
    <2>4. Undisturbed /\ clean /\ Sound
      BY <1>0, <2>1, <2>2, EverythingListed DEF ControlInv, ShownInv, Sound, Undisturbed
    <2>5. ~ReadNext /\ ~HashSucceeds /\ ~HashFails
      BY <2>3 DEF ReadNext, HashSucceeds, HashFails, Unread
    <2>6. at' = "run" /\ facts' = facts
      <3>1. FinishDir => facts' = facts /\ at' = at
        <4>1. TInv /\ KindsApart
          BY DEF ShownInv
        <4>2. FinishDir => facts' = facts
          BY <4>1, CalmFinish
        <4> QED
          BY <4>2 DEF FinishDir
      <3>2. CASE Enter \/ Cancel \/ PairDone \/ \E path : NextEntry(path)
        <4>1. facts' = facts
          BY <3>2 DEF Enter, Cancel, PairDone, NextEntry, rowVars
        <4>2. at' = "run"
          BY <2>3, <3>2 DEF Enter, Cancel, PairDone, NextEntry
        <4> QED
          BY <4>1, <4>2
      <3> QED
        BY <1>1, <2>3, <2>5, <3>1, <3>2 DEF Pass2
    <2>7. FilesSettled'
      <3>1. \A side \in Side, file \in Files : Awaits(side, file)' => Awaits(side, file)
        BY <2>1 DEF Awaits
      <3> QED
        BY <2>1, <2>3, <2>6, <3>1, SettledStill
    <2>8. CASE pair' = pair \/ pair' = NoPair
      <3>1. pair' = pair => Stage' = Stage
        BY DEF Stage
      <3> QED
        BY <2>3, <2>6, <2>7, <2>8, <3>1
    <2>9. ASSUME NEW path, NextEntry(path), pair' # NoPair, pair' # pair
          PROVE  Stage' \in { "differs", "matching" }
      <3>0. Loops /\ path \in Top.todo
        BY <2>9 DEF NextEntry
      <3>1. /\ Loops /\ path \in Top.todo /\ ~PairIgnored(path)
            /\ KindNow("left", path) = "file" /\ KindNow("right", path) = "file"
            /\ pair'.seen["left"] = Cached(facts["left"][path])
            /\ pair'.seen["right"] = Cached(facts["right"][path])
        BY <1>0, <2>9, <3>0, EntryStackNow DEF ComparesNow
      <3>2. \A side \in Side : path \in KnownFiles(side)
        BY <1>0, <3>1 DEF KindNow
      <3>3. Root \in CommonDirs
        <4>1. Len(frames) \in 1..Len(frames) /\ Top.entered
          BY <1>0, <3>1, NestTop DEF Loops
        <4> QED
          BY <2>1, <2>4, <4>1 DEF SkipsRoot, Top
      <3>4. PassTrue
        BY <2>1, <2>4, <3>3 DEF ShownInv, StatusInv
      <3>5. Top.dir \in CommonDirs
        BY <2>4, <3>1, <3>4, TopFacts DEF Loops
      <3>6. path \in AllPaths /\ path # Root /\ ParentPath(path) = Top.dir /\ path \in Files
        <4>1. IsFrame(Top)
          BY <1>0, <3>1, NestTop DEF Loops, Top
        <4> QED
          BY <3>1, <3>2, <4>1, FrameTypes DEF KnownFiles, Side
      <3>7. NotOut(path)
        <4>1. ~DirInError(Top.dir) => ~LeftOut(path)
          BY <2>4, <3>1, <3>5, <3>6, EntryFacts
        <4>2. ~LeftOut(path)
          BY <3>1, <3>2 DEF LeftOut, PairIgnored
        <4> QED
          BY <1>0, <3>5, <3>6, <4>2, CommonFacts, NotOutBelow
      <3>8. Ready(path)
        BY <2>3, <3>2, <3>6, <3>7 DEF FilesSettled, Side
      <3> DEFINE l == facts["left"][path]
                 r == facts["right"][path]
      <3>9. /\ pair'.seen["left"] = [size |-> l.size, partial |-> l.partial, full |-> l.full]
            /\ pair'.seen["right"] = [size |-> r.size, partial |-> r.partial, full |-> r.full]
        BY <1>0, <3>1, <3>8 DEF Cached, Ready
      <3>10. NextCascadeStep(l, r) \in { "differs", "matching" }
        BY <3>8 DEF Ready
      <3> HIDE DEF l, r
      <3>11. Stage' = NextCascadeStep([size |-> l.size, partial |-> l.partial, full |-> l.full],
                                      [size |-> r.size, partial |-> r.partial, full |-> r.full])
        BY <3>9 DEF Stage
      <3>12. NextCascadeStep([size |-> l.size, partial |-> l.partial, full |-> l.full],
                             [size |-> r.size, partial |-> r.partial, full |-> r.full]) =
                 NextCascadeStep(l, r)
        BY DEF NextCascadeStep
      <3> QED
        BY <3>10, <3>11, <3>12
    <2>10. pair' = pair \/ pair' = NoPair \/ \E path : NextEntry(path)
      BY <1>1, <2>5 DEF Pass2, Enter, Cancel, PairDone, FinishDir
    <2> QED
      BY <2>6, <2>7, <2>8, <2>9, <2>10
  <1>2. CASE EndPass2
    <2>1. /\ UNCHANGED worldVars /\ facts' = facts /\ at = "run" /\ at' = "off" /\ frames = << >>
          /\ pair' = pair /\ Undisturbed
          /\ \A side \in Side : /\ \A file \in Files : ~facts[side][file].failed
                                /\ \A dir \in Dirs : ~HasError(side, dir)
      BY <1>2 DEF EndPass2, rowVars
    <2>2. Sound /\ (Root \in CommonDirs => PassTrue)
      BY <1>0, <2>1, EverythingListed DEF ShownInv, Sound, StatusInv
    <2>3. ASSUME NEW file \in Files, NotOut(file)
          PROVE  /\ \A side \in Side :
                       /\ disk[side][file] # NoFile => file \in KnownFiles(side)
                       /\ file \in KnownFiles(side) => facts[side][file].version = disk[side][file].version
                 /\ file \in KnownFiles("left") \cap KnownFiles("right") => Ready(file)
      BY <1>0, <2>1, <2>2, <2>3, EndSettles
    <2>7. FilesSettled'
      BY <2>1, <2>3, SettledAlways
    <2> QED
      BY <1>0, <2>1, <2>7 DEF PairInv
  <1>3. CASE StartPass2
    <2>1. /\ UNCHANGED worldVars /\ facts' = facts /\ at = "listing" /\ at' = "run"
          /\ pair' = pair /\ settled' = settled /\ mode' = mode
      BY <1>3 DEF StartPass2, rowVars, historyVars
    <2>2. FilesSettled
      BY <2>1 DEF SettledInv
    <2>6. \A side \in Side, file \in Files : ~Awaits(side, file)'
      <3>1. \A side \in Side : toList'[side] = {}
        BY <1>3 DEF StartPass2, NothingToList
      <3> QED
        BY <3>1 DEF Awaits
    <2>7. FilesSettled'
      BY <2>1, <2>2, <2>6, SettledStill
    <2>8. pair = NoPair
      BY <1>0, <2>1 DEF PairInv
    <2> QED
      BY <2>1, <2>7, <2>8
  <1>4. ASSUME NEW side \in Side, NEW dir \in Dirs, List(side, dir)
        PROVE  /\ FilesSettled' /\ at' # "hash" /\ pair' = NoPair
    <2>1. at = "listing" /\ at' = at /\ settled' = settled /\ mode' = mode /\ pair' = pair
      BY <1>0, <1>4, HeldList DEF List, historyVars
    <2>2. FilesSettled
      BY <2>1 DEF SettledInv
    <2>3. FilesSettled'
      BY <1>0, <1>4, <2>2, ListSettled
    <2>4. pair = NoPair
      BY <1>0, <2>1 DEF PairInv
    <2> QED
      BY <2>1, <2>3, <2>4
  <1>5. ASSUME NEW m \in Modes, Compare(m)
        PROVE  /\ FilesSettled' /\ at' # "hash" /\ pair' = NoPair
    <2>1. /\ UNCHANGED worldVars /\ at = "off" /\ at' = "listing" /\ settled' = settled /\ mode' = m
          /\ pair' = pair
      BY <1>5 DEF Compare
    <2>2. FilesSettled /\ m = "incremental"
      BY <2>1 DEF SettledInv
    <2>3. facts' = facts
      BY <1>5, <2>2 DEF Compare
    <2>7. FilesSettled'
      BY <2>1, <2>2, <2>3, SettledStill
    <2>8. pair = NoPair
      BY <1>0, <2>1 DEF PairInv
    <2> QED
      BY <2>1, <2>7, <2>8
  <1>6. CASE Environment
    BY <1>5, <1>6 DEF Environment, Stop, Restart, Edit, Delete, SetIgnored, Changes
  <1>7. CASE UNCHANGED vars
    <2>1. /\ UNCHANGED worldVars /\ facts' = facts /\ at' = at /\ toList' = toList
          /\ pair' = pair /\ settled' = settled /\ mode' = mode
      BY <1>7 DEF vars, passVars, historyVars, rowVars, engineVars
    <2>2. FilesSettled /\ at # "hash" /\ (pair # NoPair => Stage \in { "differs", "matching" })
      BY <2>1 DEF SettledInv
    <2>6. \A side, file : Awaits(side, file)' <=> Awaits(side, file)
      BY <2>1 DEF Awaits
    <2>7. FilesSettled'
      BY <2>1, <2>2, <2>6, SettledStill
    <2>8. Stage' = Stage
      BY <2>1 DEF Stage
    <2> QED
      BY <2>1, <2>2, <2>7, <2>8
  <1> QED
    BY <1>1, <1>2, <1>3, <1>4, <1>5, <1>6, <1>7 DEF Next, Pass1

\* Comparing again what was completely compared, without errors, and has not
\* changed since, reads no file (spec 003, SC-005), provided that nothing is
\* ever deleted or un-ignored, that nobody presses Stop and that there is no
\* restart.
THEOREM ComparingAgainReadsNothing ==
    ASSUME KeepsCaches
    PROVE  Spec => []NoNeedlessRead
  <1>1. Init => SkipsRoot /\ SettledInv
    BY DEF Init, SkipsRoot, SettledInv
  <1>2. ShownInv /\ SkipsRoot /\ SettledInv /\ [Next]_vars => SkipsRoot' /\ SettledInv'
    <2>1. ShownInv => TInv /\ CacheInv /\ HeldRight
      BY DEF ShownInv, HeldInCalm, Calm, KeepsCaches
    <2> QED
      BY <2>1, SkipsRootNext, SettledNext
  <1>3. SettledInv => NoNeedlessRead
    BY DEF SettledInv, NoNeedlessRead
  <1> QED
    BY <1>1, <1>2, <1>3, ShownAlways, PTL DEF Spec
=============================================================================
