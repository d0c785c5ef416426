----------------------- MODULE ComparePassStepsProofs -----------------------
(***************************************************************************)
(* Proofs about ComparePass, for every tree, every content and every bound:*)
(* the shape of its rows and activations, what each action does to them,   *)
(* the types of its state, and that the progress a user sees ends at its   *)
(* total.                                                                  *)
(***************************************************************************)
EXTENDS ComparePass, FiniteSetTheorems, SequenceTheorems, WellFoundedInduction, TLAPS

-----------------------------------------------------------------------------
(* Paths: the prefixes of a path are a chain, and a child adds one to those *)
(* of its parent.                                                           *)

LEMMA PrefixOfPrefix ==
    ASSUME NEW path \in Seq(STRING), NEW k \in 0..Len(path), NEW j \in 0..k
    PROVE  /\ SubSeq(path, 1, k) \in Seq(STRING)
           /\ Len(SubSeq(path, 1, k)) = k
           /\ SubSeq(SubSeq(path, 1, k), 1, j) = SubSeq(path, 1, j)
  OBVIOUS

LEMMA LineageTypes ==
    ASSUME NEW path \in Seq(STRING), NEW above \in Lineage(path)
    PROVE  /\ above \in Seq(STRING)
           /\ Len(above) \in 0..Len(path)
           /\ above = SubSeq(path, 1, Len(above))
           /\ Len(above) = Len(path) => above = path
  <1>1. PICK k \in 0..Len(path) : above = SubSeq(path, 1, k)
    BY DEF Lineage
  <1>2. above \in Seq(STRING) /\ Len(above) = k
    BY <1>1, PrefixOfPrefix
  <1>3. SubSeq(path, 1, Len(path)) = path
    OBVIOUS
  <1> QED
    BY <1>1, <1>2, <1>3

LEMMA LineageReflexive ==
    ASSUME NEW path \in Seq(STRING)
    PROVE  path \in Lineage(path)
  <1>1. SubSeq(path, 1, Len(path)) = path /\ Len(path) \in 0..Len(path)
    OBVIOUS
  <1> QED
    BY <1>1 DEF Lineage

LEMMA LineageTransitive ==
    ASSUME NEW path \in Seq(STRING), NEW mid \in Lineage(path), NEW top \in Lineage(mid)
    PROVE  top \in Lineage(path)
  <1>1. PICK k \in 0..Len(path) : mid = SubSeq(path, 1, k)
    BY DEF Lineage
  <1>2. Len(mid) = k
    BY <1>1, PrefixOfPrefix
  <1>3. PICK j \in 0..k : top = SubSeq(mid, 1, j)
    BY <1>2 DEF Lineage
  <1>4. top = SubSeq(path, 1, j)
    BY <1>1, <1>3, PrefixOfPrefix
  <1> QED
    BY <1>4 DEF Lineage

LEMMA LineageLinear ==
    ASSUME NEW path \in Seq(STRING), NEW p \in Lineage(path), NEW q \in Lineage(path),
           Len(q) <= Len(p)
    PROVE  q \in Lineage(p)
  <1>1. Len(p) \in 0..Len(path) /\ p = SubSeq(path, 1, Len(p))
    BY LineageTypes
  <1>2. Len(q) \in 0..Len(p) /\ q = SubSeq(path, 1, Len(q))
    BY LineageTypes
  <1>3. q = SubSeq(p, 1, Len(q))
    BY <1>1, <1>2, PrefixOfPrefix
  <1> QED
    BY <1>2, <1>3 DEF Lineage

LEMMA LineageAntisymmetric ==
    ASSUME NEW low \in Seq(STRING), NEW high \in Lineage(low), low \in Lineage(high)
    PROVE  low = high
  <1>1. high \in Seq(STRING) /\ Len(high) \in 0..Len(low)
    BY LineageTypes
  <1>2. Len(low) \in 0..Len(high)
    BY <1>1, LineageTypes
  <1>3. Len(high) = Len(low)
    BY <1>1, <1>2
  <1> QED
    BY <1>3, LineageTypes

LEMMA LineageOfChild ==
    ASSUME NEW path \in Seq(STRING), path # Root
    PROVE  /\ Lineage(path) = { path } \cup Lineage(ParentPath(path))
           /\ ParentPath(path) \in Seq(STRING)
           /\ Len(ParentPath(path)) = Len(path) - 1
           /\ Len(path) > 0
  <1>1. Len(path) > 0 /\ Len(path) - 1 \in 0..Len(path)
    BY DEF Root
  <1>2. PICK k \in 0..Len(path) : k = Len(path) - 1 /\ 0 \in 0..k
    BY <1>1
  <1>3. /\ ParentPath(path) = SubSeq(path, 1, k)
        /\ ParentPath(path) \in Seq(STRING) /\ Len(ParentPath(path)) = k
    BY <1>2, PrefixOfPrefix DEF ParentPath
  <1>4. SubSeq(path, 1, Len(path)) = path
    OBVIOUS
  <1>5. \A j \in 0..k : SubSeq(ParentPath(path), 1, j) = SubSeq(path, 1, j)
    BY <1>3, PrefixOfPrefix
  <1>6. 0..Len(path) = (0..k) \cup { Len(path) }
    BY <1>1, <1>2
  <1>7. Lineage(ParentPath(path)) = { SubSeq(path, 1, j) : j \in 0..k }
    BY <1>3, <1>5 DEF Lineage
  <1> QED
    BY <1>1, <1>2, <1>3, <1>4, <1>6, <1>7 DEF Lineage

AllPaths == Dirs \cup Files

LEMMA PathFacts ==
    ASSUME NEW path \in AllPaths
    PROVE  /\ path \in Seq(STRING) /\ path \in Lineage(path)
           /\ path # Root =>
                /\ ParentPath(path) \in Dirs
                /\ Lineage(path) = { path } \cup Lineage(ParentPath(path))
                /\ path \notin Lineage(ParentPath(path))
  <1>1. path \in Seq(STRING) /\ path \in Lineage(path)
    BY PassAssumption, LineageReflexive DEF AllPaths
  <1>2. ASSUME path # Root PROVE path \notin Lineage(ParentPath(path))
    <2>1. /\ ParentPath(path) \in Seq(STRING) /\ Len(ParentPath(path)) = Len(path) - 1
          /\ Len(path) > 0
      BY <1>1, <1>2, LineageOfChild
    <2>2. \A above \in Lineage(ParentPath(path)) : Len(above) \in 0..Len(ParentPath(path))
      BY <2>1, LineageTypes
    <2> QED
      BY <2>1, <2>2
  <1>3. path # Root => ParentPath(path) \in Dirs
    BY PassAssumption DEF AllPaths
  <1>4. path # Root => Lineage(path) = { path } \cup Lineage(ParentPath(path))
    BY <1>1, LineageOfChild
  <1> QED
    BY <1>1, <1>2, <1>3, <1>4

\* A set of naturals has a least member.
LEMMA LeastNatural ==
    ASSUME NEW T \in SUBSET Nat, T # { }
    PROVE  \E n \in T : \A m \in T : n <= m
  <1>1. PICK n \in T : \A m \in T : ~ (<< m, n >> \in OpToRel(<, Nat))
    BY NatLessThanWellFounded, WFMin, Zenon
  <1>2. \A m \in T : ~ (m < n)
    BY <1>1 DEF OpToRel
  <1> QED
    BY <1>2

LEMMA RootLineage == Lineage(Root) = { Root } /\ Root \in Dirs /\ Root \in AllPaths
  <1>1. Root \in Dirs /\ Root \in Seq(STRING)
    BY PassAssumption
  <1>2. Root \in Lineage(Root)
    BY <1>1, LineageReflexive
  <1>3. \A above \in Lineage(Root) : above = Root
    <2> SUFFICES ASSUME NEW above \in Lineage(Root) PROVE above = Root
      OBVIOUS
    <2>1. Len(above) \in 0..Len(Root) /\ (Len(above) = Len(Root) => above = Root)
      BY <1>1, LineageTypes
    <2>2. Len(Root) = 0
      BY DEF Root
    <2> QED
      BY <2>1, <2>2
  <1> QED
    BY <1>1, <1>2, <1>3 DEF AllPaths

\* What lies above a path is a directory.
LEMMA LineageInDirs ==
    ASSUME NEW path \in AllPaths, NEW above \in Lineage(path)
    PROVE  above \in AllPaths /\ (above # path => above \in Dirs)
  <1> DEFINE Bad(p) == \E a \in Lineage(p) : a # p /\ a \notin Dirs
             T == { Len(p) : p \in { q \in AllPaths : Bad(q) } }
  <1>1. T \subseteq Nat
    <2>1. \A p \in AllPaths : Len(p) \in Nat
      BY PathFacts
    <2> QED
      BY <2>1
  <1>2. ASSUME T # {} PROVE FALSE
    <2>1. PICK n \in T : \A m \in T : n <= m
      BY <1>1, <1>2, LeastNatural
    <2>2. PICK p \in AllPaths : Bad(p) /\ n = Len(p)
      BY <2>1
    <2>3. PICK a \in Lineage(p) : a # p /\ a \notin Dirs
      BY <2>2
    <2>4. p # Root
      BY <2>3, RootLineage
    <2>5. ParentPath(p) \in Dirs /\ a \in Lineage(ParentPath(p))
      BY <2>3, <2>4, PathFacts
    <2>6. Bad(ParentPath(p)) /\ ParentPath(p) \in AllPaths
      BY <2>3, <2>5 DEF AllPaths
    <2>7. Len(ParentPath(p)) = Len(p) - 1 /\ Len(p) > 0 /\ p \in Seq(STRING)
      BY <2>2, <2>4, PathFacts, LineageOfChild
    <2>8. Len(ParentPath(p)) \in T
      BY <2>6
    <2> HIDE DEF T
    <2>9. n <= Len(ParentPath(p))
      BY <2>1, <2>8
    <2> QED
      BY <2>2, <2>7, <2>9
  <1>3. ~Bad(path)
    BY <1>2
  <1> QED
    BY <1>3 DEF AllPaths

\* The child of a directory towards a path below it.
LEMMA ChildToward ==
    ASSUME NEW path \in AllPaths, NEW dir \in Lineage(path), path # dir
    PROVE  \E child \in Lineage(path) : child \in AllPaths \ { Root } /\ ParentPath(child) = dir
  <1>1. path \in Seq(STRING)
    BY PathFacts
  <1>2. /\ dir \in Seq(STRING) /\ Len(dir) \in 0..Len(path)
        /\ dir = SubSeq(path, 1, Len(dir)) /\ Len(dir) # Len(path)
    BY <1>1, LineageTypes
  <1> DEFINE k == Len(dir) + 1
             child == SubSeq(path, 1, k)
  <1>3. k \in 0..Len(path) /\ Len(path) \in Nat /\ Len(dir) \in 0..k
    BY <1>1, <1>2
  <1>4. child \in Lineage(path)
    BY <1>3 DEF Lineage
  <1>5. Len(child) = k /\ SubSeq(child, 1, Len(dir)) = SubSeq(path, 1, Len(dir))
    BY <1>1, <1>3, PrefixOfPrefix
  <1>6. child \in AllPaths
    BY <1>4, LineageInDirs
  <1>7. child # Root
    <2>1. Len(Root) = 0
      BY DEF Root
    <2> QED
      BY <1>2, <1>5, <2>1
  <1>8. ParentPath(child) = dir
    <2>1. Len(child) - 1 = Len(dir)
      BY <1>2, <1>5
    <2> QED
      BY <1>2, <1>5, <2>1 DEF ParentPath
  <1> QED
    BY <1>4, <1>6, <1>7, <1>8

\* There is one such child.
LEMMA ChildIsUnique ==
    ASSUME NEW path \in AllPaths, NEW a \in Lineage(path), NEW b \in Lineage(path),
           a # Root, b # Root, ParentPath(a) = ParentPath(b)
    PROVE  a = b
  <1>1. path \in Seq(STRING)
    BY PathFacts
  <1>2. /\ a \in Seq(STRING) /\ b \in Seq(STRING)
        /\ a = SubSeq(path, 1, Len(a)) /\ b = SubSeq(path, 1, Len(b))
    BY <1>1, LineageTypes
  <1>3. /\ Len(ParentPath(a)) = Len(a) - 1 /\ Len(a) > 0
        /\ Len(ParentPath(b)) = Len(b) - 1 /\ Len(b) > 0
    BY <1>2, LineageOfChild
  <1>4. Len(a) \in Nat /\ Len(b) \in Nat
    BY <1>2, LenProperties
  <1>5. Len(a) = Len(b)
    BY <1>3, <1>4
  <1> QED
    BY <1>2, <1>5

\* Subtrees nest, and those of two entries of one directory are apart.
LEMMA WithinTransitive ==
    ASSUME NEW path \in AllPaths, NEW mid, NEW top,
           IsWithinSubtree(path, mid), IsWithinSubtree(mid, top)
    PROVE  IsWithinSubtree(path, top)
  BY PathFacts, LineageTransitive DEF IsWithinSubtree

LEMMA WithinLinear ==
    ASSUME NEW path \in AllPaths, NEW p, NEW q,
           IsWithinSubtree(path, p), IsWithinSubtree(path, q)
    PROVE  IsWithinSubtree(p, q) \/ IsWithinSubtree(q, p)
  <1>1. path \in Seq(STRING) /\ p \in Lineage(path) /\ q \in Lineage(path)
    BY PathFacts DEF IsWithinSubtree
  <1>2. Len(p) \in Nat /\ Len(q) \in Nat
    <2>1. p \in Seq(STRING) /\ q \in Seq(STRING)
      BY <1>1, LineageTypes
    <2> QED
      BY <2>1, LenProperties
  <1>3. CASE Len(q) <= Len(p)
    BY <1>1, <1>3, LineageLinear DEF IsWithinSubtree
  <1>4. CASE Len(p) <= Len(q)
    BY <1>1, <1>4, LineageLinear DEF IsWithinSubtree
  <1> QED
    BY <1>2, <1>3, <1>4

LEMMA WithinAntisymmetric ==
    ASSUME NEW p \in AllPaths, NEW q, IsWithinSubtree(p, q), IsWithinSubtree(q, p)
    PROVE  p = q
  BY PathFacts, LineageAntisymmetric DEF IsWithinSubtree

\* A child lies within its parent and not the other way round; what lies within the
\* child and is above something in the parent's tree, and so on.
LEMMA ChildWithin ==
    ASSUME NEW child \in AllPaths \ { Root }
    PROVE  /\ IsWithinSubtree(child, ParentPath(child))
           /\ ~IsWithinSubtree(ParentPath(child), child)
           /\ ParentPath(child) \in Dirs /\ ParentPath(child) # child
           /\ \A above : IsWithinSubtree(child, above) /\ above # child =>
                  IsWithinSubtree(ParentPath(child), above)
  <1>1. /\ Lineage(child) = { child } \cup Lineage(ParentPath(child))
        /\ child \notin Lineage(ParentPath(child)) /\ ParentPath(child) \in Dirs
    BY PathFacts
  <1>2. ParentPath(child) \in Lineage(ParentPath(child))
    BY <1>1, PathFacts DEF AllPaths
  <1> QED
    BY <1>1, <1>2 DEF IsWithinSubtree

-----------------------------------------------------------------------------
(* Stacks *)

IsStack(s) == \E T : s \in Seq(T)

LEMMA StackFacts ==
    ASSUME NEW s, IsStack(s)
    PROVE  Len(s) \in Nat /\ (s = << >> <=> Len(s) = 0)
  BY EmptySeq, LenProperties DEF IsStack

LEMMA StackPop ==
    ASSUME NEW s, IsStack(s), s # << >>
    PROVE  LET r == SubSeq(s, 1, Len(s) - 1)
           IN  /\ IsStack(r) /\ Len(r) = Len(s) - 1
               /\ \A i \in 1..Len(r) : r[i] = s[i]
  <1>1. PICK T : s \in Seq(T)
    BY DEF IsStack
  <1>2. Len(s) \in Nat /\ Len(s) > 0
    BY StackFacts
  <1> DEFINE r == SubSeq(s, 1, Len(s) - 1)
  <1>3. r \in Seq(T) /\ Len(r) = Len(s) - 1 /\ \A i \in 1..Len(r) : r[i] = s[i]
    <2>1. \A i \in 1..(Len(s) - 1) : s[i] \in T
      BY <1>1, <1>2, ElementOfSeq
    <2>2. Len(s) - 1 \in Nat /\ 1 \in Nat
      BY <1>2
    <2>3. /\ r \in Seq(T)
          /\ Len(r) = IF 1 <= Len(s) - 1 THEN (Len(s) - 1) - 1 + 1 ELSE 0
          /\ \A i \in 1..((Len(s) - 1) - 1 + 1) : r[i] = s[1 + i - 1]
      BY <2>1, <2>2, SubSeqProperties
    <2> HIDE DEF r
    <2>4. PICK n \in Nat : Len(s) = n + 1
      BY <1>2
    <2>5. Len(r) = IF 1 <= n THEN n - 1 + 1 ELSE 0
      BY <2>3, <2>4
    <2>6. Len(r) = n
      BY <2>5
    <2>7. \A i \in 1..n : r[i] = s[i]
      <3> SUFFICES ASSUME NEW i \in 1..n PROVE r[i] = s[i]
        OBVIOUS
      <3>1. i \in 1..((Len(s) - 1) - 1 + 1) /\ 1 + i - 1 = i
        BY <2>4
      <3> QED
        BY <2>3, <3>1
    <2> QED
      BY <2>3, <2>4, <2>6, <2>7
  <1> QED
    BY <1>3 DEF IsStack

LEMMA StackAppend ==
    ASSUME NEW s, IsStack(s), NEW x
    PROVE  LET r == Append(s, x)
           IN  /\ IsStack(r) /\ Len(r) = Len(s) + 1 /\ r[Len(s) + 1] = x
               /\ \A i \in 1..Len(s) : r[i] = s[i]
  <1>1. PICK T : s \in Seq(T)
    BY DEF IsStack
  <1> DEFINE U == T \cup { x }
  <1>2. s \in Seq(U)
    <2>1. Len(s) \in Nat /\ s \in [1..Len(s) -> U]
      BY <1>1, LenProperties
    <2> QED
      BY <2>1
  <1>3. /\ Append(s, x) \in Seq(U) /\ Len(Append(s, x)) = Len(s) + 1
        /\ Append(s, x)[Len(s) + 1] = x
        /\ \A i \in 1..Len(s) : Append(s, x)[i] = s[i]
    BY <1>2, AppendProperties
  <1> QED
    BY <1>3 DEF IsStack

\* The innermost activation in another state.
LEMMA StackReplace ==
    ASSUME NEW s, IsStack(s), s # << >>, NEW x
    PROVE  LET r == Append(SubSeq(s, 1, Len(s) - 1), x)
           IN  /\ IsStack(r) /\ Len(r) = Len(s) /\ r # << >> /\ r[Len(s)] = x
               /\ \A i \in 1..(Len(s) - 1) : r[i] = s[i]
  <1> DEFINE q == SubSeq(s, 1, Len(s) - 1)
             r == Append(q, x)
  <1>1. IsStack(q) /\ Len(q) = Len(s) - 1 /\ \A i \in 1..Len(q) : q[i] = s[i]
    BY StackPop
  <1>2. Len(s) \in Nat /\ Len(s) > 0
    BY StackFacts
  <1> HIDE DEF q
  <1>3. /\ IsStack(r) /\ Len(r) = Len(q) + 1 /\ r[Len(q) + 1] = x
        /\ \A i \in 1..Len(q) : r[i] = q[i]
    BY <1>1, StackAppend
  <1> HIDE DEF r
  <1>4. Len(r) = Len(s) /\ r[Len(s)] = x
    BY <1>1, <1>2, <1>3
  <1>5. \A i \in 1..(Len(s) - 1) : r[i] = s[i]
    BY <1>1, <1>3
  <1>6. r # << >>
    BY <1>2, <1>3, <1>4, StackFacts
  <1> QED
    BY <1>3, <1>4, <1>5, <1>6 DEF r, q

\* One more on top.
LEMMA StackPush ==
    ASSUME NEW q, IsStack(q), NEW y
    PROVE  /\ IsStack(q \o << y >>) /\ Len(q \o << y >>) = Len(q) + 1
           /\ (q \o << y >>)[Len(q) + 1] = y
           /\ \A i \in 1..Len(q) : (q \o << y >>)[i] = q[i]
  <1> DEFINE r == Append(q, y)
  <1>1. q \o << y >> = r
    <2>1. PICK T : q \in Seq(T)
      BY DEF IsStack
    <2>2. q \in Seq(T \cup { y })
      <3>1. Len(q) \in Nat /\ q \in [1..Len(q) -> T \cup { y }]
        BY <2>1, LenProperties
      <3> QED
        BY <3>1
    <2> QED
      BY <2>2, AppendIsConcat
  <1>2. /\ IsStack(r) /\ Len(r) = Len(q) + 1 /\ r[Len(q) + 1] = y
        /\ \A i \in 1..Len(q) : r[i] = q[i]
    BY StackAppend
  <1> HIDE DEF r
  <1> QED
    BY <1>1, <1>2

-----------------------------------------------------------------------------
(* Rows *)

Outcomes == { "none", "pending", "done", "error", "stopped" }

IsSum(checksum) == checksum = {} \/ \E sum : checksum = { sum }

IsRow(row) ==
    /\ \E Sums : row \in [outcome : Outcomes, unreadable : BOOLEAN, checksum : Sums,
                          resolved : BOOLEAN]
    /\ IsSum(row.checksum)

IsTable(table) ==
    /\ table = [side \in Side |-> [dir \in Dirs |-> table[side][dir]]]
    /\ \A side \in Side, dir \in Dirs : IsRow(table[side][dir])

FactRow ==
    [size : Nat, version : 0..3, partial : Content \cup {0}, full : Content \cup {0},
     failed : BOOLEAN]

LEMMA NoNodeIsRow ==
    IsRow(NoNode) /\ NoNode.outcome = "none" /\ NoNode.checksum = {} /\ ~NoNode.resolved
  BY DEF IsRow, IsSum, NoNode, Outcomes

LEMMA PendingRow ==
    ASSUME NEW row, IsRow(row)
    PROVE  /\ IsRow(Pending(row)) /\ Pending(row).outcome = "pending"
           /\ ~Pending(row).unreadable
           /\ Pending(row).checksum = row.checksum /\ Pending(row).resolved = row.resolved
  <1> DEFINE new == Pending(row)
  <1>1. PICK Sums : row \in [outcome : Outcomes, unreadable : BOOLEAN, checksum : Sums,
                             resolved : BOOLEAN]
    BY DEF IsRow
  <1>2. /\ new \in [outcome : Outcomes, unreadable : BOOLEAN, checksum : Sums,
                    resolved : BOOLEAN]
        /\ new.outcome = "pending" /\ new.unreadable = FALSE
        /\ new.checksum = row.checksum /\ new.resolved = row.resolved
    BY <1>1 DEF Pending, Outcomes
  <1> HIDE DEF new
  <1> QED
    BY <1>2 DEF IsRow, new

LEMMA OwnResultRow ==
    ASSUME NEW row, IsRow(row), NEW outcome \in { "done", "error" }, NEW unreadable \in BOOLEAN
    PROVE  LET new == OwnResult(row, outcome, unreadable)
           IN  /\ IsRow(new)
               /\ new.checksum = row.checksum /\ new.resolved = row.resolved
               /\ new.outcome = "none" <=> row.outcome = "none"
               /\ row.outcome = "pending" =>
                    new.outcome = outcome /\ new.unreadable = unreadable
               /\ row.outcome # "pending" => new = row
  <1> DEFINE new == OwnResult(row, outcome, unreadable)
  <1>1. CASE row.outcome # "pending"
    BY <1>1 DEF OwnResult
  <1>2. CASE row.outcome = "pending"
    <2>1. PICK Sums : row \in [outcome : Outcomes, unreadable : BOOLEAN, checksum : Sums,
                               resolved : BOOLEAN]
      BY DEF IsRow
    <2>2. /\ new \in [outcome : Outcomes, unreadable : BOOLEAN, checksum : Sums,
                      resolved : BOOLEAN]
          /\ new.outcome = outcome /\ new.unreadable = unreadable
          /\ new.checksum = row.checksum /\ new.resolved = row.resolved
      BY <1>2, <2>1 DEF OwnResult, Outcomes
    <2> HIDE DEF new
    <2>3. IsRow(new)
      BY <2>2 DEF IsRow
    <2> QED
      BY <1>2, <2>2, <2>3 DEF new
  <1> QED
    BY <1>1, <1>2

LEMMA ClearedRow ==
    ASSUME NEW row, IsRow(row)
    PROVE  /\ IsRow(ClearedNode(row)) /\ ClearedNode(row).outcome = row.outcome
           /\ ClearedNode(row).unreadable = row.unreadable
           /\ ClearedNode(row).checksum = {} /\ ~ClearedNode(row).resolved
  <1> DEFINE new == ClearedNode(row)
  <1>1. PICK Sums : row \in [outcome : Outcomes, unreadable : BOOLEAN, checksum : Sums,
                             resolved : BOOLEAN]
    BY DEF IsRow
  <1>2. /\ new \in [outcome : Outcomes, unreadable : BOOLEAN, checksum : Sums \cup { {} },
                    resolved : BOOLEAN]
        /\ new.outcome = row.outcome /\ new.unreadable = row.unreadable
        /\ new.checksum = {} /\ new.resolved = FALSE
    BY <1>1 DEF ClearedNode
  <1> HIDE DEF new
  <1> QED
    BY <1>2 DEF IsRow, IsSum, new

LEMMA ResultRow ==
    ASSUME NEW row, IsRow(row), NEW checksum, IsSum(checksum),
           NEW failed \in BOOLEAN
    PROVE  LET new == DirectoryResult(row, checksum, failed)
           IN  /\ IsRow(new) /\ new.outcome = row.outcome
               /\ row.outcome = "none" => new = row
               /\ row.outcome # "none" => /\ new.checksum = checksum /\ new.resolved
                                          /\ new.unreadable = (row.unreadable \/ failed)
  <1> DEFINE new == [row EXCEPT !.checksum = checksum, !.resolved = TRUE,
                                !.unreadable = @ \/ failed]
  <1>1. PICK Sums : row \in [outcome : Outcomes, unreadable : BOOLEAN, checksum : Sums,
                             resolved : BOOLEAN]
    BY DEF IsRow
  <1>2. /\ new \in [outcome : Outcomes, unreadable : BOOLEAN, checksum : Sums \cup { checksum },
                    resolved : BOOLEAN]
        /\ new.outcome = row.outcome /\ new.unreadable = (row.unreadable \/ failed)
        /\ new.checksum = checksum /\ new.resolved = TRUE
    BY <1>1
  <1> HIDE DEF new
  <1>3. IsRow(new)
    BY <1>2 DEF IsRow
  <1>4. DirectoryResult(row, checksum, failed) = IF row.outcome = "none" THEN row ELSE new
    BY DEF DirectoryResult, new
  <1> QED
    BY <1>2, <1>3, <1>4

LEMMA ResolvedRow ==
    ASSUME NEW row, IsRow(row), NEW also \in BOOLEAN
    PROVE  LET new == [row EXCEPT !.resolved = @ \/ also]
           IN  /\ IsRow(new) /\ new.outcome = row.outcome
               /\ new.checksum = row.checksum /\ new.unreadable = row.unreadable
               /\ new.resolved = (row.resolved \/ also)
  <1> DEFINE new == [row EXCEPT !.resolved = @ \/ also]
  <1>1. PICK Sums : row \in [outcome : Outcomes, unreadable : BOOLEAN, checksum : Sums,
                             resolved : BOOLEAN]
    BY DEF IsRow
  <1>2. /\ new \in [outcome : Outcomes, unreadable : BOOLEAN, checksum : Sums,
                    resolved : BOOLEAN]
        /\ new.outcome = row.outcome /\ new.unreadable = row.unreadable
        /\ new.checksum = row.checksum /\ new.resolved = (row.resolved \/ also)
    BY <1>1
  <1> HIDE DEF new
  <1> QED
    BY <1>2 DEF IsRow, new

\* What Stop and a restart do to one row.
LEMMA StoppedRow ==
    ASSUME NEW row, IsRow(row)
    PROVE  LET new == IF row.outcome = "pending" THEN [row EXCEPT !.outcome = "stopped"]
                      ELSE row
           IN  /\ IsRow(new)
               /\ new.outcome = IF row.outcome = "pending" THEN "stopped" ELSE row.outcome
  <1> DEFINE new == [row EXCEPT !.outcome = "stopped"]
  <1>1. PICK Sums : row \in [outcome : Outcomes, unreadable : BOOLEAN, checksum : Sums,
                             resolved : BOOLEAN]
    BY DEF IsRow
  <1>2. /\ new \in [outcome : Outcomes, unreadable : BOOLEAN, checksum : Sums,
                    resolved : BOOLEAN]
        /\ new.outcome = "stopped" /\ new.checksum = row.checksum
    BY <1>1 DEF Outcomes
  <1> HIDE DEF new
  <1>3. IsRow(new)
    BY <1>2 DEF IsRow
  <1> QED
    BY <1>2, <1>3 DEF new

\* A child's row after the listing and the loop.
LEMMA ListedRow ==
    ASSUME NEW row, IsRow(row)
    PROVE  /\ IsRow(ChildRow(row)) /\ ChildRow(row).outcome # "none"
           /\ ~stopMark => ChildRow(row) = Pending(row)
  <1>1. CASE ~stopMark
    BY <1>1, PendingRow DEF ChildRow
  <1>2. CASE stopMark
    <2> DEFINE listed == Pending(row)
               new == [listed EXCEPT !.outcome = "stopped"]
    <2>1. IsRow(listed) /\ listed.outcome = "pending"
      BY PendingRow
    <2> HIDE DEF listed
    <2>2. IsRow(new) /\ new.outcome = "stopped"
      <3> DEFINE either == IF listed.outcome = "pending" THEN new ELSE listed
      <3>1. IsRow(either) /\ either.outcome = "stopped"
        BY <2>1, StoppedRow
      <3>2. either = new
        BY <2>1
      <3> HIDE DEF either, new
      <3> QED
        BY <3>1, <3>2
    <2>3. ChildRow(row) = new
      BY <1>2 DEF ChildRow, listed
    <2> QED
      BY <1>2, <2>2, <2>3
  <1> QED
    BY <1>1, <1>2

\* What a failed read does to the rows of its path, if there are any.
LEMMA UnreadRows ==
    /\ \A row : IsRow(row) => IsRow(UnreadDir(row)) /\ UnreadDir(row).outcome = row.outcome
    /\ \A row \in FactRow : UnreadFile(row) \in FactRow /\ UnreadFile(row).version = row.version
  <1>1. ASSUME NEW row, IsRow(row)
        PROVE  IsRow(UnreadDir(row)) /\ UnreadDir(row).outcome = row.outcome
    <2> DEFINE new == [row EXCEPT !.unreadable = TRUE]
    <2>1. PICK Sums : row \in [outcome : Outcomes, unreadable : BOOLEAN, checksum : Sums,
                               resolved : BOOLEAN]
      BY <1>1 DEF IsRow
    <2>2. /\ new \in [outcome : Outcomes, unreadable : BOOLEAN, checksum : Sums,
                      resolved : BOOLEAN]
          /\ new.outcome = row.outcome /\ new.checksum = row.checksum
      BY <2>1
    <2> HIDE DEF new
    <2>3. IsRow(new)
      BY <1>1, <2>2 DEF IsRow
    <2>4. UnreadDir(row) \in { row, new }
      BY DEF UnreadDir, new
    <2> QED
      BY <1>1, <2>2, <2>3, <2>4
  <1>2. ASSUME NEW row \in FactRow
        PROVE  UnreadFile(row) \in FactRow /\ UnreadFile(row).version = row.version
    BY DEF UnreadFile, FactRow
  <1> QED
    BY <1>1, <1>2

\* A table with one row in another state.
LEMMA TableUpdate ==
    ASSUME NEW table, IsTable(table), NEW at1 \in Side, NEW at2 \in Dirs, NEW row, IsRow(row)
    PROVE  LET new == [table EXCEPT ![at1][at2] = row]
           IN  /\ IsTable(new)
               /\ \A side \in Side, dir \in Dirs :
                     new[side][dir] = IF side = at1 /\ dir = at2 THEN row ELSE table[side][dir]
  <1> DEFINE new == [table EXCEPT ![at1][at2] = row]
  <1>1. table = [side \in Side |-> [dir \in Dirs |-> table[side][dir]]]
    BY DEF IsTable
  <1>2. \A side \in Side, dir \in Dirs :
            new[side][dir] = IF side = at1 /\ dir = at2 THEN row ELSE table[side][dir]
    BY <1>1
  <1>3. new = [side \in Side |-> [dir \in Dirs |-> new[side][dir]]]
    BY <1>1
  <1> HIDE DEF new
  <1>4. \A side \in Side, dir \in Dirs : IsRow(new[side][dir])
    BY <1>2 DEF IsTable
  <1> QED
    BY <1>2, <1>3, <1>4 DEF new, IsTable

-----------------------------------------------------------------------------
(* Activations *)

IsFrame(frame) ==
    /\ \E Sums : frame \in [dir : Dirs, entered : BOOLEAN, todo : SUBSET AllPaths,
                            same : BOOLEAN, errs : SUBSET Side, kids : Sums]
    /\ \A path \in frame.todo : path # Root /\ ParentPath(path) = frame.dir
    /\ ~frame.entered => frame.todo = {} /\ frame.same /\ frame.errs = {}

\* Each activation but the innermost waits for the one above it.
IsNest(s) ==
    /\ IsStack(s)
    /\ \A i \in 1..Len(s) : IsFrame(s[i])
    /\ \A i \in 1..(Len(s) - 1) :
          /\ s[i].entered
          /\ s[i + 1].dir # Root /\ ParentPath(s[i + 1].dir) = s[i].dir
          /\ s[i + 1].dir \notin s[i].todo
    /\ s # << >> => s[1].dir = Root

LEMMA FrameTypes ==
    ASSUME NEW frame, IsFrame(frame)
    PROVE  /\ frame.dir \in Dirs /\ frame.entered \in BOOLEAN
           /\ frame.todo \subseteq AllPaths /\ frame.same \in BOOLEAN
           /\ frame.errs \subseteq Side
           /\ \A path \in frame.todo : path # Root /\ ParentPath(path) = frame.dir
           /\ ~frame.entered => frame.todo = {} /\ frame.same /\ frame.errs = {}
  <1>1. PICK Sums : frame \in [dir : Dirs, entered : BOOLEAN, todo : SUBSET AllPaths,
                               same : BOOLEAN, errs : SUBSET Side, kids : Sums]
    BY DEF IsFrame
  <1>2. /\ frame.dir \in Dirs /\ frame.entered \in BOOLEAN
        /\ frame.todo \subseteq AllPaths /\ frame.same \in BOOLEAN
        /\ frame.errs \subseteq Side
    BY <1>1
  <1> QED
    BY <1>2 DEF IsFrame

LEMMA NewFrame ==
    ASSUME NEW dir \in Dirs
    PROVE  LET frame == Activation(dir)
           IN  /\ IsFrame(frame) /\ frame.dir = dir /\ ~frame.entered
               /\ frame.todo = {} /\ frame.same /\ frame.errs = {}
  <1> DEFINE frame == Activation(dir)
  <1>1. /\ frame \in [dir : Dirs, entered : BOOLEAN, todo : SUBSET AllPaths,
                      same : BOOLEAN, errs : SUBSET Side, kids : { {} }]
        /\ frame.dir = dir /\ frame.entered = FALSE
        /\ frame.todo = {} /\ frame.same = TRUE /\ frame.errs = {}
    BY DEF Activation
  <1> HIDE DEF frame
  <1> QED
    BY <1>1 DEF IsFrame, frame

\* The innermost activation after one result more.
LEMMA TakenFrame ==
    ASSUME NEW frame, IsFrame(frame), frame.entered, NEW path, NEW kind, NEW checksum,
           NEW errs \in SUBSET Side
    PROVE  LET new == Taken(frame, path, kind, checksum, errs)
           IN  /\ IsFrame(new) /\ new.dir = frame.dir /\ new.entered
               /\ new.todo = frame.todo
               /\ new.same = (frame.same /\ checksum # {})
               /\ new.errs = frame.errs \cup errs
  <1> DEFINE new == Taken(frame, path, kind, checksum, errs)
             more == { << Name(path), kind, value >> : value \in checksum }
  <1>1. PICK Sums : frame \in [dir : Dirs, entered : BOOLEAN, todo : SUBSET AllPaths,
                               same : BOOLEAN, errs : SUBSET Side, kids : Sums]
    BY DEF IsFrame
  <1>2. new = [frame EXCEPT !.same = @ /\ checksum # {}, !.errs = @ \cup errs,
                            !.kids = @ \cup more]
    BY DEF Taken
  <1> HIDE DEF more, new
  <1>3. /\ new \in [dir : Dirs, entered : BOOLEAN, todo : SUBSET AllPaths,
                    same : BOOLEAN, errs : SUBSET Side, kids : { frame.kids \cup more }]
        /\ new.dir = frame.dir /\ new.entered = frame.entered /\ new.todo = frame.todo
        /\ new.errs = frame.errs \cup errs
    BY <1>1, <1>2
  <1>4. new.same = (frame.same /\ checksum # {})
    BY <1>1, <1>2
  <1>5. IsFrame(new)
    <2>1. \E Some : new \in [dir : Dirs, entered : BOOLEAN, todo : SUBSET AllPaths,
                             same : BOOLEAN, errs : SUBSET Side, kids : Some]
      BY <1>3
    <2>2. \A path_1 \in new.todo : path_1 # Root /\ ParentPath(path_1) = new.dir
      BY <1>3, FrameTypes
    <2> QED
      BY <1>3, <2>1, <2>2 DEF IsFrame
  <1> QED
    BY <1>3, <1>4, <1>5 DEF new

\* It after one entry less.
LEMMA RestFrame ==
    ASSUME NEW frame, IsFrame(frame), NEW path
    PROVE  LET new == [frame EXCEPT !.todo = @ \ { path }]
           IN  /\ IsFrame(new) /\ new.dir = frame.dir /\ new.entered = frame.entered
               /\ new.todo = frame.todo \ { path }
               /\ new.same = frame.same /\ new.errs = frame.errs
  <1> DEFINE new == [frame EXCEPT !.todo = @ \ { path }]
  <1>1. PICK Sums : frame \in [dir : Dirs, entered : BOOLEAN, todo : SUBSET AllPaths,
                               same : BOOLEAN, errs : SUBSET Side, kids : Sums]
    BY DEF IsFrame
  <1>2. /\ new \in [dir : Dirs, entered : BOOLEAN, todo : SUBSET AllPaths,
                    same : BOOLEAN, errs : SUBSET Side, kids : Sums]
        /\ new.dir = frame.dir /\ new.entered = frame.entered
        /\ new.todo = frame.todo \ { path }
        /\ new.same = frame.same /\ new.errs = frame.errs
    BY <1>1
  <1> HIDE DEF new
  <1>3. IsFrame(new)
    BY <1>2, FrameTypes DEF IsFrame
  <1> QED
    BY <1>2, <1>3 DEF new

LEMMA DifferentFrame ==
    ASSUME NEW frame, IsFrame(frame), frame.entered
    PROVE  LET new == [frame EXCEPT !.same = FALSE]
           IN  /\ IsFrame(new) /\ new.dir = frame.dir /\ new.entered
               /\ new.todo = frame.todo /\ ~new.same /\ new.errs = frame.errs
  <1> DEFINE new == [frame EXCEPT !.same = FALSE]
  <1>1. PICK Sums : frame \in [dir : Dirs, entered : BOOLEAN, todo : SUBSET AllPaths,
                               same : BOOLEAN, errs : SUBSET Side, kids : Sums]
    BY DEF IsFrame
  <1>2. /\ new \in [dir : Dirs, entered : BOOLEAN, todo : SUBSET AllPaths,
                    same : BOOLEAN, errs : SUBSET Side, kids : Sums]
        /\ new.dir = frame.dir /\ new.entered = frame.entered
        /\ new.todo = frame.todo
        /\ new.same = FALSE /\ new.errs = frame.errs
    BY <1>1
  <1> HIDE DEF new
  <1>3. IsFrame(new)
    BY <1>2, FrameTypes DEF IsFrame
  <1> QED
    BY <1>2, <1>3 DEF new

\* It when its loop begins.
OpenFrame(frame, todo, errs) ==
    [frame EXCEPT !.entered = TRUE, !.todo = todo, !.errs = errs]

LEMMA EnteredFrame ==
    ASSUME NEW frame, IsFrame(frame), NEW todo \in SUBSET AllPaths, NEW errs \in SUBSET Side,
           \A path \in todo : path # Root /\ ParentPath(path) = frame.dir
    PROVE  LET new == OpenFrame(frame, todo, errs)
           IN  /\ IsFrame(new) /\ new.dir = frame.dir /\ new.entered
               /\ new.todo = todo /\ new.same = frame.same /\ new.errs = errs
  <1> DEFINE new == OpenFrame(frame, todo, errs)
  <1>1. PICK Sums : frame \in [dir : Dirs, entered : BOOLEAN, todo : SUBSET AllPaths,
                               same : BOOLEAN, errs : SUBSET Side, kids : Sums]
    BY DEF IsFrame
  <1>2. /\ new \in [dir : Dirs, entered : BOOLEAN, todo : SUBSET AllPaths,
                    same : BOOLEAN, errs : SUBSET Side, kids : Sums]
        /\ new.dir = frame.dir /\ new.entered = TRUE
        /\ new.todo = todo /\ new.same = frame.same /\ new.errs = errs
    BY <1>1 DEF OpenFrame
  <1> HIDE DEF new
  <1>3. IsFrame(new)
    BY <1>2 DEF IsFrame
  <1> QED
    BY <1>2, <1>3 DEF new

\* The innermost activation in another state of the same directory.
LEMMA NestReplace ==
    ASSUME NEW s, IsNest(s), s # << >>, NEW x, IsFrame(x), x.dir = s[Len(s)].dir
    PROVE  LET r == Append(SubSeq(s, 1, Len(s) - 1), x)
           IN  /\ IsNest(r) /\ Len(r) = Len(s) /\ r # << >> /\ r[Len(s)] = x
               /\ \A i \in 1..(Len(s) - 1) : r[i] = s[i]
  <1> DEFINE r == Append(SubSeq(s, 1, Len(s) - 1), x)
  <1>1. /\ IsStack(r) /\ Len(r) = Len(s) /\ r # << >> /\ r[Len(s)] = x
        /\ \A i \in 1..(Len(s) - 1) : r[i] = s[i]
    BY StackReplace DEF IsNest
  <1>2. Len(s) \in Nat /\ Len(s) > 0
    BY StackFacts DEF IsNest
  <1> HIDE DEF r
  <1>3. \A i \in 1..Len(r) : IsFrame(r[i]) /\ r[i].dir = s[i].dir
    <2> SUFFICES ASSUME NEW i \in 1..Len(r) PROVE IsFrame(r[i]) /\ r[i].dir = s[i].dir
      OBVIOUS
    <2>1. i = Len(s) \/ i \in 1..(Len(s) - 1)
      BY <1>1, <1>2
    <2> QED
      BY <1>1, <2>1 DEF IsNest
  <1>4. \A i \in 1..(Len(r) - 1) :
            /\ r[i].entered
            /\ r[i + 1].dir # Root /\ ParentPath(r[i + 1].dir) = r[i].dir
            /\ r[i + 1].dir \notin r[i].todo
    <2> SUFFICES ASSUME NEW i \in 1..(Len(s) - 1)
                 PROVE  /\ r[i].entered
                        /\ r[i + 1].dir # Root /\ ParentPath(r[i + 1].dir) = r[i].dir
                        /\ r[i + 1].dir \notin r[i].todo
      BY <1>1
    <2>1. r[i] = s[i] /\ i + 1 \in 1..Len(r)
      BY <1>1, <1>2
    <2>2. r[i + 1].dir = s[i + 1].dir
      BY <1>3, <2>1
    <2> QED
      BY <2>1, <2>2 DEF IsNest
  <1>5. r[1].dir = Root
    BY <1>1, <1>2, <1>3 DEF IsNest
  <1>6. IsNest(r)
    BY <1>1, <1>3, <1>4, <1>5 DEF IsNest
  <1> QED
    BY <1>1, <1>6 DEF r

\* And the activation of one of its entries on top of it.
PushedOn(s, x, y) == Append(SubSeq(s, 1, Len(s) - 1), x) \o << y >>

MayBePushed(s, x, y) ==
    /\ IsNest(s) /\ s # << >>
    /\ IsFrame(x) /\ x.dir = s[Len(s)].dir /\ x.entered
    /\ IsFrame(y) /\ y.dir # Root /\ ParentPath(y.dir) = x.dir /\ y.dir \notin x.todo

LEMMA NestPush ==
    ASSUME NEW s, NEW x, NEW y, MayBePushed(s, x, y)
    PROVE  LET r == PushedOn(s, x, y)
           IN  /\ IsNest(r) /\ Len(r) = Len(s) + 1 /\ r # << >>
               /\ r[Len(s)] = x /\ r[Len(s) + 1] = y
               /\ \A i \in 1..(Len(s) - 1) : r[i] = s[i]
  <1> USE DEF MayBePushed
  <1> DEFINE q == Append(SubSeq(s, 1, Len(s) - 1), x)
             r == q \o << y >>
  <1>1. /\ IsNest(q) /\ Len(q) = Len(s) /\ q # << >> /\ q[Len(s)] = x
        /\ \A i \in 1..(Len(s) - 1) : q[i] = s[i]
    BY NestReplace
  <1>0. IsStack(q)
    BY <1>1 DEF IsNest
  <1> HIDE DEF q
  <1>2. /\ IsStack(r) /\ Len(r) = Len(q) + 1 /\ r[Len(q) + 1] = y
        /\ \A i \in 1..Len(q) : r[i] = q[i]
    BY <1>0, StackPush
  <1> HIDE DEF r
  <1>3. Len(s) \in Nat /\ Len(s) > 0
    BY StackFacts DEF IsNest
  <1>4. /\ \A i \in 1..Len(s) : r[i] = q[i]
        /\ r[Len(s)] = x /\ r[Len(s) + 1] = y /\ Len(r) = Len(s) + 1
        /\ \A i \in 1..(Len(s) - 1) : r[i] = s[i]
    BY <1>1, <1>2, <1>3
  <1>9. r # << >>
    BY <1>2, <1>4, <1>3, <1>4, StackFacts
  <1>5. \A i \in 1..Len(r) : IsFrame(r[i])
    <2> SUFFICES ASSUME NEW i \in 1..Len(r) PROVE IsFrame(r[i])
      OBVIOUS
    <2>1. i = Len(s) + 1 \/ i \in 1..Len(s)
      BY <1>2, <1>4, <1>3
    <2> QED
      BY <1>1, <1>4, <2>1 DEF IsNest
  <1>6. \A i \in 1..(Len(r) - 1) :
            /\ r[i].entered
            /\ r[i + 1].dir # Root /\ ParentPath(r[i + 1].dir) = r[i].dir
            /\ r[i + 1].dir \notin r[i].todo
    <2> SUFFICES ASSUME NEW i \in 1..Len(s)
                 PROVE  /\ r[i].entered
                        /\ r[i + 1].dir # Root /\ ParentPath(r[i + 1].dir) = r[i].dir
                        /\ r[i + 1].dir \notin r[i].todo
      BY <1>2, <1>4, <1>3
    <2>1. CASE i = Len(s)
      BY <1>2, <1>4, <2>1
    <2>2. CASE i \in 1..(Len(s) - 1)
      <3>1. i + 1 \in 1..Len(s) /\ i \in 1..(Len(q) - 1)
        BY <1>1, <1>3, <2>2
      <3> QED
        BY <1>1, <1>4, <3>1 DEF IsNest
    <2> QED
      BY <1>3, <2>1, <2>2
  <1>7. r[1].dir = Root
    BY <1>1, <1>3, <1>4 DEF IsNest
  <1>8. IsNest(r)
    BY <1>2, <1>5, <1>6, <1>7 DEF IsNest
  <1> QED
    BY <1>4, <1>8, <1>9 DEF q, r, PushedOn

\* The innermost one returns to the one below it.
ReturnedFrom(s, checksum, errs) ==
    LET q == SubSeq(s, 1, Len(s) - 1)
    IN  IF q = << >> THEN << >>
        ELSE [q EXCEPT ![Len(q)] = Taken(@, s[Len(s)].dir, "directory", checksum, errs)]

LEMMA NestReturn ==
    ASSUME NEW s, IsNest(s), s # << >>, NEW checksum, NEW errs \in SUBSET Side
    PROVE  LET r == ReturnedFrom(s, checksum, errs)
           IN  /\ IsNest(r) /\ Len(r) = Len(s) - 1 /\ (r = << >> <=> Len(s) = 1)
               /\ \A i \in 1..(Len(s) - 2) : r[i] = s[i]
               /\ Len(s) > 1 => r[Len(s) - 1] =
                     Taken(s[Len(s) - 1], s[Len(s)].dir, "directory", checksum, errs)
  <1> DEFINE q == SubSeq(s, 1, Len(s) - 1)
             top == Taken(q[Len(q)], s[Len(s)].dir, "directory", checksum, errs)
             full == [q EXCEPT ![Len(q)] = top]
             r == IF q = << >> THEN << >> ELSE full
  <1>0. r = ReturnedFrom(s, checksum, errs)
    BY DEF ReturnedFrom
  <1> SUFFICES /\ IsNest(r) /\ Len(r) = Len(s) - 1 /\ (r = << >> <=> Len(s) = 1)
               /\ \A i \in 1..(Len(s) - 2) : r[i] = s[i]
               /\ Len(s) > 1 => r[Len(s) - 1] =
                    Taken(s[Len(s) - 1], s[Len(s)].dir, "directory", checksum, errs)
    BY <1>0, Zenon
  <1>1. IsStack(q) /\ Len(q) = Len(s) - 1 /\ \A i \in 1..Len(q) : q[i] = s[i]
    BY StackPop DEF IsNest
  <1>2. Len(s) \in Nat /\ Len(s) > 0 /\ (q = << >> <=> Len(q) = 0) /\ Len(q) \in Nat
    <2>1. Len(q) \in Nat /\ (q = << >> <=> Len(q) = 0)
      BY <1>1, StackFacts
    <2>2. Len(s) \in Nat /\ Len(s) > 0
      BY StackFacts DEF IsNest
    <2> QED
      BY <2>1, <2>2
  <1>3. PICK n \in Nat : Len(s) = n + 1
    BY <1>2
  <1>4. Len(q) = n
    BY <1>1, <1>3
  <1> HIDE DEF q, top
  <1>5. CASE n = 0
    <2>1. r = << >> /\ Len(r) = 0
      BY <1>2, <1>4, <1>5
    <2>2. IsNest(r)
      <3>1. r \in Seq({}) /\ 1..0 = {}
        BY <2>1
      <3>2. IsStack(r)
        BY <3>1 DEF IsStack
      <3>3. 1..Len(r) = {} /\ 1..(Len(r) - 1) = {}
        BY <2>1
      <3> QED
        BY <2>1, <3>2, <3>3 DEF IsNest
    <2>3. Len(s) = 1 /\ Len(s) - 2 = -1
      BY <1>3, <1>5
    <2> QED
      BY <2>1, <2>2, <2>3 DEF q, top
  <1>6. CASE n # 0
    <2>1. n \in 1..n /\ n > 0 /\ n - 1 \in Nat
      BY <1>6
    <2>2. r = full /\ q # << >>
      BY <1>2, <1>4, <1>6
    <2>3. /\ IsStack(full) /\ Len(full) = n /\ full[n] = top
          /\ \A i \in 1..(n - 1) : full[i] = q[i]
      <3>1. PICK T : q \in Seq(T)
        BY <1>1 DEF IsStack
      <3>2. q \in [1..n -> T \cup { top }]
        <4>1. q \in [1..n -> T]
          BY <1>4, <3>1, LenProperties
        <4> QED
          BY <4>1
      <3>3. full \in [1..n -> T \cup { top }]
        BY <1>4, <3>2
      <3>4. full \in Seq(T \cup { top })
        <4> HIDE DEF full
        <4> QED
          BY <3>3, SeqDef
      <3>5. Len(full) = n
        BY <3>3, <3>4, LenProperties
      <3>6. full[n] = top /\ \A i \in 1..(n - 1) : full[i] = q[i]
        BY <1>4, <2>1, <3>2
      <3> QED
        BY <3>4, <3>5, <3>6 DEF IsStack
    <2>4. /\ IsFrame(q[n]) /\ q[n].entered /\ q[n] = s[n]
      BY <1>1, <1>3, <1>4, <2>1 DEF IsNest
    <2>5. IsFrame(top) /\ top.dir = q[n].dir /\ top.entered /\ top.todo = q[n].todo
      BY <1>4, <2>4, TakenFrame DEF top
    <2>6. \A i \in 1..n : /\ IsFrame(full[i]) /\ full[i].dir = s[i].dir
                          /\ full[i].entered = s[i].entered /\ full[i].todo = s[i].todo
      <3> SUFFICES ASSUME NEW i \in 1..n
                   PROVE  /\ IsFrame(full[i]) /\ full[i].dir = s[i].dir
                          /\ full[i].entered = s[i].entered /\ full[i].todo = s[i].todo
        OBVIOUS
      <3>1. CASE i = n
        <4>1. full[i] = top /\ s[i] = q[n]
          BY <2>3, <2>4, <3>1
        <4>2. IsFrame(s[i]) /\ s[i].entered
          BY <2>4, <4>1
        <4>3. s[i].entered = TRUE /\ top.entered = TRUE
          BY <2>5, <4>2, FrameTypes
        <4> QED
          BY <2>5, <4>1, <4>3
      <3>2. CASE i \in 1..(n - 1)
        <4>1. i \in 1..Len(s) /\ full[i] = s[i]
          BY <1>1, <1>3, <1>4, <2>3, <3>2
        <4> QED
          BY <4>1 DEF IsNest
      <3> QED
        BY <3>1, <3>2
    <2>7. \A i \in 1..(n - 1) :
             /\ full[i].entered
             /\ full[i + 1].dir # Root /\ ParentPath(full[i + 1].dir) = full[i].dir
             /\ full[i + 1].dir \notin full[i].todo
      <3> SUFFICES ASSUME NEW i \in 1..(n - 1)
                   PROVE  /\ full[i].entered
                          /\ full[i + 1].dir # Root /\ ParentPath(full[i + 1].dir) = full[i].dir
                          /\ full[i + 1].dir \notin full[i].todo
        OBVIOUS
      <3>1. i \in 1..n /\ i + 1 \in 1..n /\ i \in 1..(Len(s) - 1)
        BY <1>3
      <3> QED
        BY <2>6, <3>1 DEF IsNest
    <2>8. full[1].dir = Root
      <3>1. s[1].dir = Root
        BY DEF IsNest
      <3>2. 1 \in 1..n
        BY <2>1
      <3> QED
        BY <2>6, <3>1, <3>2
    <2> HIDE DEF full
    <2>9. IsNest(full)
      BY <2>3, <2>6, <2>7, <2>8 DEF IsNest
    <2>10. full # << >>
      BY <2>1, <2>3, StackFacts
    <2>11. \A i \in 1..(n - 1) : full[i] = s[i]
      BY <1>1, <1>4, <2>3
    <2>12. Len(s) - 2 = n - 1 /\ Len(s) - 1 = n /\ Len(s) # 1
      BY <1>3, <1>6
    <2>13. full[n] = Taken(s[n], s[Len(s)].dir, "directory", checksum, errs)
      BY <1>4, <2>3, <2>4 DEF top
    <2>14. full = [q EXCEPT ![Len(q)] = Taken(@, s[Len(s)].dir, "directory", checksum, errs)]
      BY DEF full, top
    <2> QED
      BY <2>2, <2>3, <2>9, <2>10, <2>11, <2>12, <2>13, <2>14 DEF q
  <1> QED
    BY <1>5, <1>6

\* What innermost activation one can see to be on top.
LEMMA NestTop ==
    ASSUME NEW s, IsNest(s), s # << >>
    PROVE  /\ Len(s) \in Nat /\ Len(s) > 0 /\ Len(s) \in 1..Len(s)
           /\ IsFrame(s[Len(s)]) /\ s[Len(s)].dir \in Dirs
  <1>1. Len(s) \in Nat /\ Len(s) > 0
    BY StackFacts DEF IsNest
  <1>2. Len(s) \in 1..Len(s)
    BY <1>1
  <1>3. IsFrame(s[Len(s)])
    BY <1>2 DEF IsNest
  <1> QED
    BY <1>1, <1>2, <1>3, FrameTypes

LEMMA EmptyNest == IsNest(<< >>)
  <1> DEFINE s == << >>
  <1>1. s \in Seq({}) /\ Len(s) = 0
    OBVIOUS
  <1>2. IsStack(s)
    BY <1>1 DEF IsStack
  <1>3. 1..Len(s) = {} /\ 1..(Len(s) - 1) = {}
    BY <1>1
  <1> QED
    BY <1>2, <1>3 DEF IsNest

LEMMA RootNest ==
    LET s == << Activation(Root) >>
    IN  IsNest(s) /\ s # << >> /\ Len(s) = 1 /\ s[1] = Activation(Root)
  <1> DEFINE a == Activation(Root)
             s == << a >>
  <1>1. IsFrame(a) /\ a.dir = Root
    BY NewFrame, RootLineage
  <1> HIDE DEF a
  <1>2. s \in Seq({ a }) /\ Len(s) = 1 /\ s[1] = a /\ s # << >>
    OBVIOUS
  <1> HIDE DEF s
  <1>3. IsStack(s)
    BY <1>2 DEF IsStack
  <1>4. 1..Len(s) = { 1 } /\ 1..(Len(s) - 1) = {}
    BY <1>2
  <1>5. IsNest(s)
    BY <1>1, <1>2, <1>3, <1>4 DEF IsNest
  <1> QED
    BY <1>2, <1>5 DEF s, a

-----------------------------------------------------------------------------
(* What each action does to the rows *)

RowsInv == IsTable(node) /\ facts \in [Side -> [Files -> FactRow]]

LEMMA StoppedTable ==
    ASSUME IsTable(node), node' = StoppedRows(node)
    PROVE  /\ IsTable(node')
           /\ \A side \in Side, dir \in Dirs :
                 node'[side][dir].outcome =
                     IF node[side][dir].outcome = "pending" THEN "stopped"
                     ELSE node[side][dir].outcome
  <1>1. node' = [side \in Side |-> [dir \in Dirs |->
            IF node[side][dir].outcome = "pending"
              THEN [node[side][dir] EXCEPT !.outcome = "stopped"]
              ELSE node[side][dir]]]
    BY DEF StoppedRows
  <1>2. \A side \in Side, dir \in Dirs : node'[side][dir] =
            IF node[side][dir].outcome = "pending"
              THEN [node[side][dir] EXCEPT !.outcome = "stopped"]
              ELSE node[side][dir]
    BY <1>1, Zenon
  <1>3. ASSUME NEW side \in Side, NEW dir \in Dirs
        PROVE  /\ IsRow(node'[side][dir])
               /\ node'[side][dir].outcome =
                     IF node[side][dir].outcome = "pending" THEN "stopped"
                     ELSE node[side][dir].outcome
    <2>1. IsRow(node[side][dir])
      BY DEF IsTable
    <2> DEFINE row == node[side][dir]
    <2> HIDE DEF row
    <2>2. IsRow(row)
      BY <2>1 DEF row
    <2>3. node'[side][dir] = IF row.outcome = "pending" THEN [row EXCEPT !.outcome = "stopped"]
                             ELSE row
      BY <1>2 DEF row
    <2>4. /\ IsRow(node'[side][dir])
          /\ node'[side][dir].outcome = IF row.outcome = "pending" THEN "stopped" ELSE row.outcome
      BY <2>2, <2>3, StoppedRow
    <2> QED
      BY <2>4 DEF row
  <1>4. node' = [side \in Side |-> [dir \in Dirs |-> node'[side][dir]]]
    BY <1>1, Zenon
  <1> QED
    BY <1>3, <1>4, Zenon DEF IsTable

\* A full comparison clears what Pass 2 left; both roots become pending.
LEMMA CompareRows ==
    ASSUME RowsInv, NEW m \in Modes, Compare(m)
    PROVE  /\ RowsInv'
           /\ \A side \in Side, dir \in Dirs :
                 LET old == node[side][dir]
                     new == node'[side][dir]
                 IN  /\ new.outcome = IF dir = Root THEN "pending" ELSE old.outcome
                     /\ dir # Root => new.unreadable = old.unreadable
                     /\ m = "full" => new.checksum = {} /\ ~new.resolved
                     /\ m # "full" => new.checksum = old.checksum /\ new.resolved = old.resolved
           /\ \A side \in Side, file \in Files :
                 LET old == facts[side][file]
                     new == facts'[side][file]
                 IN  /\ new.size = old.size /\ new.version = old.version
                     /\ new.failed = old.failed
                     /\ m = "full" => new.partial = 0 /\ new.full = 0
                     /\ m # "full" => new = old
  <1> DEFINE Begun(row) == IF m = "full" THEN ClearedNode(row) ELSE row
  <1>1. node' = [side \in Side |-> [dir \in Dirs |->
                    IF dir = Root THEN Pending(Begun(node[side][dir]))
                    ELSE Begun(node[side][dir])]]
    BY DEF Compare
  <1>2. ASSUME NEW side \in Side, NEW dir \in Dirs
        PROVE  node'[side][dir] = IF dir = Root THEN Pending(Begun(node[side][dir]))
                                  ELSE Begun(node[side][dir])
    BY <1>1, Zenon
  <1>3. ASSUME NEW side \in Side, NEW dir \in Dirs
        PROVE  LET old == node[side][dir]
                   new == node'[side][dir]
               IN  /\ IsRow(new)
                   /\ new.outcome = IF dir = Root THEN "pending" ELSE old.outcome
                   /\ dir # Root => new.unreadable = old.unreadable
                   /\ m = "full" => new.checksum = {} /\ ~new.resolved
                   /\ m # "full" => new.checksum = old.checksum /\ new.resolved = old.resolved
    <2>1. IsRow(node[side][dir])
      BY DEF IsTable, RowsInv
    <2> DEFINE old == node[side][dir]
               mid == Begun(old)
    <2> HIDE DEF old, mid
    <2>2. IsRow(old)
      BY <2>1 DEF old
    <2>3. /\ IsRow(mid) /\ mid.outcome = old.outcome /\ mid.unreadable = old.unreadable
          /\ m = "full" => mid.checksum = {} /\ ~mid.resolved
          /\ m # "full" => mid.checksum = old.checksum /\ mid.resolved = old.resolved
      <3>1. CASE m = "full"
        BY <2>2, <3>1, ClearedRow DEF mid
      <3>2. CASE m # "full"
        BY <2>2, <3>2 DEF mid
      <3> QED
        BY <3>1, <3>2
    <2>4. node'[side][dir] = IF dir = Root THEN Pending(mid) ELSE mid
      BY <1>2 DEF old, mid
    <2>5. CASE dir = Root
      BY <2>3, <2>4, <2>5, PendingRow DEF old
    <2>6. CASE dir # Root
      BY <2>3, <2>4, <2>6 DEF old
    <2> QED
      BY <2>5, <2>6
  <1>4. IsTable(node')
    <2>1. node' = [side \in Side |-> [dir \in Dirs |-> node'[side][dir]]]
      BY <1>1, Zenon
    <2>2. \A side \in Side, dir \in Dirs : IsRow(node'[side][dir])
      BY <1>3
    <2> QED
      BY <2>1, <2>2, Zenon DEF IsTable
  <1>5. facts' = IF m # "full" THEN facts
                 ELSE [side \in Side |-> [file \in Files |-> ClearedFacts(facts[side][file])]]
    BY DEF Compare
  <1>6. ASSUME NEW side \in Side, NEW file \in Files
        PROVE  LET old == facts[side][file]
                   new == facts'[side][file]
               IN  /\ new \in FactRow
                   /\ new.size = old.size /\ new.version = old.version
                   /\ new.failed = old.failed
                   /\ m = "full" => new.partial = 0 /\ new.full = 0
                   /\ m # "full" => new = old
    <2>1. facts[side][file] \in FactRow
      BY DEF RowsInv
    <2> DEFINE old == facts[side][file]
    <2> HIDE DEF old
    <2>2. CASE m = "full"
      <3>1. facts'[side][file] = ClearedFacts(old)
        BY <1>5, <2>2, Zenon DEF old
      <3>2. old \in FactRow
        BY <2>1 DEF old
      <3>3. /\ ClearedFacts(old) \in FactRow
            /\ ClearedFacts(old).size = old.size /\ ClearedFacts(old).version = old.version
            /\ ClearedFacts(old).failed = old.failed
            /\ ClearedFacts(old).partial = 0 /\ ClearedFacts(old).full = 0
        BY <3>2 DEF ClearedFacts, FactRow
      <3> QED
        BY <2>2, <3>1, <3>3 DEF old
    <2>3. CASE m # "full"
      BY <1>5, <2>1, <2>3
    <2> QED
      BY <2>2, <2>3
  <1>7. facts' \in [Side -> [Files -> FactRow]]
    <2>1. CASE m = "full"
      <3>1. facts' = [side \in Side |-> [file \in Files |-> ClearedFacts(facts[side][file])]]
        BY <1>5, <2>1
      <3>2. \A side \in Side, file \in Files : ClearedFacts(facts[side][file]) \in FactRow
        <4> SUFFICES ASSUME NEW side \in Side, NEW file \in Files
                     PROVE  ClearedFacts(facts[side][file]) \in FactRow
          OBVIOUS
        <4>1. facts'[side][file] = ClearedFacts(facts[side][file])
          BY <3>1, Zenon
        <4> QED
          BY <1>6, <4>1
      <3> QED
        BY <3>1, <3>2
    <2>2. CASE m # "full"
      BY <1>5, <2>2 DEF RowsInv
    <2> QED
      BY <2>1, <2>2
  <1> QED
    BY <1>3, <1>4, <1>6, <1>7 DEF RowsInv

TreesInv ==
    /\ disk \in [Side -> [Files -> [content : Content \cup {0}, version : 0..3]]]
    /\ dirs \in [Side -> SUBSET Dirs]
    /\ ignored \subseteq Side \X AllPaths
    /\ \A side \in Side, file \in Files : disk[side][file] # NoFile =>
          /\ disk[side][file].content # 0 /\ disk[side][file].version # 0
          /\ file \notin dirs[side]
    /\ \A side \in Side, path \in AllPaths \ { Root } :
          Holds(side, path) => ParentPath(path) \in dirs[side]

\* What one listing sees, and what it forgets.
FilesSeen(side, dir, hidden) == { file \in ChildrenOf(dir, Files) : disk[side][file] # NoFile } \ hidden
Kids(side, dir) == ChildrenOf(dir, dirs[side])
Forgotten(side, dir, path) ==
    \E top \in ChildrenOf(dir, KnownDirs(side)) \ Kids(side, dir) : IsWithinSubtree(path, top)

LEMMA NoFactsIsRow ==
    /\ NoFacts \in FactRow /\ NoFacts.version = 0 /\ NoFacts.partial = 0
    /\ NoFacts.full = 0 /\ ~NoFacts.failed
  BY DEF NoFacts, FactRow

\* The facts of a file that is on disk.
LEMMA ListedFacts ==
    ASSUME TreesInv, NEW row \in FactRow, NEW side \in Side, NEW file \in Files,
           disk[side][file] # NoFile
    PROVE  LET new == FileFacts(row, disk[side][file])
               there == disk[side][file]
           IN  /\ there.content \in Content /\ there.version # 0
               /\ new \in FactRow
               /\ new.version = there.version /\ new.size = SizeOf[there.content]
               /\ \/ new = row
                  \/ new.partial = 0 /\ new.full = 0 /\ ~new.failed
  <1> DEFINE there == disk[side][file]
             size == SizeOf[there.content]
             new == FileFacts(row, there)
  <1>1. there.content \in Content /\ there.version \in 0..3 /\ there.version # 0
    BY DEF TreesInv
  <1>2. size \in Nat
    BY <1>1, PassAssumption
  <1> HIDE DEF there, size
  <1>3. FreshFacts(there) = [NoFacts EXCEPT !.size = size, !.version = there.version]
    BY DEF FreshFacts, size
  <1>4. /\ FreshFacts(there) \in FactRow
        /\ FreshFacts(there).size = size /\ FreshFacts(there).version = there.version
        /\ FreshFacts(there).partial = 0 /\ FreshFacts(there).full = 0
        /\ ~FreshFacts(there).failed
    <2>1. there.version \in 0..3
      BY <1>1
    <2> DEFINE version == there.version
    <2> HIDE DEF version
    <2>2. version \in 0..3 /\ FreshFacts(there) = [NoFacts EXCEPT !.size = size, !.version = version]
      BY <1>3, <2>1 DEF version
    <2>3. NoFacts \in FactRow
      BY NoFactsIsRow
    <2>4. /\ FreshFacts(there) \in FactRow
          /\ FreshFacts(there).size = size /\ FreshFacts(there).version = version
          /\ FreshFacts(there).partial = NoFacts.partial /\ FreshFacts(there).full = NoFacts.full
          /\ FreshFacts(there).failed = NoFacts.failed
      BY <1>2, <2>2, <2>3 DEF FactRow
    <2> QED
      BY <2>4, NoFactsIsRow DEF version
  <1>5. CASE row.version = there.version /\ row.size = size
    <2>1. new = row
      BY <1>5 DEF FileFacts, size
    <2> QED
      BY <1>1, <1>5, <2>1 DEF there, size
  <1>6. CASE ~(row.version = there.version /\ row.size = size)
    <2>1. new = FreshFacts(there)
      BY <1>6 DEF FileFacts, size
    <2> QED
      BY <1>1, <1>4, <2>1 DEF there, size
  <1> QED
    BY <1>5, <1>6

\* A listing that stops before it looks.
LEMMA OnlyRecordRows ==
    ASSUME RowsInv, NEW side \in Side, NEW dir \in Dirs, NEW outcome \in { "done", "error" },
           OnlyRecord(side, dir, outcome)
    PROVE  /\ RowsInv'
           /\ node'[side][dir] = OwnResult(node[side][dir], outcome, FALSE)
           /\ \A s \in Side, d \in Dirs :
                 s # side \/ d # dir => node'[s][d] = node[s][d]
           /\ facts' = facts
  <1> DEFINE row == OwnResult(node[side][dir], outcome, FALSE)
  <1>1. IsRow(row)
    <2>1. IsRow(node[side][dir])
      BY DEF RowsInv, IsTable
    <2> QED
      BY <2>1, OwnResultRow
  <1>2. node' = [node EXCEPT ![side][dir] = row] /\ facts' = facts
    BY DEF OnlyRecord
  <1> HIDE DEF row
  <1>3. /\ IsTable(node')
        /\ \A s \in Side, d \in Dirs :
              node'[s][d] = IF s = side /\ d = dir THEN row ELSE node[s][d]
    <2>1. IsTable(node)
      BY DEF RowsInv
    <2> DEFINE new == [node EXCEPT ![side][dir] = row]
    <2>2. /\ IsTable(new)
          /\ \A s \in Side, d \in Dirs :
                new[s][d] = IF s = side /\ d = dir THEN row ELSE node[s][d]
      BY <1>1, <2>1, TableUpdate
    <2>3. node' = new
      BY <1>2
    <2> HIDE DEF new
    <2> QED
      BY <2>2, <2>3
  <1>4. RowsInv'
    BY <1>2, <1>3 DEF RowsInv
  <1>5. /\ node'[side][dir] = row /\ facts' = facts
        /\ \A s \in Side, d \in Dirs : s # side \/ d # dir => node'[s][d] = node[s][d]
    BY <1>2, <1>3
  <1> QED
    BY <1>4, <1>5, Zenon DEF row

\* A listing: its own row and those of what it finds, and what it forgets.
LEMMA ListChildrenRows ==
    ASSUME RowsInv, TreesInv, NEW side \in Side, NEW dir \in Dirs, NEW hidden,
           ListChildren(side, dir, hidden)
    PROVE  /\ RowsInv'
           /\ \A d \in Dirs : node'[side][d] =
                 IF d = dir THEN OwnResult(node[side][d], "done", hidden # {})
                 ELSE IF d \in Kids(side, dir) THEN ChildRow(node[side][d])
                 ELSE IF Forgotten(side, dir, d) THEN NoNode
                 ELSE node[side][d]
           /\ \A file \in Files : facts'[side][file] =
                 IF file \in FilesSeen(side, dir, hidden)
                   THEN FileFacts(facts[side][file], disk[side][file])
                 ELSE IF ParentPath(file) = dir \/ Forgotten(side, dir, file) THEN NoFacts
                 ELSE facts[side][file]
           /\ \A s \in Side \ { side } : node'[s] = node[s] /\ facts'[s] = facts[s]
  <1> DEFINE NewNode(d) == IF d = dir THEN OwnResult(node[side][d], "done", hidden # {})
                           ELSE IF d \in Kids(side, dir) THEN ChildRow(node[side][d])
                           ELSE IF Forgotten(side, dir, d) THEN NoNode
                           ELSE node[side][d]
             NewFacts(file) == IF file \in FilesSeen(side, dir, hidden)
                                 THEN FileFacts(facts[side][file], disk[side][file])
                               ELSE IF ParentPath(file) = dir \/ Forgotten(side, dir, file)
                                 THEN NoFacts
                               ELSE facts[side][file]
             someNode == [d \in Dirs |-> NewNode(d)]
             someFacts == [file \in Files |-> NewFacts(file)]
  <1>1. node' = [node EXCEPT ![side] = someNode]
    BY DEF ListChildren, Kids, Forgotten
  <1>2. facts' = [facts EXCEPT ![side] = someFacts]
    BY DEF ListChildren, Kids, Forgotten, FilesSeen
  <1>3. \A d \in Dirs : IsRow(NewNode(d))
    <2> SUFFICES ASSUME NEW d \in Dirs PROVE IsRow(NewNode(d))
      OBVIOUS
    <2>1. IsRow(node[side][d])
      BY DEF RowsInv, IsTable
    <2>2. IsRow(OwnResult(node[side][d], "done", hidden # {}))
      BY <2>1, OwnResultRow
    <2>3. IsRow(ChildRow(node[side][d]))
      BY <2>1, ListedRow
    <2> QED
      BY <2>1, <2>2, <2>3, NoNodeIsRow
  <1>4. \A file \in Files : NewFacts(file) \in FactRow
    <2> SUFFICES ASSUME NEW file \in Files PROVE NewFacts(file) \in FactRow
      OBVIOUS
    <2>1. facts[side][file] \in FactRow
      BY DEF RowsInv
    <2>2. ASSUME file \in FilesSeen(side, dir, hidden)
          PROVE  FileFacts(facts[side][file], disk[side][file]) \in FactRow
      BY <2>1, <2>2, ListedFacts DEF FilesSeen
    <2> QED
      BY <2>1, <2>2, NoFactsIsRow
  <1>5. \A d \in Dirs : someNode[d] = NewNode(d)
    OBVIOUS
  <1>6. \A file \in Files : someFacts[file] = NewFacts(file)
    OBVIOUS
  <1>7. someNode = [d \in Dirs |-> someNode[d]] /\ someFacts \in [Files -> FactRow]
    <2>1. someFacts \in [Files -> FactRow]
      BY <1>4
    <2> QED
      BY <2>1
  <1> HIDE DEF NewNode, NewFacts, someNode, someFacts
  <1>8. node = [s \in Side |-> [d \in Dirs |-> node[s][d]]]
    BY DEF RowsInv, IsTable
  <1>9. node'[side] = someNode /\ \A s \in Side \ { side } : node'[s] = node[s]
    BY <1>1, <1>8
  <1>10. facts' \in [Side -> [Files -> FactRow]] /\ facts'[side] = someFacts
         /\ \A s \in Side \ { side } : facts'[s] = facts[s]
    BY <1>2, <1>7 DEF RowsInv
  <1>11. IsTable(node')
    <2>1. \A s \in Side, d \in Dirs : IsRow(node'[s][d])
      <3> SUFFICES ASSUME NEW s \in Side, NEW d \in Dirs PROVE IsRow(node'[s][d])
        OBVIOUS
      <3>1. CASE s = side
        BY <1>3, <1>5, <1>9, <3>1
      <3>2. CASE s # side
        BY <1>9, <3>2 DEF RowsInv, IsTable
      <3> QED
        BY <3>1, <3>2
    <2>2. node' = [s \in Side |-> [d \in Dirs |-> node'[s][d]]]
      <3>1. \A s \in Side : node'[s] = [d \in Dirs |-> node'[s][d]]
        <4> SUFFICES ASSUME NEW s \in Side PROVE node'[s] = [d \in Dirs |-> node'[s][d]]
          OBVIOUS
        <4>1. CASE s = side
          BY <1>7, <1>9, <4>1
        <4>2. CASE s # side
          <5>1. node[s] = [d \in Dirs |-> node[s][d]]
            BY <1>8
          <5> QED
            BY <1>9, <4>2, <5>1
        <4> QED
          BY <4>1, <4>2
      <3>2. node' = [s \in Side |-> node'[s]]
        BY <1>1, <1>8
      <3> QED
        BY <3>1, <3>2
    <2> QED
      BY <2>1, <2>2, Zenon DEF IsTable
  <1>12. RowsInv'
    BY <1>10, <1>11 DEF RowsInv
  <1>13. \A d \in Dirs : node'[side][d] = NewNode(d)
    BY <1>5, <1>9
  <1>14. \A file \in Files : facts'[side][file] = NewFacts(file)
    BY <1>6, <1>10
  <1> QED
    BY <1>9, <1>10, <1>12, <1>13, <1>14 DEF NewNode, NewFacts

\* A cache hit marks the rows below it.
LEMMA CacheHitRows ==
    ASSUME RowsInv, NEW dir,
           node' = [side \in Side |-> [below \in Dirs |->
               [node[side][below] EXCEPT !.resolved =
                   @ \/ (IsWithinSubtree(below, dir) /\ node[side][below].checksum # {})]]],
           facts' = facts
    PROVE  /\ RowsInv'
           /\ \A side \in Side, d \in Dirs :
                 LET old == node[side][d]
                     new == node'[side][d]
                 IN  /\ new.outcome = old.outcome /\ new.unreadable = old.unreadable
                     /\ new.checksum = old.checksum
                     /\ new.resolved = (old.resolved \/
                                          (IsWithinSubtree(d, dir) /\ old.checksum # {}))
  <1>1. ASSUME NEW side \in Side, NEW d \in Dirs
        PROVE  LET old == node[side][d]
                   new == node'[side][d]
               IN  /\ IsRow(new)
                   /\ new.outcome = old.outcome /\ new.unreadable = old.unreadable
                   /\ new.checksum = old.checksum
                   /\ new.resolved = (old.resolved \/
                                        (IsWithinSubtree(d, dir) /\ old.checksum # {}))
    <2>1. IsRow(node[side][d])
      BY DEF RowsInv, IsTable
    <2>2. node'[side][d] = [node[side][d] EXCEPT !.resolved =
                   @ \/ (IsWithinSubtree(d, dir) /\ node[side][d].checksum # {})]
      BY Zenon
    <2> DEFINE also == IsWithinSubtree(d, dir) /\ node[side][d].checksum # {}
    <2>3. also \in BOOLEAN
      OBVIOUS
    <2> HIDE DEF also
    <2>4. node'[side][d] = [node[side][d] EXCEPT !.resolved = @ \/ also]
      BY <2>2 DEF also
    <2>5. /\ IsRow(node'[side][d])
          /\ node'[side][d].outcome = node[side][d].outcome
          /\ node'[side][d].unreadable = node[side][d].unreadable
          /\ node'[side][d].checksum = node[side][d].checksum
          /\ node'[side][d].resolved = (node[side][d].resolved \/ also)
      <3> DEFINE row == node[side][d]
                 new == [row EXCEPT !.resolved = @ \/ also]
      <3>1. IsRow(row) /\ node'[side][d] = new
        BY <2>1, <2>4
      <3> HIDE DEF row
      <3>2. /\ IsRow(new) /\ new.outcome = row.outcome
            /\ new.checksum = row.checksum /\ new.unreadable = row.unreadable
            /\ new.resolved = (row.resolved \/ also)
        BY <2>3, <3>1, ResolvedRow, Zenon
      <3> HIDE DEF new
      <3> QED
        BY <3>1, <3>2 DEF row
    <2> QED
      BY <2>5 DEF also
  <1>2. node' = [side \in Side |-> [d \in Dirs |-> node'[side][d]]]
    BY Zenon
  <1>3. \A side \in Side, d \in Dirs : IsRow(node'[side][d])
    BY <1>1
  <1>4. IsTable(node')
    BY <1>2, <1>3, Zenon DEF IsTable
  <1> QED
    BY <1>1, <1>4 DEF RowsInv

\* The result of a pair of directories is put on both sides.
LEMMA FinishRows ==
    ASSUME RowsInv, IsNest(frames), FinishDir
    PROVE  LET checksum == IF Top.same /\ Top.errs = {} THEN { Top.kids } ELSE {}
           IN  /\ RowsInv'
               /\ \A side \in Side, file \in Files :
                    facts'[side][file] = IF file = Top.dir /\ side \in Top.errs
                                           THEN UnreadFile(facts[side][file])
                                         ELSE facts[side][file]
               /\ \A side \in Side, d \in Dirs :
                    IF d # Top.dir \/ node[side][d].outcome = "none"
                      THEN node'[side][d] = node[side][d]
                    ELSE /\ node'[side][d].outcome = node[side][d].outcome
                         /\ node'[side][d].unreadable =
                               (node[side][d].unreadable \/ side \in Top.errs)
                         /\ node'[side][d].checksum = checksum
                         /\ node'[side][d].resolved
  <1> DEFINE checksum == IF Top.same /\ Top.errs = {} THEN { Top.kids } ELSE {}
  <1>1. IsSum(checksum)
    BY DEF IsSum
  <1>2. frames # << >> /\ Top.dir \in Dirs
    BY NestTop DEF FinishDir, Loops, Top
  <1>3. /\ node' = [side \in Side |-> [node[side] EXCEPT ![Top.dir] =
                       DirectoryResult(@, checksum, side \in Top.errs)]]
        /\ facts' = [side \in Side |-> [file \in Files |->
                       IF file = Top.dir /\ side \in Top.errs THEN UnreadFile(facts[side][file])
                       ELSE facts[side][file]]]
    BY DEF FinishDir
  <1> HIDE DEF checksum
  <1>4. node = [side \in Side |-> [d \in Dirs |-> node[side][d]]]
    BY DEF RowsInv, IsTable
  <1>5. ASSUME NEW side \in Side
        PROVE  /\ node'[side] = [node[side] EXCEPT ![Top.dir] =
                                    DirectoryResult(@, checksum, side \in Top.errs)]
               /\ node[side] = [d \in Dirs |-> node[side][d]]
    <2>1. node'[side] = [node[side] EXCEPT ![Top.dir] =
                            DirectoryResult(@, checksum, side \in Top.errs)]
      BY <1>3, Zenon
    <2>2. node[side] = [d \in Dirs |-> node[side][d]]
      BY <1>4, Zenon
    <2> QED
      BY <2>1, <2>2
  <1>6. ASSUME NEW side \in Side, NEW d \in Dirs
        PROVE  node'[side][d] = IF d = Top.dir
                                  THEN DirectoryResult(node[side][d], checksum, side \in Top.errs)
                                ELSE node[side][d]
    <2> DEFINE row == DirectoryResult(node[side][Top.dir], checksum, side \in Top.errs)
    <2> HIDE DEF row
    <2>1. node'[side] = [node[side] EXCEPT ![Top.dir] = row]
      BY <1>5 DEF row
    <2>2. node[side] = [e \in Dirs |-> node[side][e]]
      BY <1>5
    <2>3. node'[side][d] = IF d = Top.dir THEN row ELSE node[side][d]
      BY <1>2, <2>1, <2>2
    <2> QED
      BY <2>3 DEF row
  <1>7. ASSUME NEW side \in Side
        PROVE  LET new == DirectoryResult(node[side][Top.dir], checksum, side \in Top.errs)
                   row == node[side][Top.dir]
               IN  /\ IsRow(new) /\ new.outcome = row.outcome
                   /\ row.outcome = "none" => new = row
                   /\ row.outcome # "none" =>
                        /\ new.checksum = checksum /\ new.resolved
                        /\ new.unreadable = (row.unreadable \/ side \in Top.errs)
    <2>1. IsRow(node[side][Top.dir])
      BY <1>2 DEF RowsInv, IsTable
    <2> DEFINE failed == side \in Top.errs
               row == node[side][Top.dir]
    <2>2. failed \in BOOLEAN /\ IsRow(row)
      BY <2>1
    <2> HIDE DEF failed, row
    <2>3. LET new == DirectoryResult(row, checksum, failed)
          IN  /\ IsRow(new) /\ new.outcome = row.outcome
              /\ row.outcome = "none" => new = row
              /\ row.outcome # "none" =>
                   /\ new.checksum = checksum /\ new.resolved
                   /\ new.unreadable = (row.unreadable \/ failed)
      BY <1>1, <2>2, ResultRow
    <2> QED
      BY <2>3, Zenon DEF failed, row
  <1>8. IsTable(node')
    <2>1. \A side \in Side, d \in Dirs : IsRow(node'[side][d])
      <3> SUFFICES ASSUME NEW side \in Side, NEW d \in Dirs PROVE IsRow(node'[side][d])
        OBVIOUS
      <3>1. CASE d = Top.dir
        BY <1>6, <1>7, <3>1
      <3>2. CASE d # Top.dir
        BY <1>6, <3>2 DEF RowsInv, IsTable
      <3> QED
        BY <3>1, <3>2
    <2>2. node' = [side \in Side |-> [d \in Dirs |-> node'[side][d]]]
      <3>1. \A side \in Side : node'[side] = [d \in Dirs |-> node'[side][d]]
        <4> SUFFICES ASSUME NEW side \in Side
                     PROVE  node'[side] = [d \in Dirs |-> node'[side][d]]
          OBVIOUS
        <4> DEFINE row == DirectoryResult(node[side][Top.dir], checksum, side \in Top.errs)
        <4> HIDE DEF row
        <4>1. node'[side] = [node[side] EXCEPT ![Top.dir] = row]
          BY <1>5 DEF row
        <4>2. node[side] = [d \in Dirs |-> node[side][d]]
          BY <1>5
        <4> QED
          BY <4>1, <4>2
      <3>2. node' = [side \in Side |-> node'[side]]
        BY <1>3, Zenon
      <3> QED
        BY <3>1, <3>2
    <2> QED
      BY <2>1, <2>2, Zenon DEF IsTable
  <1>9. \A side \in Side, d \in Dirs :
            IF d # Top.dir \/ node[side][d].outcome = "none"
              THEN node'[side][d] = node[side][d]
            ELSE /\ node'[side][d].outcome = node[side][d].outcome
                 /\ node'[side][d].unreadable = (node[side][d].unreadable \/ side \in Top.errs)
                 /\ node'[side][d].checksum = checksum
                 /\ node'[side][d].resolved
    BY <1>6, <1>7
  <1>10. \A side \in Side, file \in Files :
            /\ facts'[side][file] = IF file = Top.dir /\ side \in Top.errs
                                      THEN UnreadFile(facts[side][file])
                                    ELSE facts[side][file]
            /\ facts'[side][file] \in FactRow
    BY <1>3, UnreadRows DEF RowsInv
  <1>11. facts' \in [Side -> [Files -> FactRow]]
    BY <1>3, <1>10
  <1> QED
    BY <1>8, <1>9, <1>10, <1>11 DEF RowsInv, checksum

-----------------------------------------------------------------------------
(* The types of the state *)

\* What Pass 1 has to list is pending, and nothing of it lies below another. Under
\* the mark of a Stop it is one of the roots, or the listing in flight.
ListInv ==
    /\ toList \in [Side -> SUBSET Dirs]
    /\ \A side \in Side : \A dir \in toList[side] :
          IF stopMark THEN dir = Root ELSE node[side][dir].outcome = "pending"
    /\ \A side \in Side : \A a, b \in toList[side] : IsWithinSubtree(a, b) => a = b
    /\ at # "listing" => \A side \in Side : toList[side] = {}
    /\ stopMark \in BOOLEAN /\ leftover \subseteq Side \X Dirs
    /\ leftover # {} => stopMark

\* What an activation holds are rows.
HeldInv ==
    /\ held = [dir \in Dirs |-> held[dir]]
    /\ \A dir \in Dirs : IsTable(held[dir].node)
                        /\ held[dir].facts \in [Side -> [Files -> FactRow]]

Pairs == [file : Files, errs : SUBSET Side,
          seen : [Side -> [size : Nat, partial : Content \cup {0}, full : Content \cup {0}]]]

\* A pair of files is compared for the innermost activation, once.
PairInv ==
    /\ pair # NoPair =>
          /\ pair \in Pairs /\ pair.file # Root
          /\ frames # << >> /\ Top.entered
          /\ ParentPath(pair.file) = Top.dir /\ pair.file \notin Top.todo
    /\ at = "hash" => pair # NoPair /\ Unread # {}
    /\ at \in { "off", "listing" } => frames = << >>

ControlInv ==
    /\ at \in { "off", "listing", "run", "hash" } /\ mode \in { "incremental", "full" }
    /\ aborted \in BOOLEAN /\ clean \in BOOLEAN /\ quiet \in BOOLEAN /\ settled \in BOOLEAN
    /\ aborted => at \in { "run", "hash" } /\ ~clean
    /\ settled => Undisturbed
    /\ Undisturbed => ~stopMark
    /\ progress \in [processed : Nat, total : Nat]
    /\ events \in 0..MaxEvents

TInv == /\ TreesInv /\ RowsInv /\ ListInv /\ IsNest(frames) /\ PairInv /\ ControlInv
        /\ HeldInv

\* The world changes by the user's hand only.
LEMMA WorldSteps ==
    ASSUME [Next]_vars
    PROVE  \/ UNCHANGED worldVars
           \/ \E side \in Side, file \in MayEdit : Edit(side, file)
           \/ \E side \in Side, path \in MayDelete : Delete(side, path)
           \/ \E side, path : << side, path >> \in MayIgnore \cup ignored
                                /\ \E on \in BOOLEAN : SetIgnored(side, path, on)
  <1>1. CASE Pass1
    BY <1>1 DEF Pass1, StartPass2, List
  <1>2. CASE Pass2
    BY <1>2 DEF Pass2, Enter, ReadNext, HashSucceeds, HashFails, Cancel, PairDone,
       FinishDir, EndPass2, NextEntry
  <1>3. CASE Environment
    <2>1. CASE (\E m \in Modes : Compare(m)) \/ Stop \/ Restart
      BY <2>1 DEF Compare, Stop, Restart
    <2>2. ASSUME NEW entry \in MayIgnore, SetIgnored(entry[1], entry[2], TRUE)
          PROVE  \E side, path : << side, path >> \in MayIgnore \cup ignored
                                   /\ \E on \in BOOLEAN : SetIgnored(side, path, on)
      <3>1. entry = << entry[1], entry[2] >>
        BY PassAssumption
      <3> QED
        BY <2>2, <3>1
    <2>3. ASSUME NEW entry \in MayUnignore, SetIgnored(entry[1], entry[2], FALSE)
          PROVE  \E side, path : << side, path >> \in MayIgnore \cup ignored
                                   /\ \E on \in BOOLEAN : SetIgnored(side, path, on)
      <3>1. << entry[1], entry[2] >> \in ignored
        BY <2>3 DEF SetIgnored
      <3> QED
        BY <2>3, <3>1
    <2> QED
      BY <1>3, <2>1, <2>2, <2>3 DEF Environment
  <1>4. CASE UNCHANGED vars
    BY <1>4 DEF vars
  <1> QED
    BY <1>1, <1>2, <1>3, <1>4 DEF Next

\* A file that is written has a directory, and is none.
LEMMA TreesEdit ==
    ASSUME TreesInv, NEW side \in Side, NEW file \in MayEdit, Edit(side, file)
    PROVE  TreesInv'
  <1>1. /\ file \in Files /\ file \notin dirs[side] /\ ParentPath(file) \in dirs[side]
        /\ dirs' = dirs /\ ignored' = ignored
    BY PassAssumption DEF Edit
  <1>2. PICK content \in Content, version \in 1..3 :
            disk' = [disk EXCEPT ![side][file] = [content |-> content, version |-> version]]
    BY DEF Edit
  <1> DEFINE new == [content |-> content, version |-> version]
  <1>3. /\ new \in [content : Content \cup {0}, version : 0..3]
        /\ new.content # 0 /\ new.version # 0
    BY PassAssumption
  <1> HIDE DEF new
  <1>4. disk' = [disk EXCEPT ![side][file] = new]
    BY <1>2 DEF new
  <1>5. /\ disk' \in [Side -> [Files -> [content : Content \cup {0}, version : 0..3]]]
        /\ \A s \in Side, f \in Files :
              disk'[s][f] = IF s = side /\ f = file THEN new ELSE disk[s][f]
    BY <1>1, <1>3, <1>4 DEF TreesInv
  <1>6. \A s \in Side, f \in Files : disk'[s][f] # NoFile =>
            /\ disk'[s][f].content # 0 /\ disk'[s][f].version # 0
            /\ f \notin dirs[s]
    <2> SUFFICES ASSUME NEW s \in Side, NEW f \in Files, disk'[s][f] # NoFile
                 PROVE  /\ disk'[s][f].content # 0 /\ disk'[s][f].version # 0
                        /\ f \notin dirs[s]
      OBVIOUS
    <2>1. CASE s = side /\ f = file
      <3>1. disk'[s][f] = new
        BY <1>5, <2>1
      <3> QED
        BY <1>1, <1>3, <2>1, <3>1
    <2>2. CASE ~(s = side /\ f = file)
      <3>1. disk'[s][f] = disk[s][f]
        BY <1>5, <2>2
      <3> QED
        BY <3>1 DEF TreesInv
    <2> QED
      BY <2>1, <2>2
  <1>7. \A s \in Side, path \in AllPaths \ { Root } :
            Holds(s, path)' => ParentPath(path) \in dirs[s]
    <2> SUFFICES ASSUME NEW s \in Side, NEW path \in AllPaths \ { Root }, Holds(s, path)'
                 PROVE  ParentPath(path) \in dirs[s]
      OBVIOUS
    <2>1. CASE s = side /\ path = file
      BY <1>1, <2>1
    <2>2. CASE ~(s = side /\ path = file)
      <3>1. Holds(s, path)
        BY <1>1, <1>5, <2>2 DEF Holds
      <3> QED
        BY <3>1 DEF TreesInv
    <2> QED
      BY <2>1, <2>2
  <1> QED
    BY <1>1, <1>5, <1>6, <1>7 DEF TreesInv

\* What is deleted goes with all that is below it.
LEMMA TreesDelete ==
    ASSUME TreesInv, NEW side \in Side, NEW top \in MayDelete, Delete(side, top)
    PROVE  TreesInv'
  <1>1. ignored' = ignored
    BY DEF Delete
  <1> DEFINE left == [file \in Files |-> IF IsWithinSubtree(file, top) THEN NoFile
                                         ELSE disk[side][file]]
             kept == { dir \in dirs[side] : ~IsWithinSubtree(dir, top) }
  <1>2. disk' = [disk EXCEPT ![side] = left] /\ dirs' = [dirs EXCEPT ![side] = kept]
    BY DEF Delete
  <1>3. NoFile \in [content : Content \cup {0}, version : 0..3]
    BY DEF NoFile
  <1>4. /\ left \in [Files -> [content : Content \cup {0}, version : 0..3]]
        /\ \A file \in Files : left[file] = IF IsWithinSubtree(file, top) THEN NoFile
                                            ELSE disk[side][file]
    BY <1>3 DEF TreesInv
  <1>5. kept \in SUBSET Dirs /\ kept \subseteq dirs[side]
    BY DEF TreesInv
  <1>6. \A dir : dir \in kept <=> dir \in dirs[side] /\ ~IsWithinSubtree(dir, top)
    OBVIOUS
  <1> HIDE DEF left, kept
  <1>7. /\ disk' \in [Side -> [Files -> [content : Content \cup {0}, version : 0..3]]]
        /\ disk'[side] = left /\ \A s \in Side \ { side } : disk'[s] = disk[s]
    BY <1>2, <1>4 DEF TreesInv
  <1>8. /\ dirs' \in [Side -> SUBSET Dirs]
        /\ dirs'[side] = kept /\ \A s \in Side \ { side } : dirs'[s] = dirs[s]
    BY <1>2, <1>5 DEF TreesInv
  <1>9. ASSUME NEW s \in Side, NEW f \in Files, disk'[s][f] # NoFile
        PROVE  /\ disk'[s][f].content # 0 /\ disk'[s][f].version # 0
               /\ f \notin dirs'[s]
    <2>1. disk'[s][f] = disk[s][f] /\ dirs'[s] \subseteq dirs[s]
      BY <1>4, <1>5, <1>7, <1>8, <1>9
    <2> QED
      BY <1>9, <2>1 DEF TreesInv
  <1>10. ASSUME NEW s \in Side, NEW path \in AllPaths \ { Root }, Holds(s, path)'
         PROVE  ParentPath(path) \in dirs'[s]
    <2>1. Holds(s, path) /\ (s = side => ~IsWithinSubtree(path, top))
      BY <1>4, <1>6, <1>7, <1>8, <1>10 DEF Holds
    <2>2. ParentPath(path) \in dirs[s]
      BY <2>1 DEF TreesInv
    <2>3. CASE s # side
      BY <1>8, <2>2, <2>3
    <2>4. CASE s = side
      <3>1. ~IsWithinSubtree(ParentPath(path), top)
        <4>1. IsWithinSubtree(path, ParentPath(path))
          BY ChildWithin
        <4> QED
          BY <2>1, <2>4, <4>1, WithinTransitive
      <3> QED
        BY <1>6, <1>8, <2>2, <2>4, <3>1
    <2> QED
      BY <2>3, <2>4
  <1>11. \A s \in Side, path \in AllPaths \ { Root } :
             Holds(s, path)' => ParentPath(path) \in dirs'[s]
    BY <1>10
  <1> QED
    BY <1>1, <1>7, <1>8, <1>9, <1>11 DEF TreesInv

LEMMA TreesNext == TreesInv /\ [Next]_vars => TreesInv'
  <1> SUFFICES ASSUME TreesInv, [Next]_vars PROVE TreesInv'
    OBVIOUS
  <1>1. CASE UNCHANGED worldVars
    <2>1. \A side, path : Holds(side, path)' <=> Holds(side, path)
      BY <1>1 DEF Holds, worldVars
    <2> QED
      BY <1>1, <2>1 DEF TreesInv, worldVars
  <1>2. ASSUME NEW side, NEW path, << side, path >> \in MayIgnore \cup ignored,
               NEW on \in BOOLEAN, SetIgnored(side, path, on)
        PROVE  TreesInv'
    <2>1. /\ disk' = disk /\ dirs' = dirs
          /\ ignored' \in { ignored \cup { << side, path >> }, ignored \ { << side, path >> } }
      BY <1>2 DEF SetIgnored
    <2>2. << side, path >> \in Side \X AllPaths
      BY <1>2, PassAssumption DEF TreesInv, AllPaths
    <2>3. ignored' \subseteq Side \X AllPaths
      BY <2>1, <2>2 DEF TreesInv
    <2>4. \A s, p : Holds(s, p)' <=> Holds(s, p)
      BY <2>1 DEF Holds
    <2> QED
      BY <2>1, <2>3, <2>4 DEF TreesInv
  <1> QED
    BY <1>1, <1>2, TreesEdit, TreesDelete, WorldSteps

LEMMA TreesInit == Init => TreesInv
  <1> SUFFICES ASSUME Init PROVE TreesInv
    OBVIOUS
  <1>1. PICK trees \in Initial :
          /\ disk = [side \in Side |-> [file \in Files |->
                        IF trees[side].files[file] = 0 THEN NoFile
                        ELSE [content |-> trees[side].files[file], version |-> 1]]]
          /\ dirs = [side \in Side |-> trees[side].dirs]
    BY DEF Init
  <1>2. \A side \in Side : IsTree(trees[side])
    BY PassAssumption
  <1>3. ASSUME NEW side \in Side
        PROVE  /\ dirs[side] = trees[side].dirs /\ dirs[side] \in SUBSET Dirs
               /\ trees[side].files \in [Files -> Content \cup {0}]
               /\ \A file \in Files : disk[side][file] =
                     IF trees[side].files[file] = 0 THEN NoFile
                     ELSE [content |-> trees[side].files[file], version |-> 1]
    BY <1>1, <1>2 DEF IsTree
  <1>4. ASSUME NEW side \in Side, NEW file \in Files
        PROVE  /\ disk[side][file] \in [content : Content \cup {0}, version : 0..3]
               /\ disk[side][file] # NoFile => /\ disk[side][file].content # 0
                                               /\ disk[side][file].version # 0
                                               /\ trees[side].files[file] # 0
    <2> DEFINE c == trees[side].files[file]
    <2>1. c \in Content \cup {0}
      BY <1>3
    <2> HIDE DEF c
    <2>2. disk[side][file] = IF c = 0 THEN NoFile ELSE [content |-> c, version |-> 1]
      BY <1>3 DEF c
    <2>3. /\ disk[side][file] \in [content : Content \cup {0}, version : 0..3]
          /\ disk[side][file] # NoFile => /\ disk[side][file].content # 0
                                          /\ disk[side][file].version # 0
                                          /\ c # 0
      BY <2>1, <2>2 DEF NoFile
    <2> QED
      BY <2>3 DEF c
  <1>5. /\ disk \in [Side -> [Files -> [content : Content \cup {0}, version : 0..3]]]
        /\ dirs \in [Side -> SUBSET Dirs]
    <2>1. dirs \in [Side -> SUBSET Dirs]
      BY <1>1, <1>3
    <2>2. disk = [side \in Side |-> [file \in Files |-> disk[side][file]]]
      BY <1>1, Zenon
    <2> QED
      BY <1>4, <2>1, <2>2
  <1>6. \A side \in Side, file \in Files : disk[side][file] # NoFile =>
            /\ disk[side][file].content # 0 /\ disk[side][file].version # 0
            /\ file \notin dirs[side]
    BY <1>2, <1>3, <1>4 DEF IsTree
  <1>7. \A side \in Side, path \in AllPaths \ { Root } :
            Holds(side, path) => ParentPath(path) \in dirs[side]
    BY <1>2, <1>3, <1>4 DEF IsTree, Holds, AllPaths
  <1>8. ignored = {}
    BY DEF Init
  <1> QED
    BY <1>5, <1>6, <1>7, <1>8 DEF TreesInv

LEMMA ReaderFacts ==
    ASSUME PairInv, at = "hash"
    PROVE  /\ pair # NoPair /\ pair \in Pairs /\ pair.file \in Files
           /\ Reader \in Side /\ Reader \in Unread /\ Stage \in { "partial", "full" }
  <1>1. pair # NoPair /\ Unread # {} /\ pair \in Pairs /\ pair.file \in Files
    BY DEF PairInv, Pairs
  <1>2. Stage \in { "partial", "full" } /\ Unread \subseteq Side
    BY <1>1 DEF Unread
  <1>3. Reader \in Unread
    BY <1>1, <1>2 DEF Reader, Side
  <1> QED
    BY <1>1, <1>2, <1>3

\* A read that succeeds fills in the column it was for, if there is still a row.
LEMMA ReadRows ==
    ASSUME TreesInv, RowsInv, PairInv, HashSucceeds
    PROVE  LET content == disk[Reader][pair.file].content
               value == IF Stage = "partial" THEN PartialOf[content] ELSE content
           IN  /\ content \in Content /\ value \in Content
               /\ RowsInv'
               /\ \A side \in Side, file \in Files :
                    LET old == facts[side][file]
                        new == facts'[side][file]
                    IN  IF side = Reader /\ file = pair.file /\ old.version # 0
                        THEN /\ new.size = old.size /\ new.version = old.version
                             /\ ~new.failed
                             /\ new.partial = IF Stage = "partial" THEN value ELSE old.partial
                             /\ new.full = IF Stage = "full" THEN value ELSE old.full
                        ELSE new = old
               /\ pair' \in Pairs /\ pair'.file = pair.file /\ pair'.errs = pair.errs
               /\ \A side \in Side :
                    LET old == pair.seen[side]
                        new == pair'.seen[side]
                    IN  IF side = Reader
                        THEN /\ new.size = old.size
                             /\ new.partial = IF Stage = "partial" THEN value ELSE old.partial
                             /\ new.full = IF Stage = "full" THEN value ELSE old.full
                        ELSE new = old
  <1> DEFINE content == disk[Reader][pair.file].content
             value == IF Stage = "partial" THEN PartialOf[content] ELSE content
  <1>1. /\ pair \in Pairs /\ pair.file \in Files
        /\ Reader \in Side /\ Stage \in { "partial", "full" }
    BY ReaderFacts DEF HashSucceeds
  <1>2. content \in Content
    <2>1. content # 0
      BY DEF HashSucceeds
    <2>2. disk[Reader][pair.file] \in [content : Content \cup {0}, version : 0..3]
      BY <1>1 DEF TreesInv
    <2> QED
      BY <2>1, <2>2
  <1>3. value \in Content
    BY <1>2, PassAssumption
  <1>4. /\ facts' = [facts EXCEPT ![Reader][pair.file] = Hashed(@, Stage, value)]
        /\ pair' = [pair EXCEPT !.seen[Reader][Stage] = value]
        /\ node' = node
    BY DEF HashSucceeds
  <1> DEFINE old == facts[Reader][pair.file]
             new == Hashed(old, Stage, value)
             saw == pair.seen[Reader]
             sees == [saw EXCEPT ![Stage] = value]
  <1>5. old \in FactRow
    BY <1>1 DEF RowsInv
  <1>6. /\ saw \in [size : Nat, partial : Content \cup {0}, full : Content \cup {0}]
        /\ pair.seen \in [Side -> [size : Nat, partial : Content \cup {0}, full : Content \cup {0}]]
    BY <1>1 DEF Pairs
  <1>7. /\ facts' = [facts EXCEPT ![Reader][pair.file] = new]
        /\ pair' = [pair EXCEPT !.seen = [pair.seen EXCEPT ![Reader] = sees]]
    <2>1. facts' = [facts EXCEPT ![Reader][pair.file] = new]
      BY <1>4
    <2>2. pair' = [pair EXCEPT !.seen = [pair.seen EXCEPT ![Reader] = sees]]
      BY <1>1, <1>4 DEF Pairs
    <2> QED
      BY <2>1, <2>2
  <1> HIDE DEF content, value, old, saw
  <1>8. /\ new \in FactRow /\ new.size = old.size /\ new.version = old.version
        /\ old.version = 0 => new = old
        /\ old.version # 0 =>
              /\ new.failed = FALSE
              /\ new.partial = IF Stage = "partial" THEN value ELSE old.partial
              /\ new.full = IF Stage = "full" THEN value ELSE old.full
    <2>1. CASE old.version = 0
      BY <1>5, <2>1 DEF Hashed
    <2>2. CASE old.version # 0 /\ Stage = "partial"
      BY <1>3, <1>5, <2>2 DEF Hashed, FactRow
    <2>3. CASE old.version # 0 /\ Stage = "full"
      BY <1>3, <1>5, <2>3 DEF Hashed, FactRow
    <2> QED
      BY <1>1, <2>1, <2>2, <2>3
  <1>9. /\ sees \in [size : Nat, partial : Content \cup {0}, full : Content \cup {0}]
        /\ sees.size = saw.size
        /\ sees.partial = IF Stage = "partial" THEN value ELSE saw.partial
        /\ sees.full = IF Stage = "full" THEN value ELSE saw.full
    <2>1. CASE Stage = "partial"
      BY <1>3, <1>6, <2>1
    <2>2. CASE Stage = "full"
      BY <1>3, <1>6, <2>2
    <2> QED
      BY <1>1, <2>1, <2>2
  <1> HIDE DEF new, sees
  <1>10. /\ facts' \in [Side -> [Files -> FactRow]]
         /\ \A side \in Side, file \in Files : facts'[side][file] =
               IF side = Reader /\ file = pair.file THEN new ELSE facts[side][file]
    BY <1>1, <1>7, <1>8 DEF RowsInv
  <1>11. /\ pair' \in Pairs /\ pair'.file = pair.file /\ pair'.errs = pair.errs
         /\ pair'.seen = [pair.seen EXCEPT ![Reader] = sees]
    <2> DEFINE all == [pair.seen EXCEPT ![Reader] = sees]
    <2>1. all \in [Side -> [size : Nat, partial : Content \cup {0}, full : Content \cup {0}]]
      BY <1>6, <1>9
    <2>2. pair' = [pair EXCEPT !.seen = all]
      BY <1>7
    <2> HIDE DEF all
    <2>3. /\ pair' \in Pairs /\ pair'.file = pair.file /\ pair'.errs = pair.errs
          /\ pair'.seen = all
      BY <1>1, <2>1, <2>2 DEF Pairs
    <2> QED
      BY <2>3 DEF all
  <1>12. \A side \in Side : pair'.seen[side] = IF side = Reader THEN sees ELSE pair.seen[side]
    BY <1>1, <1>6, <1>11
  <1>13. RowsInv'
    BY <1>4, <1>10 DEF RowsInv
  <1>14. \A side \in Side, file \in Files :
            IF side = Reader /\ file = pair.file /\ facts[side][file].version # 0
            THEN /\ facts'[side][file].size = facts[side][file].size
                 /\ facts'[side][file].version = facts[side][file].version
                 /\ ~facts'[side][file].failed
                 /\ facts'[side][file].partial =
                       IF Stage = "partial" THEN value ELSE facts[side][file].partial
                 /\ facts'[side][file].full =
                       IF Stage = "full" THEN value ELSE facts[side][file].full
            ELSE facts'[side][file] = facts[side][file]
    BY <1>8, <1>10 DEF old
  <1>15. \A side \in Side :
            IF side = Reader
            THEN /\ pair'.seen[side].size = pair.seen[side].size
                 /\ pair'.seen[side].partial =
                       IF Stage = "partial" THEN value ELSE pair.seen[side].partial
                 /\ pair'.seen[side].full =
                       IF Stage = "full" THEN value ELSE pair.seen[side].full
            ELSE pair'.seen[side] = pair.seen[side]
    BY <1>9, <1>12 DEF saw
  <1> QED
    BY <1>2, <1>3, <1>11, <1>13, <1>14, <1>15 DEF content, value

\* One that fails leaves a mark on the rows of the path, if there are any.
LEMMA FailRows ==
    ASSUME RowsInv, PairInv, HashFails
    PROVE  /\ RowsInv'
           /\ \A side \in Side, file \in Files :
                LET old == facts[side][file]
                    new == facts'[side][file]
                IN  IF side = Reader /\ file = pair.file /\ old.version # 0
                    THEN /\ new.size = old.size /\ new.version = old.version
                         /\ new.failed /\ new.partial = old.partial /\ new.full = old.full
                    ELSE new = old
           /\ \A side \in Side, d \in Dirs : node'[side][d] =
                IF side = Reader /\ d = pair.file THEN UnreadDir(node[side][d])
                ELSE node[side][d]
           /\ pair' \in Pairs /\ pair'.file = pair.file /\ pair'.seen = pair.seen
           /\ pair'.errs = pair.errs \cup { Reader }
  <1>1. pair \in Pairs /\ pair.file \in Files /\ Reader \in Side
    BY ReaderFacts DEF HashFails
  <1> DEFINE table == [d \in Dirs |-> IF d = pair.file THEN UnreadDir(node[Reader][d])
                                      ELSE node[Reader][d]]
             old == facts[Reader][pair.file]
             new == UnreadFile(old)
  <1>2. /\ facts' = [facts EXCEPT ![Reader][pair.file] = new]
        /\ node' = [node EXCEPT ![Reader] = table]
        /\ pair' = [pair EXCEPT !.errs = @ \cup { Reader }]
    BY DEF HashFails
  <1>3. old \in FactRow
    BY <1>1 DEF RowsInv
  <1>n. \A d \in Dirs : table[d] = IF d = pair.file THEN UnreadDir(node[Reader][d])
                                   ELSE node[Reader][d]
    OBVIOUS
  <1>o. table = [d \in Dirs |-> table[d]]
    OBVIOUS
  <1> HIDE DEF old, table
  <1>5. /\ new \in FactRow /\ new.size = old.size /\ new.version = old.version
        /\ new.partial = old.partial /\ new.full = old.full
        /\ old.version = 0 => new = old
        /\ old.version # 0 => new.failed = TRUE
    BY <1>3 DEF FactRow, UnreadFile
  <1> HIDE DEF new
  <1>6. /\ facts' \in [Side -> [Files -> FactRow]]
        /\ \A side \in Side, file \in Files : facts'[side][file] =
              IF side = Reader /\ file = pair.file THEN new ELSE facts[side][file]
    BY <1>1, <1>2, <1>5 DEF RowsInv
  <1>7. /\ pair' \in Pairs /\ pair'.file = pair.file /\ pair'.seen = pair.seen
        /\ pair'.errs = pair.errs \cup { Reader }
    BY <1>1, <1>2 DEF Pairs
  <1>8. \A side \in Side, file \in Files :
            IF side = Reader /\ file = pair.file /\ facts[side][file].version # 0
            THEN /\ facts'[side][file].size = facts[side][file].size
                 /\ facts'[side][file].version = facts[side][file].version
                 /\ facts'[side][file].failed
                 /\ facts'[side][file].partial = facts[side][file].partial
                 /\ facts'[side][file].full = facts[side][file].full
            ELSE facts'[side][file] = facts[side][file]
    BY <1>5, <1>6 DEF old
  <1>9. node = [side \in Side |-> [d \in Dirs |-> node[side][d]]]
    BY DEF RowsInv, IsTable
  <1>10. node' = [side \in Side |-> IF side = Reader THEN table ELSE node[side]]
    BY <1>2, <1>9
  <1>11. \A side \in Side : node'[side] = IF side = Reader THEN table ELSE node[side]
    BY <1>10
  <1>12. \A side \in Side, d \in Dirs : node'[side][d] =
            IF side = Reader /\ d = pair.file THEN UnreadDir(node[side][d])
            ELSE node[side][d]
    BY <1>n, <1>11
  <1>13. IsTable(node')
    <2>1. \A side \in Side, d \in Dirs : IsRow(node'[side][d])
      <3>1. \A side \in Side, d \in Dirs : IsRow(node[side][d])
        BY DEF RowsInv, IsTable
      <3> QED
        BY <1>12, <3>1, UnreadRows
    <2>2. node' = [side \in Side |-> [d \in Dirs |-> node'[side][d]]]
      <3>1. \A side \in Side : node'[side] = [d \in Dirs |-> node'[side][d]]
        <4> SUFFICES ASSUME NEW side \in Side
                     PROVE  node'[side] = [d \in Dirs |-> node'[side][d]]
          OBVIOUS
        <4>1. CASE side = Reader
          BY <1>o, <1>11, <4>1
        <4>2. CASE side # Reader
          <5>1. node[side] = [d \in Dirs |-> node[side][d]]
            BY <1>9
          <5> QED
            BY <1>11, <4>2, <5>1
        <4> QED
          BY <4>1, <4>2
      <3>2. node' = [side \in Side |-> node'[side]]
        BY <1>10, <1>11
      <3> QED
        BY <3>1, <3>2
    <2> QED
      BY <2>1, <2>2, Zenon DEF IsTable
  <1> QED
    BY <1>6, <1>7, <1>8, <1>12, <1>13 DEF RowsInv

LEMMA ListRows ==
    ASSUME TInv, NEW side \in Side, NEW dir \in Dirs, List(side, dir)
    PROVE  RowsInv'
  <1>1. RowsInv /\ TreesInv
    BY DEF TInv
  <1>2. ASSUME NEW outcome \in { "done", "error" }, OnlyRecord(side, dir, outcome)
        PROVE  RowsInv'
    BY <1>1, <1>2, OnlyRecordRows
  <1>3. ASSUME NEW hidden, ListChildren(side, dir, hidden)
        PROVE  RowsInv'
    BY <1>1, <1>3, ListChildrenRows
  <1> QED
    BY <1>2, <1>3 DEF List

LEMMA RowsNext == TInv /\ [Next]_vars => RowsInv'
  <1> SUFFICES ASSUME TInv, [Next]_vars PROVE RowsInv'
    OBVIOUS
  <1>0. TreesInv /\ RowsInv /\ IsNest(frames) /\ PairInv
    BY DEF TInv
  <1>1. CASE UNCHANGED rowVars
    BY <1>0, <1>1 DEF RowsInv, rowVars
  <1>2. CASE \E side \in Side, dir \in Dirs : List(side, dir)
    BY <1>2, ListRows
  <1>3. CASE \E m \in Modes : Compare(m)
    BY <1>0, <1>3, CompareRows
  <1>4. CASE Enter
    <2>1. CASE node' = node
      BY <1>1, <1>4, <2>1 DEF Enter, rowVars
    <2>2. CASE node' # node
      <3>1. /\ facts' = facts
            /\ node' = [side \in Side |-> [below \in Dirs |->
                 [node[side][below] EXCEPT !.resolved =
                    @ \/ (IsWithinSubtree(below, Top.dir) /\ node[side][below].checksum # {})]]]
        BY <1>4, <2>2 DEF Enter
      <3> QED
        BY <1>0, <3>1, CacheHitRows
    <2> QED
      BY <2>1, <2>2
  <1>5. CASE FinishDir
    BY <1>0, <1>5, FinishRows
  <1>6. CASE HashSucceeds
    BY <1>0, <1>6, ReadRows
  <1>7. CASE HashFails
    BY <1>0, <1>7, FailRows
  <1>8. CASE node' = StoppedRows(node) /\ facts' = facts
    BY <1>0, <1>8, StoppedTable DEF RowsInv
  <1>9. \/ UNCHANGED rowVars \/ (\E side \in Side, dir \in Dirs : List(side, dir))
        \/ (\E m \in Modes : Compare(m)) \/ Enter \/ FinishDir \/ HashSucceeds \/ HashFails
        \/ node' = StoppedRows(node) /\ facts' = facts
    <2>1. CASE Pass1
      BY <2>1 DEF Pass1, StartPass2
    <2>2. CASE Pass2
      BY <2>2 DEF Pass2, ReadNext, Cancel, PairDone, EndPass2, NextEntry, rowVars
    <2>3. CASE Environment
      BY <2>3 DEF Environment, Stop, Restart, Edit, Delete, SetIgnored, Changes, rowVars
    <2>4. CASE UNCHANGED vars
      BY <2>4 DEF vars
    <2> QED
      BY <2>1, <2>2, <2>3, <2>4 DEF Next
  <1> QED
    BY <1>1, <1>2, <1>3, <1>4, <1>5, <1>6, <1>7, <1>8, <1>9

\* What the loop does after a listing of the comparison in Pass 1.
LEMMA LoopLists ==
    ASSUME ListInv, NEW side \in Side, NEW dir \in Dirs, NEW kids, leftover = {},
           LoopGoesOn(side, dir, kids)
    PROVE  /\ \A s \in Side : toList'[s] =
                 IF s = side THEN (toList[s] \ { dir }) \cup (IF stopMark THEN {} ELSE kids)
                 ELSE toList[s]
           /\ kids \subseteq Dirs => toList' \in [Side -> SUBSET Dirs]
           /\ leftover' = {} /\ stopMark' \in BOOLEAN
           /\ stopMark' => stopMark
           /\ ~stopMark' => ~stopMark \/ \A s \in Side : toList'[s] = {}
  <1>1. /\ toList' = [toList EXCEPT ![side] = (@ \ { dir }) \cup (IF stopMark THEN {} ELSE kids)]
        /\ leftover' = {}
        /\ stopMark' = (stopMark /\ (leftover' # {} \/ toList' # NothingToList))
    BY DEF LoopGoesOn
  <1>2. ~stopMark' => ~stopMark \/ \A s \in Side : toList'[s] = {}
    BY <1>1 DEF NothingToList
  <1>3. stopMark \in BOOLEAN /\ toList \in [Side -> SUBSET Dirs]
    BY DEF ListInv
  <1> HIDE DEF NothingToList
  <1>4. stopMark' \in BOOLEAN /\ (stopMark' => stopMark)
    BY <1>1
  <1>5. \A s \in Side : toList'[s] =
            IF s = side THEN (toList[s] \ { dir }) \cup (IF stopMark THEN {} ELSE kids)
            ELSE toList[s]
    BY <1>1, <1>3
  <1>6. kids \subseteq Dirs => toList' \in [Side -> SUBSET Dirs]
    <2> SUFFICES ASSUME kids \subseteq Dirs PROVE toList' \in [Side -> SUBSET Dirs]
      OBVIOUS
    <2> DEFINE more == (toList[side] \ { dir }) \cup (IF stopMark THEN {} ELSE kids)
    <2>1. more \in SUBSET Dirs
      BY <1>3
    <2>2. toList' = [toList EXCEPT ![side] = more]
      BY <1>1
    <2> HIDE DEF more
    <2> QED
      BY <1>3, <2>1, <2>2
  <1> QED
    BY <1>1, <1>2, <1>4, <1>5, <1>6

\* And after a leftover listing.
LEMMA LoopLeaves ==
    ASSUME ListInv, NEW side \in Side, NEW dir \in Dirs, NEW kids, leftover # {},
           LoopGoesOn(side, dir, kids)
    PROVE  /\ toList' = toList /\ leftover' \subseteq leftover /\ stopMark
           /\ stopMark' \in BOOLEAN
           /\ leftover' # {} => stopMark'
           /\ ~stopMark' => \A s \in Side : toList'[s] = {}
  <1>1. /\ toList' = toList /\ leftover' = leftover \ { << side, dir >> }
        /\ stopMark' = (stopMark /\ (leftover' # {} \/ toList' # NothingToList))
    BY DEF LoopGoesOn
  <1>2. stopMark = TRUE
    BY DEF ListInv
  <1>3. toList' = NothingToList => \A s \in Side : toList'[s] = {}
    BY DEF NothingToList
  <1> QED
    BY <1>1, <1>2, <1>3

\* The children of what is listed take its place.
LEMMA ListKeepsList ==
    ASSUME TInv, NEW side \in Side, NEW dir \in Dirs, List(side, dir)
    PROVE  ListInv'
  <1>1. /\ TreesInv /\ RowsInv /\ ListInv /\ at # "run" /\ at' = at
        /\ InTurn(side, dir)
    BY DEF TInv, List
  <1>2. \A s \in Side, d \in Dirs : IsRow(node[s][d])
    BY <1>1 DEF RowsInv, IsTable
  <1>k. Kids(side, dir) \subseteq Dirs
    BY <1>1 DEF Kids, ChildrenOf, TreesInv
  <1>l. ASSUME NEW kids, kids \subseteq Dirs, LoopGoesOn(side, dir, kids), leftover # {}
        PROVE  ListInv'
    <2>1. /\ toList' = toList /\ leftover' \subseteq leftover /\ stopMark
          /\ stopMark' \in BOOLEAN
          /\ leftover' # {} => stopMark'
          /\ ~stopMark' => \A s \in Side : toList'[s] = {}
      BY <1>1, <1>l, LoopLeaves
    <2>2. \A s \in Side : \A d \in toList'[s] : stopMark' /\ d = Root
      BY <1>1, <2>1 DEF ListInv
    <2> QED
      BY <1>1, <2>1, <2>2 DEF ListInv
  <1>m. ASSUME NEW kids, kids \subseteq Dirs, LoopGoesOn(side, dir, kids), leftover = {}, stopMark
        PROVE  ListInv'
    <2>1. /\ \A s \in Side : toList'[s] \subseteq toList[s]
          /\ toList' \in [Side -> SUBSET Dirs]
          /\ leftover' = {} /\ stopMark' \in BOOLEAN
          /\ ~stopMark' => \A s \in Side : toList'[s] = {}
      BY <1>1, <1>m, LoopLists
    <2>2. \A s \in Side : \A d \in toList'[s] : stopMark' /\ d = Root
      BY <1>1, <1>m, <2>1 DEF ListInv
    <2> QED
      BY <1>1, <2>1, <2>2 DEF ListInv
  <1>u. ASSUME leftover = {}, ~stopMark
        PROVE  /\ dir \in toList[side] /\ at = "listing"
               /\ node[side][dir].outcome = "pending"
    BY <1>1, <1>u DEF InTurn, ListInv
  <1>3. ASSUME NEW outcome \in { "done", "error" }, OnlyRecord(side, dir, outcome)
        PROVE  ListInv'
    <2>0. LoopGoesOn(side, dir, {})
      BY <1>3 DEF OnlyRecord
    <2>c. CASE leftover = {} /\ ~stopMark
      <3>1. /\ \A s \in Side : toList'[s] = IF s = side THEN toList[s] \ { dir } ELSE toList[s]
            /\ toList' \in [Side -> SUBSET Dirs]
            /\ leftover' = {} /\ stopMark' = FALSE
        BY <1>1, <2>0, <2>c, LoopLists
      <3>2. \A s \in Side, d \in Dirs : s # side \/ d # dir => node'[s][d] = node[s][d]
        BY <1>1, <1>3, OnlyRecordRows
      <3>4. \A s \in Side : \A d \in toList'[s] : node'[s][d].outcome = "pending"
        <4> SUFFICES ASSUME NEW s \in Side, NEW d \in toList'[s]
                     PROVE  node'[s][d].outcome = "pending"
          OBVIOUS
        <4>1. d \in toList[s] /\ d \in Dirs /\ (s # side \/ d # dir)
          BY <3>1
        <4> QED
          BY <1>1, <2>c, <3>2, <4>1 DEF ListInv
      <3> QED
        BY <1>1, <3>1, <3>4, <2>c, <1>u DEF ListInv
    <2> QED
      BY <1>l, <1>m, <2>0, <2>c
  <1>4. ASSUME NEW hidden, ListChildren(side, dir, hidden), leftover = {}, ~stopMark
        PROVE  ListInv'
    <2> DEFINE kids == Kids(side, dir)
    <2>1. /\ \A s \in Side : toList'[s] = IF s = side THEN (toList[s] \ { dir }) \cup kids
                                          ELSE toList[s]
          /\ toList' \in [Side -> SUBSET Dirs]
          /\ leftover' = {} /\ stopMark' = FALSE
      <3>1. LoopGoesOn(side, dir, kids)
        BY <1>4 DEF ListChildren, Kids
      <3>2. kids \subseteq Dirs
        BY <1>k
      <3> HIDE DEF kids
      <3> QED
        BY <1>1, <1>4, <3>1, <3>2, LoopLists
    <2>2. /\ kids \subseteq Dirs
          /\ \A kid \in kids : kid # Root /\ ParentPath(kid) = dir
      BY <1>1 DEF Kids, ChildrenOf, TreesInv
    <2>3. \A kid \in kids : /\ kid \in AllPaths \ { Root }
                            /\ IsWithinSubtree(kid, dir) /\ ~IsWithinSubtree(dir, kid)
                            /\ \A above : IsWithinSubtree(kid, above) /\ above # kid =>
                                  IsWithinSubtree(dir, above)
      BY <2>2, ChildWithin DEF AllPaths
    <2>4. /\ \A d \in Dirs : node'[side][d] =
                IF d = dir THEN OwnResult(node[side][d], "done", hidden # {})
                ELSE IF d \in kids THEN Pending(node[side][d])
                ELSE IF Forgotten(side, dir, d) THEN NoNode
                ELSE node[side][d]
          /\ \A s \in Side \ { side } : node'[s] = node[s]
      BY <1>1, <1>4, ListChildrenRows DEF ChildRow
    <2> HIDE DEF kids
    <2>5. /\ toList' \in [Side -> SUBSET Dirs]
          /\ \A s \in Side : toList'[s] = IF s = side THEN (toList[s] \ { dir }) \cup kids
                                          ELSE toList[s]
      BY <2>1
    <2>6. \A d \in toList[side] \ { dir } : d \in AllPaths /\ ~IsWithinSubtree(d, dir)
      BY <1>1, <1>4, <1>u DEF ListInv, AllPaths
    <2>7. \A d \in toList[side] \ { dir } : ~Forgotten(side, dir, d)
      <3> SUFFICES ASSUME NEW d \in toList[side] \ { dir }, Forgotten(side, dir, d)
                   PROVE  FALSE
        OBVIOUS
      <3>1. PICK top \in ChildrenOf(dir, KnownDirs(side)) : IsWithinSubtree(d, top)
        BY DEF Forgotten
      <3>2. top \in AllPaths \ { Root } /\ ParentPath(top) = dir
        BY <3>1 DEF ChildrenOf, KnownDirs, AllPaths
      <3>3. IsWithinSubtree(top, dir)
        BY <3>2, ChildWithin
      <3> QED
        BY <2>6, <3>1, <3>3, WithinTransitive
    <2>8. \A s \in Side : \A d \in toList'[s] : node'[s][d].outcome = "pending"
      <3> SUFFICES ASSUME NEW s \in Side, NEW d \in toList'[s]
                   PROVE  node'[s][d].outcome = "pending"
        OBVIOUS
      <3>1. CASE s # side
        BY <1>1, <1>4, <2>4, <2>5, <3>1 DEF ListInv
      <3>2. CASE s = side /\ d \in kids
        <4>1. d \in Dirs /\ d # dir
          BY <2>2, <2>3, <3>2
        <4> QED
          BY <1>2, <2>4, <3>2, <4>1, PendingRow
      <3>3. CASE s = side /\ d \in toList[s] \ { dir } /\ d \notin kids
        <4>1. d \in Dirs /\ d # dir /\ ~Forgotten(side, dir, d)
          BY <1>1, <2>7, <3>3 DEF ListInv
        <4>2. node'[side][d] = node[side][d]
          BY <2>4, <3>3, <4>1
        <4> QED
          BY <1>1, <1>4, <3>3, <4>2 DEF ListInv
      <3> QED
        BY <2>5, <3>1, <3>2, <3>3
    <2>9. \A s \in Side : \A a, b \in toList'[s] : IsWithinSubtree(a, b) => a = b
      <3> SUFFICES ASSUME NEW s \in Side, NEW a \in toList'[s], NEW b \in toList'[s],
                          IsWithinSubtree(a, b)
                   PROVE  a = b
        OBVIOUS
      <3>1. CASE s # side \/ (a \in toList[s] \ { dir } /\ b \in toList[s] \ { dir })
        BY <1>1, <2>5, <3>1 DEF ListInv
      <3>2. CASE s = side /\ a \in kids
        <4>1. a = b \/ IsWithinSubtree(dir, b)
          BY <2>3, <3>2
        <4>2. CASE IsWithinSubtree(dir, b) /\ b \in kids
          BY <2>3, <4>2
        <4>3. CASE IsWithinSubtree(dir, b) /\ b \in toList[s] \ { dir }
          BY <1>1, <1>4, <1>u, <3>2, <4>3 DEF ListInv
        <4> QED
          BY <2>5, <3>2, <4>1, <4>2, <4>3
      <3>3. CASE s = side /\ a \in toList[s] \ { dir } /\ b \in kids
        <4>1. IsWithinSubtree(a, dir)
          BY <2>3, <2>6, <3>3, WithinTransitive
        <4> QED
          BY <2>6, <3>3, <4>1
      <3> QED
        BY <2>5, <3>1, <3>2, <3>3
    <2> QED
      BY <1>1, <1>4, <1>u, <2>1, <2>5, <2>8, <2>9 DEF ListInv
  <1>5. ASSUME NEW hidden, ListChildren(side, dir, hidden)
        PROVE  ListInv'
    <2>1. LoopGoesOn(side, dir, Kids(side, dir))
      BY <1>5 DEF ListChildren, Kids
    <2> QED
      BY <1>k, <1>l, <1>m, <1>4, <1>5, <2>1
  <1> QED
    BY <1>3, <1>5 DEF List

LEMMA ListNext == TInv /\ [Next]_vars => ListInv'
  <1> SUFFICES ASSUME TInv, [Next]_vars PROVE ListInv'
    OBVIOUS
  <1>0. RowsInv /\ ListInv /\ IsNest(frames)
    BY DEF TInv
  <1>1. CASE \E side \in Side, dir \in Dirs : List(side, dir)
    BY <1>1, ListKeepsList
  <1>2. ASSUME toList' = NothingToList, stopMark' \in BOOLEAN, leftover' \subseteq Side \X Dirs,
               leftover' # {} => stopMark'
        PROVE  ListInv'
    BY <1>2 DEF ListInv, NothingToList
  <1>e. Entries(toList) \subseteq Side \X Dirs
    BY <1>0 DEF ListInv, Entries
  <1>3. ASSUME NEW m \in Modes, Compare(m) PROVE ListInv'
    <2>1. \A side \in Side : node'[side][Root].outcome = "pending"
      BY <1>0, <1>3, CompareRows, RootLineage
    <2>2. /\ toList' = [side \in Side |-> { Root }] /\ at' = "listing"
          /\ stopMark' = stopMark /\ leftover' = leftover
      BY <1>3 DEF Compare
    <2> QED
      BY <1>0, <2>1, <2>2, RootLineage DEF ListInv
  <1>4. CASE StartPass2
    <2>1. /\ toList' = NothingToList /\ leftover' = leftover \cup Entries(toList)
          /\ stopMark' = stopMark
          /\ \A side \in Side, dir \in Dirs : node[side][dir].outcome # "pending"
      BY <1>4 DEF StartPass2
    <2>2. ~stopMark => Entries(toList) = {}
      BY <1>0, <2>1 DEF ListInv, Entries
    <2> QED
      BY <1>0, <1>2, <1>e, <2>1, <2>2 DEF ListInv
  <1>5. ASSUME UNCHANGED engineVars, at # "listing", at' # "listing" PROVE ListInv'
    BY <1>0, <1>5 DEF ListInv, engineVars
  <1>6. ASSUME UNCHANGED << engineVars, at, node >> PROVE ListInv'
    BY <1>0, <1>6 DEF ListInv, engineVars
  <1>7. CASE Pass2
    <2>1. UNCHANGED engineVars
      BY <1>7 DEF Pass2, Enter, ReadNext, HashSucceeds, HashFails, Cancel, PairDone,
         FinishDir, EndPass2, NextEntry
    <2>2. at # "listing" /\ at' # "listing"
      BY <1>7 DEF Pass2, Enter, ReadNext, HashSucceeds, HashFails, Cancel, PairDone,
         FinishDir, EndPass2, NextEntry, Loops
    <2> QED
      BY <1>5, <2>1, <2>2
  <1>8. CASE Environment
    <2>1. CASE Stop
      <3>1. /\ toList' = NothingToList /\ stopMark' = TRUE
            /\ \/ leftover' = leftover
               \/ \E inFlight \in Entries(toList) : leftover' = { inFlight }
        BY <2>1 DEF Stop
      <3> QED
        BY <1>0, <1>2, <1>e, <3>1 DEF ListInv
    <2>2. CASE Restart
      BY <1>2, <2>2 DEF Restart
    <2>3. CASE Changes
      BY <1>6, <2>3 DEF Changes, rowVars, passVars
    <2> QED
      BY <1>3, <1>8, <2>1, <2>2, <2>3 DEF Environment, Edit, Delete, SetIgnored
  <1>9. CASE UNCHANGED vars
    BY <1>6, <1>9 DEF vars, rowVars, passVars
  <1> QED
    BY <1>1, <1>4, <1>7, <1>8, <1>9 DEF Next, Pass1

\* The three ways the activations change, and what of them stays.
LEMMA Replaced ==
    ASSUME IsNest(frames), frames # << >>, NEW x, IsFrame(x), x.dir = Top.dir,
           frames' = Append(Rest, x)
    PROVE  /\ IsNest(frames') /\ frames' # << >> /\ Len(frames') = Len(frames) /\ Top' = x
           /\ frames'[Len(frames)] = x
           /\ \A i \in 1..(Len(frames) - 1) : frames'[i] = frames[i]
  <1>1. /\ IsNest(frames') /\ Len(frames') = Len(frames) /\ frames' # << >>
        /\ frames'[Len(frames)] = x
        /\ \A i \in 1..(Len(frames) - 1) : frames'[i] = frames[i]
    BY NestReplace DEF Top, Rest
  <1> QED
    BY <1>1 DEF Top

LEMMA Pushed ==
    ASSUME IsNest(frames), frames # << >>, NEW x, IsFrame(x), x.dir = Top.dir, x.entered,
           NEW y, IsFrame(y), y.dir # Root, ParentPath(y.dir) = x.dir, y.dir \notin x.todo,
           frames' = Append(Rest, x) \o << y >>
    PROVE  /\ IsNest(frames') /\ frames' # << >> /\ Len(frames') = Len(frames) + 1 /\ Top' = y
           /\ frames'[Len(frames)] = x /\ frames'[Len(frames) + 1] = y
           /\ \A i \in 1..(Len(frames) - 1) : frames'[i] = frames[i]
  <1>1. /\ IsNest(frames') /\ Len(frames') = Len(frames) + 1 /\ frames' # << >>
        /\ frames'[Len(frames)] = x /\ frames'[Len(frames) + 1] = y
        /\ \A i \in 1..(Len(frames) - 1) : frames'[i] = frames[i]
    <2> DEFINE r == PushedOn(frames, x, y)
    <2>1. x.dir = frames[Len(frames)].dir
      BY DEF Top
    <2>2. frames' = r
      BY DEF Rest, PushedOn
    <2>3. /\ IsNest(r) /\ Len(r) = Len(frames) + 1 /\ r # << >>
          /\ r[Len(frames)] = x /\ r[Len(frames) + 1] = y
          /\ \A i \in 1..(Len(frames) - 1) : r[i] = frames[i]
      <3>1. MayBePushed(frames, x, y)
        BY <2>1 DEF MayBePushed
      <3> QED
        BY <3>1, NestPush
    <2> HIDE DEF r
    <2> QED
      BY <2>2, <2>3
  <1> QED
    BY <1>1 DEF Top

LEMMA ReturnedTo ==
    ASSUME IsNest(frames), frames # << >>, NEW checksum, NEW errs \in SUBSET Side,
           frames' = Returned(checksum, errs)
    PROVE  /\ IsNest(frames') /\ Len(frames') = Len(frames) - 1
           /\ frames' = << >> <=> Len(frames) = 1
           /\ \A i \in 1..(Len(frames) - 2) : frames'[i] = frames[i]
           /\ Len(frames) > 1 =>
                LET under == frames[Len(frames) - 1]
                    new == frames'[Len(frames) - 1]
                IN  /\ Top' = new
                    /\ IsFrame(under) /\ under.entered /\ under.dir = ParentPath(Top.dir)
                    /\ Top.dir # Root /\ Top.dir \notin under.todo
                    /\ IsFrame(new) /\ new.dir = under.dir /\ new.entered
                    /\ new.todo = under.todo
                    /\ new.same = (under.same /\ checksum # {})
                    /\ new.errs = under.errs \cup errs
  <1>1. /\ IsNest(frames') /\ Len(frames') = Len(frames) - 1
        /\ frames' = << >> <=> Len(frames) = 1
        /\ \A i \in 1..(Len(frames) - 2) : frames'[i] = frames[i]
        /\ Len(frames) > 1 => frames'[Len(frames) - 1] =
              Taken(frames[Len(frames) - 1], frames[Len(frames)].dir, "directory", checksum, errs)
    <2> DEFINE r == ReturnedFrom(frames, checksum, errs)
    <2>1. frames' = r
      BY DEF Returned, ReturnedFrom, Rest, Top
    <2>2. /\ IsNest(r) /\ Len(r) = Len(frames) - 1
          /\ r = << >> <=> Len(frames) = 1
          /\ \A i \in 1..(Len(frames) - 2) : r[i] = frames[i]
          /\ Len(frames) > 1 => r[Len(frames) - 1] =
               Taken(frames[Len(frames) - 1], frames[Len(frames)].dir, "directory", checksum, errs)
      BY NestReturn
    <2> HIDE DEF r
    <2> QED
      BY <2>1, <2>2
  <1>2. ASSUME Len(frames) > 1
        PROVE  LET under == frames[Len(frames) - 1]
                   new == frames'[Len(frames) - 1]
               IN  /\ Top' = new
                   /\ IsFrame(under) /\ under.entered /\ under.dir = ParentPath(Top.dir)
                   /\ Top.dir # Root /\ Top.dir \notin under.todo
                   /\ IsFrame(new) /\ new.dir = under.dir /\ new.entered
                   /\ new.todo = under.todo
                   /\ new.same = (under.same /\ checksum # {})
                   /\ new.errs = under.errs \cup errs
    <2> DEFINE under == frames[Len(frames) - 1]
               new == frames'[Len(frames) - 1]
    <2>1. PICK n \in Nat : Len(frames) = n + 1
      BY NestTop
    <2>2. n \in 1..(Len(frames) - 1) /\ n \in 1..Len(frames) /\ Len(frames) - 1 = n
      BY <1>2, <2>1
    <2>3. /\ IsFrame(under) /\ under.entered /\ under.dir = ParentPath(Top.dir)
          /\ Top.dir # Root /\ Top.dir \notin under.todo
      BY <2>1, <2>2 DEF IsNest, Top
    <2>4. new = Taken(under, Top.dir, "directory", checksum, errs)
      BY <1>1, <1>2 DEF Top
    <2>5. Top' = new
      BY <1>1 DEF Top
    <2> HIDE DEF under, new
    <2>6. /\ IsFrame(new) /\ new.dir = under.dir /\ new.entered
          /\ new.todo = under.todo
          /\ new.same = (under.same /\ checksum # {})
          /\ new.errs = under.errs \cup errs
      BY <2>3, <2>4, TakenFrame
    <2> QED
      BY <2>3, <2>5, <2>6 DEF under, new
  <1> QED
    BY <1>1, <1>2

\* compareSubtree begins its loop.
Opened(dir) ==
    UNION { ChildrenOf(dir, KnownDirs(side) \cup KnownFiles(side)) : side \in Side }

LEMMA OpenedFrame ==
    ASSUME IsNest(frames), frames # << >>, ~Top.entered, NEW errs \in SUBSET Side,
           frames' = Append(Rest, [Top EXCEPT
               !.entered = TRUE, !.todo = Opened(Top.dir),
               !.errs = errs])
    PROVE  /\ IsNest(frames') /\ frames' # << >> /\ Len(frames') = Len(frames)
           /\ \A i \in 1..(Len(frames) - 1) : frames'[i] = frames[i]
           /\ frames'[Len(frames)] = Top'
           /\ IsFrame(Top') /\ Top'.dir = Top.dir /\ Top'.entered
           /\ Top'.todo = Opened(Top.dir) /\ Top'.same
           /\ Top'.errs = errs
  <1> DEFINE todo == Opened(Top.dir)
             new == OpenFrame(Top, todo, errs)
  <1>1. IsFrame(Top) /\ Top.same
    BY NestTop, FrameTypes DEF Top
  <1>2. /\ todo \in SUBSET AllPaths
        /\ \A path \in todo : path # Root /\ ParentPath(path) = Top.dir
    BY DEF Opened, ChildrenOf, KnownDirs, KnownFiles, AllPaths
  <1>4. frames' = Append(Rest, new)
    BY DEF OpenFrame
  <1> HIDE DEF todo
  <1>5. /\ IsFrame(new) /\ new.dir = Top.dir /\ new.entered
        /\ new.todo = todo /\ new.same = Top.same /\ new.errs = errs
    BY <1>1, <1>2, EnteredFrame
  <1> HIDE DEF new
  <1>6. /\ IsNest(frames') /\ frames' # << >> /\ Len(frames') = Len(frames) /\ Top' = new
        /\ frames'[Len(frames)] = new
        /\ \A i \in 1..(Len(frames) - 1) : frames'[i] = frames[i]
    BY <1>4, <1>5, Replaced
  <1> QED
    BY <1>1, <1>5, <1>6 DEF todo

\* What the loop makes of one entry.
SkipsEntry(path) == EntryIgnored(path) \/ CountsAsAbsent(path)
DiffersByKind(path) ==
    ~EntryIgnored(path) /\ ~CountsAsAbsent(path) /\ KindOn("left", path) # KindOn("right", path)
DescendsInto(path) ==
    ~EntryIgnored(path) /\ \A side \in Side : KindOn(side, path) = "directory"
ComparesFiles(path) ==
    ~EntryIgnored(path) /\ \A side \in Side : KindOn(side, path) = "file"

LEMMA EntryKinds ==
    ASSUME NEW path
    PROVE  /\ KindOn("left", path) = "directory" /\ KindOn("right", path) = "directory"
                => path \in Dirs
           /\ KindOn("left", path) = "file" /\ KindOn("right", path) = "file"
                => path \in Files
  BY DEF KindOn

\* Each of them leaves the entry behind.
LEMMA NextEntryStack ==
    ASSUME IsNest(frames), HeldInv, NEW path, NextEntry(path)
    PROVE  LET n == Len(frames)
               rest == frames'[n]
           IN  /\ IsNest(frames') /\ frames' # << >> /\ Len(frames') \in { n, n + 1 }
               /\ path \in AllPaths /\ path # Root /\ ParentPath(path) = Top.dir
               /\ \A i \in 1..(n - 1) : frames'[i] = frames[i]
               /\ rest.dir = Top.dir /\ rest.entered /\ rest.todo = Top.todo \ { path }
               /\ rest.errs = Top.errs
               /\ \/ /\ SkipsEntry(path) /\ Len(frames') = n /\ rest.same = Top.same
                     /\ pair' = pair
                  \/ /\ DiffersByKind(path) /\ Len(frames') = n /\ ~rest.same
                     /\ pair' = pair
                  \/ /\ DescendsInto(path) /\ Len(frames') = n + 1 /\ rest.same = Top.same
                     /\ path \in Dirs /\ frames'[n + 1] = Activation(path) /\ pair' = pair
                  \/ /\ ComparesFiles(path) /\ Len(frames') = n /\ rest.same = Top.same
                     /\ path \in Files /\ pair' \in Pairs
                     /\ pair'.file = path /\ pair'.errs = {}
                     /\ \A side \in Side : pair'.seen[side] = Cached(Seen.facts[side][path])
  <1> DEFINE n == Len(frames)
             rest == [Top EXCEPT !.todo = @ \ { path }]
             different == [rest EXCEPT !.same = FALSE]
  <1>1. frames # << >> /\ Top.entered /\ path \in Top.todo
    BY DEF NextEntry, Loops
  <1>2. IsFrame(Top)
    BY <1>1, NestTop DEF Top
  <1>3. path \in AllPaths /\ path # Root /\ ParentPath(path) = Top.dir
    BY <1>1, <1>2, FrameTypes
  <1>4. /\ IsFrame(rest) /\ rest.dir = Top.dir /\ rest.entered
        /\ rest.todo = Top.todo \ { path } /\ rest.same = Top.same /\ rest.errs = Top.errs
    BY <1>1, <1>2, RestFrame
  <1>5. \/ (EntryIgnored(path) \/ CountsAsAbsent(path)) /\ frames' = Append(Rest, rest)
           /\ pair' = pair
        \/ /\ DiffersByKind(path) /\ frames' = Append(Rest, [rest EXCEPT !.same = FALSE])
           /\ pair' = pair
        \/ /\ DescendsInto(path) /\ frames' = Append(Rest, rest) \o << Activation(path) >>
           /\ pair' = pair
        \/ /\ ComparesFiles(path) /\ frames' = Append(Rest, rest)
           /\ pair' = [file |-> path, errs |-> {},
                       seen |-> [side \in Side |-> Cached(Seen.facts[side][path])]]
    BY DEF NextEntry, DiffersByKind, DescendsInto, ComparesFiles, Side
  <1> HIDE DEF rest
  <1>6. ASSUME frames' = Append(Rest, rest)
        PROVE  /\ IsNest(frames') /\ frames' # << >> /\ Len(frames') = n
               /\ frames'[n] = rest
               /\ \A i \in 1..(n - 1) : frames'[i] = frames[i]
    BY <1>1, <1>4, <1>6, Replaced
  <1>7. CASE SkipsEntry(path) /\ frames' = Append(Rest, rest) /\ pair' = pair
    BY <1>3, <1>4, <1>6, <1>7
  <1>8. CASE /\ DiffersByKind(path) /\ frames' = Append(Rest, [rest EXCEPT !.same = FALSE])
             /\ pair' = pair
    <2>1. /\ IsFrame(different) /\ different.dir = Top.dir /\ different.entered
          /\ different.todo = Top.todo \ { path } /\ ~different.same
          /\ different.errs = Top.errs
      BY <1>4, DifferentFrame
    <2>2. frames' = Append(Rest, different)
      BY <1>8
    <2> HIDE DEF different
    <2>3. /\ IsNest(frames') /\ frames' # << >> /\ Len(frames') = n
          /\ frames'[n] = different
          /\ \A i \in 1..(n - 1) : frames'[i] = frames[i]
      BY <1>1, <2>1, <2>2, Replaced
    <2> QED
      BY <1>3, <1>8, <2>1, <2>3
  <1>9. CASE /\ DescendsInto(path) /\ frames' = Append(Rest, rest) \o << Activation(path) >>
             /\ pair' = pair
    <2>1. path \in Dirs
      BY <1>9, EntryKinds DEF DescendsInto, Side
    <2> DEFINE new == Activation(path)
    <2>2. IsFrame(new) /\ new.dir = path
      BY <2>1, NewFrame
    <2>3. path \notin rest.todo /\ frames' = Append(Rest, rest) \o << new >>
      BY <1>4, <1>9
    <2> HIDE DEF new
    <2>4. /\ IsNest(frames') /\ frames' # << >> /\ Len(frames') = n + 1
          /\ frames'[n] = rest /\ frames'[n + 1] = new
          /\ \A i \in 1..(n - 1) : frames'[i] = frames[i]
      BY <1>1, <1>3, <1>4, <2>2, <2>3, Pushed
    <2> QED
      BY <1>3, <1>4, <1>9, <2>1, <2>4 DEF new
  <1>10. CASE /\ ComparesFiles(path) /\ frames' = Append(Rest, rest)
              /\ pair' = [file |-> path, errs |-> {},
                          seen |-> [side \in Side |-> Cached(Seen.facts[side][path])]]
    <2>1. path \in Files
      BY <1>10, EntryKinds DEF ComparesFiles, Side
    <2> DEFINE seen == [side \in Side |-> Cached(Seen.facts[side][path])]
    <2>2. \A side \in Side : Cached(Seen.facts[side][path]) \in
             [size : Nat, partial : Content \cup {0}, full : Content \cup {0}]
      <3> SUFFICES ASSUME NEW side \in Side
                   PROVE  Cached(Seen.facts[side][path]) \in
                             [size : Nat, partial : Content \cup {0}, full : Content \cup {0}]
        OBVIOUS
      <3>1. Seen.facts[side][path] \in FactRow
        <4>1. Top.dir \in Dirs
          BY <1>2, FrameTypes
        <4> QED
          BY <2>1, <4>1 DEF HeldInv, Seen
      <3> QED
        BY <3>1 DEF FactRow, Cached
    <2>3. /\ seen \in [Side -> [size : Nat, partial : Content \cup {0}, full : Content \cup {0}]]
          /\ \A side \in Side : seen[side] = Cached(Seen.facts[side][path])
      BY <2>2
    <2>4. pair' = [file |-> path, errs |-> {}, seen |-> seen]
      BY <1>10
    <2> HIDE DEF seen
    <2>5. pair' \in Pairs /\ pair'.file = path /\ pair'.errs = {} /\ pair'.seen = seen
      BY <2>1, <2>3, <2>4 DEF Pairs
    <2> QED
      BY <1>3, <1>4, <1>6, <1>10, <2>1, <2>3, <2>5
  <1> QED
    BY <1>5, <1>7, <1>8, <1>9, <1>10 DEF SkipsEntry

LEMMA UnreadUnchanged == pair' = pair => Unread' = Unread
  <1> SUFFICES ASSUME pair' = pair PROVE Unread' = Unread
    OBVIOUS
  <1>1. Stage' = Stage
    BY DEF Stage
  <1> QED
    BY <1>1 DEF Unread

\* The activations and the pair of files after each action of Pass 2.
LEMMA NestNext ==
    ASSUME TInv, [Next]_vars
    PROVE  IsNest(frames') /\ PairInv'
  <1>0. IsNest(frames) /\ PairInv /\ RowsInv /\ TreesInv /\ HeldInv
    BY DEF TInv
  <1>1. ASSUME frames' = frames, pair' = pair, at' # "hash" \/ at = "hash",
               at' \in { "off", "listing" } => frames = << >>
        PROVE  IsNest(frames') /\ PairInv'
    <2>1. Top' = Top /\ Unread' = Unread
      BY <1>1, UnreadUnchanged DEF Top
    <2> QED
      BY <1>0, <1>1, <2>1 DEF PairInv
  <1>2. ASSUME frames' = << >>, pair' = NoPair, at' # "hash"
        PROVE  IsNest(frames') /\ PairInv'
    BY <1>2, EmptyNest DEF PairInv
  <1>3. ASSUME IsNest(frames'), frames' # << >> \/ pair' = NoPair, pair' = NoPair, at' = "run"
        PROVE  IsNest(frames') /\ PairInv'
    BY <1>3 DEF PairInv
  <1>4. CASE StartPass2
    <2>1. IsNest(frames')
      BY <1>4, RootNest DEF StartPass2
    <2>2. pair' = pair /\ at' = "run" /\ frames = << >>
      BY <1>0, <1>4 DEF StartPass2, PairInv
    <2> QED
      BY <1>0, <1>3, <2>1, <2>2 DEF PairInv
  <1>5. CASE Enter
    <2>1. frames # << >> /\ ~Top.entered /\ pair' = pair /\ at' = "run" /\ pair = NoPair
      BY <1>0, <1>5 DEF Enter, PairInv
    <2>2. ASSUME NEW checksum, frames' = Returned(checksum, {})
          PROVE  IsNest(frames')
      <3>1. {} \in SUBSET Side
        OBVIOUS
      <3> QED
        BY <1>0, <2>1, <2>2, <3>1, ReturnedTo
    <2>3. ASSUME frames' = Append(Rest, [Top EXCEPT
                     !.entered = TRUE,
                     !.todo = UNION { ChildrenOf(Top.dir, KnownDirs(side) \cup KnownFiles(side)) :
                                        side \in Side },
                     !.errs = { side \in Side : InError(HeldNode(side, Top.dir)) }])
          PROVE  IsNest(frames')
      <3>1. { side \in Side : InError(HeldNode(side, Top.dir)) } \in SUBSET Side
        OBVIOUS
      <3> QED
        BY <1>0, <2>1, <2>3, <3>1, OpenedFrame DEF Opened
    <2>4. IsNest(frames')
      BY <1>5, <2>2, <2>3 DEF Enter
    <2> QED
      BY <1>3, <2>1, <2>4
  <1>6. ASSUME NEW path, NextEntry(path)
        PROVE  IsNest(frames') /\ PairInv'
    <2>1. pair = NoPair /\ at' = "run"
      BY <1>6 DEF NextEntry, Loops
    <2>2. IsNest(frames') /\ frames' # << >>
      BY <1>0, <1>6, NextEntryStack
    <2>3. CASE pair' = pair
      BY <1>3, <2>1, <2>2, <2>3
    <2>4. CASE pair' # pair
      <3>1. /\ path # Root /\ ParentPath(path) = Top.dir
            /\ Len(frames') = Len(frames)
            /\ LET rest == frames'[Len(frames)]
               IN  rest.dir = Top.dir /\ rest.entered /\ rest.todo = Top.todo \ { path }
            /\ pair' \in Pairs /\ pair'.file = path
        BY <1>0, <1>6, <2>4, NextEntryStack
      <3>2. Top' = frames'[Len(frames)]
        BY <3>1 DEF Top
      <3>3. pair'.file # Root /\ ParentPath(pair'.file) = Top'.dir
            /\ pair'.file \notin Top'.todo /\ Top'.entered
        BY <3>1, <3>2
      <3> QED
        BY <2>1, <2>2, <3>1, <3>3 DEF PairInv, Pairs
    <2> QED
      BY <2>3, <2>4
  <1>7. CASE ReadNext
    <2>1. frames' = frames /\ pair' = pair /\ at' = "hash" /\ pair # NoPair /\ Unread # {}
      BY <1>7 DEF ReadNext
    <2>2. Top' = Top /\ Unread' = Unread
      BY <2>1, UnreadUnchanged DEF Top
    <2> QED
      BY <1>0, <2>1, <2>2 DEF PairInv
  <1>8. CASE HashSucceeds \/ HashFails
    <2>1. frames' = frames /\ at' = "run" /\ pair # NoPair
      BY <1>0, <1>8 DEF HashSucceeds, HashFails, PairInv
    <2>2. pair' \in Pairs /\ pair'.file = pair.file
      BY <1>0, <1>8, ReadRows, FailRows
    <2>3. Top' = Top
      BY <2>1 DEF Top
    <2> QED
      BY <1>0, <2>1, <2>2, <2>3 DEF PairInv, Pairs
  <1>9. CASE PairDone
    <2>1. pair # NoPair /\ frames # << >> /\ Top.entered /\ pair.errs \in SUBSET Side
      BY <1>0, <1>9 DEF PairDone, PairInv, Pairs
    <2>2. PICK checksum : frames' = Append(Rest, Taken(Top, pair.file, "file", checksum, pair.errs))
      BY <1>9 DEF PairDone
    <2> DEFINE new == Taken(Top, pair.file, "file", checksum, pair.errs)
    <2>3. IsFrame(Top)
      BY <1>0, <2>1, NestTop DEF Top
    <2>4. IsFrame(new) /\ new.dir = Top.dir
      BY <2>1, <2>3, TakenFrame
    <2>5. frames' = Append(Rest, new)
      BY <2>2
    <2> HIDE DEF new
    <2>6. IsNest(frames')
      BY <1>0, <2>1, <2>4, <2>5, Replaced
    <2>7. pair' = NoPair /\ at' = "run"
      BY <1>9 DEF PairDone
    <2> QED
      BY <1>3, <2>6, <2>7
  <1>10. CASE FinishDir
    <2>1. frames # << >> /\ pair' = NoPair /\ at' = "run"
      BY <1>10 DEF FinishDir, Loops
    <2>2. PICK checksum : frames' = Returned(checksum, Top.errs)
      BY <1>10 DEF FinishDir
    <2>3. Top.errs \in SUBSET Side
      BY <1>0, <2>1, NestTop, FrameTypes DEF Top
    <2>4. IsNest(frames')
      BY <1>0, <2>1, <2>2, <2>3, ReturnedTo
    <2> QED
      BY <1>3, <2>1, <2>4
  <1>11. CASE Cancel \/ Restart
    BY <1>2, <1>11 DEF Cancel, Restart
  <1>12. CASE EndPass2
    BY <1>1, <1>12 DEF EndPass2
  <1>13. ASSUME NEW m \in Modes, Compare(m)
         PROVE  IsNest(frames') /\ PairInv'
    <2>1. frames = << >> /\ frames' = frames /\ pair' = pair /\ at' = "listing"
      BY <1>0, <1>13 DEF Compare, PairInv
    <2> QED
      BY <1>1, <2>1
  <1>14. CASE UNCHANGED << frames, pair, at >>
    BY <1>0, <1>1, <1>14 DEF PairInv
  <1>15. CASE \E side \in Side, dir \in Dirs : List(side, dir)
    BY <1>14, <1>15 DEF List
  <1>16. CASE Stop \/ Changes
    BY <1>14, <1>16 DEF Stop, Changes, passVars
  <1>17. CASE UNCHANGED vars
    BY <1>14, <1>17 DEF vars, passVars
  <1> QED
    BY <1>4, <1>5, <1>6, <1>7, <1>8, <1>9, <1>10, <1>11, <1>12, <1>13, <1>15, <1>16, <1>17
    DEF Next, Pass1, Pass2, Environment, Edit, Delete, SetIgnored

LEMMA FilePairsFinite ==
    ASSUME NEW dir
    PROVE  /\ FilePairs(dir) \subseteq Files /\ IsFiniteSet(FilePairs(dir))
           /\ CountFilePairs(dir) \in Nat
  <1>1. FilePairs(dir) \subseteq Files
    BY DEF FilePairs, KnownFiles
  <1>2. IsFiniteSet(Files)
    BY PassAssumption, FS_Subset
  <1>3. IsFiniteSet(FilePairs(dir))
    BY <1>1, <1>2, FS_Subset
  <1> QED
    BY <1>1, <1>3, FS_CardinalityType DEF CountFilePairs

\* What an activation holds changes with the activations only.
LEMMA HeldNext ==
    ASSUME TInv, [Next]_vars
    PROVE  HeldInv'
  <1>0. RowsInv /\ HeldInv /\ IsNest(frames)
    BY DEF TInv
  <1> DEFINE Kept(x) == IsTable(x.node) /\ x.facts \in [Side -> [Files -> FactRow]]
             nothing == [node |-> NoNodes, facts |-> NoFileRows]
  <1>1. Kept(nothing)
    <2>1. \A side \in Side, dir \in Dirs : NoNodes[side][dir] = NoNode
      BY DEF NoNodes
    <2>2. NoNodes = [side \in Side |-> [dir \in Dirs |-> NoNodes[side][dir]]]
      BY <2>1 DEF NoNodes
    <2>3. IsTable(NoNodes)
      BY <2>1, <2>2, NoNodeIsRow DEF IsTable
    <2>4. NoFileRows \in [Side -> [Files -> FactRow]]
      BY NoFactsIsRow DEF NoFileRows
    <2> QED
      BY <2>3, <2>4
  <1>2. Kept([node |-> node, facts |-> facts])
    BY <1>0 DEF RowsInv
  <1>3. CASE held' = held
    BY <1>0, <1>3 DEF HeldInv
  <1>4. CASE held' = NothingHeld
    <2>1. \A dir \in Dirs : held'[dir] = nothing
      BY <1>4 DEF NothingHeld
    <2>2. held' = [dir \in Dirs |-> held'[dir]]
      BY <1>4 DEF NothingHeld
    <2> HIDE DEF nothing
    <2> QED
      BY <1>1, <2>1, <2>2 DEF HeldInv
  <1>5. ASSUME NEW x, Kept(x), held' = [held EXCEPT ![Top.dir] = x]
        PROVE  HeldInv'
    <2>1. \A dir \in Dirs : held'[dir] = IF dir = Top.dir THEN x ELSE held[dir]
      BY <1>0, <1>5 DEF HeldInv
    <2>2. held' = [dir \in Dirs |-> held'[dir]]
      BY <1>0, <1>5 DEF HeldInv
    <2> QED
      BY <1>0, <1>5, <2>1, <2>2 DEF HeldInv
  <1> HIDE DEF Kept
  <1>6. CASE Enter
    BY <1>2, <1>3, <1>5, <1>6 DEF Enter
  <1>7. CASE FinishDir
    BY <1>1, <1>5, <1>7 DEF FinishDir
  <1>8. held' = held \/ held' = NothingHeld \/ Enter \/ FinishDir
    <2>1. CASE Pass1
      BY <2>1 DEF Pass1, StartPass2, List
    <2>2. CASE Pass2
      BY <2>2 DEF Pass2, ReadNext, HashSucceeds, HashFails, Cancel, PairDone, EndPass2, NextEntry
    <2>3. CASE Environment
      BY <2>3 DEF Environment, Compare, Stop, Restart, Edit, Delete, SetIgnored, Changes, passVars
    <2>4. CASE UNCHANGED vars
      BY <2>4 DEF vars, passVars
    <2> QED
      BY <2>1, <2>2, <2>3, <2>4 DEF Next
  <1> QED
    BY <1>3, <1>4, <1>6, <1>7, <1>8

LEMMA ControlNext ==
    ASSUME TInv, [Next]_vars
    PROVE  ControlInv'
  <1>0. /\ at \in { "off", "listing", "run", "hash" } /\ mode \in { "incremental", "full" }
        /\ aborted \in BOOLEAN /\ clean \in BOOLEAN /\ quiet \in BOOLEAN /\ settled \in BOOLEAN
        /\ aborted => at \in { "run", "hash" } /\ ~clean
        /\ settled => Undisturbed
        /\ Undisturbed => ~stopMark
        /\ stopMark \in BOOLEAN
        /\ progress \in [processed : Nat, total : Nat]
        /\ events \in 0..MaxEvents /\ MaxEvents \in Nat
    BY PassAssumption DEF TInv, ControlInv, ListInv
  <1>e. Event => events' \in 0..MaxEvents
    BY <1>0 DEF Event
  <1>k. ASSUME mode' = mode, aborted' = aborted, progress' = progress, events' = events,
               clean' = clean, quiet' = quiet, settled' = settled, stopMark' => stopMark,
               stopMark' \in BOOLEAN,
               at' = at \/ { at, at' } \subseteq { "run", "hash" }
        PROVE  ControlInv'
    BY <1>0, <1>k DEF ControlInv, Undisturbed
  <1>1. ASSUME NEW m \in Modes, Compare(m) PROVE ControlInv'
    <2>1. m \in { "incremental", "full" } /\ events' \in 0..MaxEvents
      BY <1>1, <1>e, PassAssumption DEF Compare
    <2>2. /\ at = "off" /\ at' = "listing" /\ mode' = m /\ clean' = TRUE
          /\ (aborted' = aborted /\ progress' = progress /\ settled' = settled)
          /\ quiet' = ~stopMark /\ stopMark' = stopMark
      BY <1>1 DEF Compare
    <2> QED
      BY <1>0, <2>1, <2>2 DEF ControlInv, Undisturbed
  <1>2. ASSUME NEW side \in Side, NEW dir \in Dirs, List(side, dir) PROVE ControlInv'
    <2>1. /\ at' = at /\ mode' = mode /\ aborted' = aborted /\ progress' = progress
          /\ events' = events /\ clean' = clean /\ quiet' = quiet /\ settled' = settled
      BY <1>2 DEF List, historyVars
    <2>2. stopMark' \in BOOLEAN /\ (stopMark' => stopMark)
      BY <1>0, <1>2 DEF List, OnlyRecord, ListChildren, LoopGoesOn
    <2> QED
      BY <1>k, <2>1, <2>2
  <1>3. CASE StartPass2
    <2>1. CountFilePairs(Root) \in Nat
      BY FilePairsFinite
    <2>2. /\ progress' \in [processed : Nat, total : Nat] /\ at = "listing" /\ at' = "run"
          /\ (mode' = mode /\ aborted' = aborted /\ events' = events /\ clean' = clean /\ quiet' = quiet /\ settled' = settled)
      BY <1>3, <2>1 DEF StartPass2, historyVars
    <2>3. stopMark' = stopMark
      BY <1>3 DEF StartPass2
    <2> QED
      BY <1>0, <2>2, <2>3 DEF ControlInv, Undisturbed
  <1>4. CASE Enter
    <2>1. CountFilePairs(Top.dir) \in Nat
      BY FilePairsFinite
    <2>2. /\ progress' \in [processed : Nat, total : Nat]
          /\ (at' = at /\ mode' = mode /\ aborted' = aborted /\ events' = events /\ clean' = clean /\ quiet' = quiet /\ settled' = settled)
      BY <1>0, <1>4, <2>1 DEF Enter, historyVars
    <2>3. stopMark' = stopMark
      BY <1>4 DEF Enter, engineVars
    <2> QED
      BY <1>0, <2>2, <2>3 DEF ControlInv, Undisturbed
  <1>5. CASE (\E path \in Dirs \cup Files : NextEntry(path)) \/ FinishDir
    <2>1. /\ at' = at /\ mode' = mode /\ aborted' = aborted /\ progress' = progress
          /\ events' = events /\ clean' = clean /\ quiet' = quiet /\ settled' = settled
      BY <1>5 DEF NextEntry, FinishDir, historyVars
    <2>2. stopMark' = stopMark
      BY <1>5 DEF NextEntry, FinishDir, engineVars
    <2> QED
      BY <1>0, <1>k, <2>1, <2>2
  <1>6. CASE PairDone
    <2>1. /\ progress' \in [processed : Nat, total : Nat]
          /\ (at' = at /\ mode' = mode /\ aborted' = aborted /\ events' = events /\ clean' = clean /\ quiet' = quiet /\ settled' = settled)
      BY <1>0, <1>6 DEF PairDone, historyVars
    <2>2. stopMark' = stopMark
      BY <1>6 DEF PairDone, engineVars
    <2> QED
      BY <1>0, <2>1, <2>2 DEF ControlInv, Undisturbed
  <1>7. CASE ReadNext
    BY <1>0, <1>k, <1>7 DEF ReadNext, historyVars, engineVars
  <1>8. CASE HashSucceeds
    BY <1>0, <1>k, <1>8 DEF HashSucceeds, historyVars, engineVars
  <1>9. CASE HashFails
    BY <1>0, <1>k, <1>9 DEF HashFails, historyVars, engineVars
  <1>10. CASE Cancel
    BY <1>0, <1>k, <1>10 DEF Cancel, historyVars, engineVars
  <1>11. CASE EndPass2
    <2>1. /\ at' = "off" /\ aborted' = FALSE /\ progress' = NoProgress
          /\ (mode' = mode /\ events' = events /\ clean' = clean /\ quiet' = quiet)
          /\ stopMark' = stopMark
      BY <1>11 DEF EndPass2, engineVars
    <2>2. settled' = (Undisturbed /\ \A side \in Side :
                        /\ \A file \in Files : ~facts[side][file].failed
                        /\ \A dir \in Dirs : ~HasError(side, dir))
      BY <1>11 DEF EndPass2
    <2>3. settled' \in BOOLEAN /\ (settled' => Undisturbed)
      BY <2>2, Zenon
    <2>4. Undisturbed' <=> Undisturbed
      BY <2>1 DEF Undisturbed
    <2> QED
      BY <1>0, <2>1, <2>3, <2>4 DEF ControlInv, NoProgress
  <1>12. CASE Restart
    <2>1. /\ at' = "off" /\ aborted' = FALSE /\ progress' = NoProgress
          /\ clean' = FALSE /\ settled' = FALSE /\ mode' = mode /\ events' \in 0..MaxEvents
          /\ quiet' = quiet
      BY <1>12, <1>e DEF Restart
    <2> QED
      BY <1>0, <2>1 DEF ControlInv, NoProgress, Undisturbed
  <1>13. CASE Stop
    <2>1. /\ clean' = FALSE /\ settled' = FALSE /\ at' = at /\ mode' = mode /\ progress' = progress
          /\ quiet' = quiet /\ events' \in 0..MaxEvents /\ aborted' = (at = "hash")
      BY <1>13, <1>e DEF Stop
    <2> QED
      BY <1>0, <2>1 DEF ControlInv, Undisturbed
  <1>14. CASE Changes
    <2>1. /\ clean' = FALSE /\ settled' = FALSE /\ at' = at /\ mode' = mode
          /\ progress' = progress /\ aborted' = aborted /\ quiet' = quiet
          /\ events' \in 0..MaxEvents
      BY <1>14, <1>e DEF Changes, passVars
    <2> QED
      BY <1>0, <2>1 DEF ControlInv, Undisturbed
  <1>15. CASE UNCHANGED vars
    <2>1. /\ at' = at /\ mode' = mode /\ aborted' = aborted /\ progress' = progress
          /\ events' = events /\ clean' = clean /\ quiet' = quiet /\ settled' = settled
      BY <1>15 DEF vars, passVars, historyVars
    <2>2. stopMark' = stopMark
      BY <1>15 DEF vars, passVars, engineVars
    <2> QED
      BY <1>0, <1>k, <2>1, <2>2
  <1> QED
    BY <1>1, <1>2, <1>3, <1>4, <1>5, <1>6, <1>7, <1>8, <1>9, <1>10, <1>11, <1>12, <1>13,
       <1>14, <1>15
    DEF Next, Pass1, Pass2, Environment, Edit, Delete, SetIgnored

LEMMA TInit == Init => TInv
  <1> SUFFICES ASSUME Init PROVE TInv
    OBVIOUS
  <1>1. RowsInv
    <2>1. /\ node = [side \in Side |-> [dir \in Dirs |-> NoNode]]
          /\ facts = [side \in Side |-> [file \in Files |-> NoFacts]]
      BY DEF Init, NoNodes, NoFileRows
    <2>2. \A side \in Side, dir \in Dirs : IsRow(node[side][dir])
      BY <2>1, NoNodeIsRow
    <2>3. node = [side \in Side |-> [dir \in Dirs |-> node[side][dir]]]
      BY <2>1
    <2>4. facts \in [Side -> [Files -> FactRow]]
      BY <2>1, NoFactsIsRow
    <2> QED
      BY <2>2, <2>3, <2>4, Zenon DEF RowsInv, IsTable
  <1>2. ListInv
    BY DEF Init, ListInv, NothingToList
  <1>3. IsNest(frames) /\ PairInv
    BY EmptyNest DEF Init, PairInv
  <1>4. ControlInv
    <2>1. /\ at = "off" /\ mode = "incremental" /\ aborted = FALSE /\ clean = FALSE
          /\ quiet = FALSE /\ settled = FALSE /\ events = 0 /\ progress \in [processed : Nat, total : Nat]
      BY DEF Init, NoProgress
    <2>2. 0 \in 0..MaxEvents
      BY PassAssumption
    <2> QED
      BY <2>1, <2>2 DEF ControlInv, Undisturbed
  <1>5. HeldInv
    <2>1. \A dir \in Dirs : held[dir] = [node |-> node, facts |-> facts]
      BY DEF Init, NothingHeld
    <2>2. held = [dir \in Dirs |-> held[dir]]
      BY <2>1 DEF Init, NothingHeld
    <2> QED
      BY <1>1, <2>1, <2>2 DEF HeldInv, RowsInv
  <1> QED
    BY <1>1, <1>2, <1>3, <1>4, <1>5, TreesInit DEF TInv

LEMMA TNext == TInv /\ [Next]_vars => TInv'
  BY TreesNext, RowsNext, ListNext, NestNext, ControlNext, HeldNext DEF TInv

LEMMA TypesAlways == Spec => []TInv
  BY TInit, TNext, PTL DEF Spec

LEMMA TypesFollow == TInv => TypeOK
  <1> SUFFICES ASSUME TInv PROVE TypeOK
    OBVIOUS
  <1>0. TreesInv /\ RowsInv /\ ListInv /\ IsNest(frames) /\ PairInv /\ ControlInv
    BY DEF TInv
  <1>1. \A side \in Side, dir \in Dirs :
          /\ node[side][dir].outcome \in { "none", "pending", "done", "error", "stopped" }
          /\ { node[side][dir].unreadable, node[side][dir].resolved } \subseteq BOOLEAN
          /\ Cardinality(node[side][dir].checksum) <= 1
    <2> SUFFICES ASSUME NEW side \in Side, NEW dir \in Dirs
                 PROVE  /\ node[side][dir].outcome \in { "none", "pending", "done", "error", "stopped" }
                        /\ { node[side][dir].unreadable, node[side][dir].resolved } \subseteq BOOLEAN
                        /\ Cardinality(node[side][dir].checksum) <= 1
      OBVIOUS
    <2> DEFINE row == node[side][dir]
    <2>1. IsRow(row)
      BY <1>0 DEF RowsInv, IsTable
    <2> HIDE DEF row
    <2>2. PICK Sums : row \in [outcome : Outcomes, unreadable : BOOLEAN, checksum : Sums,
                               resolved : BOOLEAN]
      BY <2>1 DEF IsRow
    <2>3. Cardinality(row.checksum) <= 1
      <3>1. CASE row.checksum = {}
        BY <3>1, FS_EmptySet
      <3>2. ASSUME NEW sum, row.checksum = { sum } PROVE Cardinality(row.checksum) <= 1
        BY <3>2, FS_Singleton
      <3> QED
        BY <2>1, <3>1, <3>2 DEF IsRow, IsSum
    <2> QED
      BY <2>2, <2>3 DEF row, Outcomes
  <1>2. \A k \in 1..Len(frames) :
          /\ frames[k].todo \subseteq Dirs \cup Files
          /\ k < Len(frames) => /\ frames[k].entered
                                /\ frames[k].dir = ParentPath(frames[k + 1].dir)
    <2> SUFFICES ASSUME NEW k \in 1..Len(frames)
                 PROVE  /\ frames[k].todo \subseteq Dirs \cup Files
                        /\ k < Len(frames) => /\ frames[k].entered
                                              /\ frames[k].dir = ParentPath(frames[k + 1].dir)
      OBVIOUS
    <2>1. frames[k].todo \subseteq Dirs \cup Files
      BY <1>0, FrameTypes DEF IsNest, AllPaths
    <2>2. Len(frames) \in Nat
      BY <1>0, StackFacts DEF IsNest
    <2>3. ASSUME k < Len(frames) PROVE k \in 1..(Len(frames) - 1)
      BY <2>2, <2>3
    <2> QED
      BY <1>0, <2>1, <2>3 DEF IsNest
  <1>3. /\ facts \in [Side -> [Files ->
              [size : Nat, version : 0..3, partial : Content \cup {0},
               full : Content \cup {0}, failed : BOOLEAN]]]
        /\ disk \in [Side -> [Files -> [content : Content \cup {0}, version : 0..3]]]
        /\ dirs \in [Side -> SUBSET Dirs]
        /\ ignored \subseteq Side \X (Dirs \cup Files)
    BY <1>0 DEF RowsInv, FactRow, TreesInv, AllPaths
  <1>4. /\ \A side \in Side :
              /\ toList[side] \subseteq IF at = "listing" THEN Dirs ELSE {}
              /\ \A dir \in toList[side] :
                    node[side][dir].outcome = "pending" \/ (dir = Root /\ stopMark)
        /\ stopMark \in BOOLEAN /\ leftover \subseteq Side \X Dirs
        /\ leftover # {} => stopMark
    BY <1>0 DEF ListInv
  <1>5. /\ at = "hash" => pair # NoPair
        /\ pair # NoPair => frames # << >> /\ Top.entered /\ ParentPath(pair.file) = Top.dir
    BY <1>0 DEF PairInv
  <1> QED
    BY <1>0, <1>1, <1>2, <1>3, <1>4, <1>5 DEF TypeOK, ControlInv

\* The rows, the activations and the progress always have their types; what
\* Pass 1 has still to list is pending; an activation below the innermost has
\* been entered and waits for the one above it, which compares one of its
\* entries; a pair of files is compared in an activation that has been entered.
THEOREM TypeCorrect == Spec => []TypeOK
  BY TypesAlways, TypesFollow, PTL

-----------------------------------------------------------------------------
(* The progress *)

\* Nothing is known both as a directory and as a file of one side.
KindsApart == \A side \in Side : KnownDirs(side) \cap KnownFiles(side) = {}

LEMMA KindsAfterListing ==
    ASSUME TInv, KindsApart, NEW side \in Side, NEW dir \in Dirs, NEW hidden,
           ListChildren(side, dir, hidden)
    PROVE  KindsApart'
  <1>0. TreesInv /\ RowsInv /\ ListInv /\ \A s \in Side, d \in Dirs : IsRow(node[s][d])
    BY DEF TInv, RowsInv, IsTable
  <1>1. /\ \A d \in Dirs : node'[side][d] =
              IF d = dir THEN OwnResult(node[side][d], "done", hidden # {})
              ELSE IF d \in Kids(side, dir) THEN ChildRow(node[side][d])
              ELSE IF Forgotten(side, dir, d) THEN NoNode
              ELSE node[side][d]
        /\ \A file \in Files : facts'[side][file] =
              IF file \in FilesSeen(side, dir, hidden)
                THEN FileFacts(facts[side][file], disk[side][file])
              ELSE IF ParentPath(file) = dir \/ Forgotten(side, dir, file) THEN NoFacts
              ELSE facts[side][file]
        /\ \A s \in Side \ { side } : node'[s] = node[s] /\ facts'[s] = facts[s]
    BY <1>0, ListChildrenRows
  <1>2. node'[side][dir].outcome # "none" => node[side][dir].outcome # "none"
    <2>1. node'[side][dir] = OwnResult(node[side][dir], "done", hidden # {})
      BY <1>1
    <2> DEFINE row == node[side][dir]
               unreadable == hidden # {}
    <2>2. IsRow(row) /\ unreadable \in BOOLEAN
      BY <1>0
    <2>3. node'[side][dir] = OwnResult(row, "done", unreadable)
      BY <2>1
    <2> HIDE DEF row, unreadable
    <2>4. OwnResult(row, "done", unreadable).outcome = "none" <=> row.outcome = "none"
      BY <2>2, OwnResultRow
    <2> QED
      BY <2>3, <2>4 DEF row
  <1>3. ASSUME NEW path \in Dirs, path \in Files, node'[side][path].outcome # "none",
               facts'[side][path].version # 0
        PROVE  FALSE
    <2>1. path # Root /\ path \in AllPaths
      BY <1>3, PassAssumption DEF AllPaths
    <2>2. CASE path \in Kids(side, dir)
      <3>1. path \in dirs[side] /\ ParentPath(path) = dir
        BY <2>2 DEF Kids, ChildrenOf
      <3>2. path \notin FilesSeen(side, dir, hidden)
        BY <1>0, <1>3, <3>1 DEF FilesSeen, ChildrenOf, TreesInv
      <3> QED
        BY <1>1, <1>3, <3>1, <3>2, NoFactsIsRow
    <2>3. CASE path \notin Kids(side, dir) /\ path # dir
      <3>1. node'[side][path] = node[side][path] /\ ~Forgotten(side, dir, path)
        BY <1>1, <1>3, <2>3, NoNodeIsRow
      <3>2. path \in KnownDirs(side)
        BY <1>3, <3>1 DEF KnownDirs
      <3>3. ParentPath(path) # dir
        <4> SUFFICES ASSUME ParentPath(path) = dir PROVE FALSE
          OBVIOUS
        <4>1. path \in ChildrenOf(dir, KnownDirs(side)) \ Kids(side, dir)
          BY <2>1, <2>3, <3>2 DEF ChildrenOf
        <4>2. IsWithinSubtree(path, path)
          BY <2>1, PathFacts DEF IsWithinSubtree
        <4> QED
          BY <3>1, <4>1, <4>2 DEF Forgotten
      <3>4. path \notin FilesSeen(side, dir, hidden)
        BY <3>3 DEF FilesSeen, ChildrenOf
      <3>5. facts'[side][path] = facts[side][path]
        BY <1>1, <1>3, <3>1, <3>3, <3>4
      <3>6. path \in KnownFiles(side)
        BY <1>3, <3>5 DEF KnownFiles
      <3> QED
        BY <3>2, <3>6 DEF KindsApart
    <2>4. CASE path = dir
      <3>1. path \in KnownDirs(side)
        BY <1>2, <1>3, <2>4 DEF KnownDirs
      <3>2. ParentPath(path) # path
        BY <2>1, ChildWithin
      <3>3. path \notin FilesSeen(side, dir, hidden)
        BY <2>4, <3>2 DEF FilesSeen, ChildrenOf
      <3>4. facts'[side][path] = facts[side][path]
        BY <1>1, <1>3, <3>3, NoFactsIsRow
      <3>5. path \in KnownFiles(side)
        BY <1>3, <3>4 DEF KnownFiles
      <3> QED
        BY <3>1, <3>5 DEF KindsApart
    <2> QED
      BY <2>2, <2>3, <2>4
  <1>4. \A s \in Side \ { side } : \A path \in Dirs \cap Files :
            ~(node'[s][path].outcome # "none" /\ facts'[s][path].version # 0)
    BY <1>1 DEF KindsApart, KnownDirs, KnownFiles
  <1> QED
    BY <1>3, <1>4 DEF KindsApart, KnownDirs, KnownFiles

\* Pass 2 leaves alone what is known of the two trees.
KeepsKnown ==
    \A side \in Side : /\ \A dir \in Dirs : node'[side][dir].outcome = node[side][dir].outcome
                       /\ \A file \in Files : facts'[side][file].version = facts[side][file].version

LEMMA Pass2KeepsKnown ==
    ASSUME TInv, Pass2
    PROVE  KeepsKnown /\ UNCHANGED worldVars
  <1>0. TreesInv /\ RowsInv /\ IsNest(frames) /\ PairInv
    BY DEF TInv
  <1>1. UNCHANGED worldVars
    BY DEF Pass2, Enter, ReadNext, HashSucceeds, HashFails, Cancel, PairDone,
       FinishDir, EndPass2, NextEntry
  <1> SUFFICES KeepsKnown
    BY <1>1
  <1>2. CASE UNCHANGED rowVars
    BY <1>2 DEF KeepsKnown, rowVars
  <1>3. CASE Enter
    <2>1. facts' = facts
      BY <1>3 DEF Enter
    <2>2. CASE node' = node
      BY <1>2, <2>1, <2>2 DEF rowVars
    <2>3. CASE node' # node
      <3> DEFINE dir == Top.dir
      <3>1. node' = [side \in Side |-> [below \in Dirs |->
                 [node[side][below] EXCEPT !.resolved =
                    @ \/ (IsWithinSubtree(below, dir) /\ node[side][below].checksum # {})]]]
        BY <1>3, <2>3 DEF Enter
      <3> HIDE DEF dir
      <3>3. \A side \in Side, d \in Dirs :
                 LET old == node[side][d]
                     new == node'[side][d]
                 IN  /\ new.outcome = old.outcome /\ new.unreadable = old.unreadable
                     /\ new.checksum = old.checksum
                     /\ new.resolved = (old.resolved \/
                                          (IsWithinSubtree(d, dir) /\ old.checksum # {}))
        BY <1>0, <2>1, <3>1, CacheHitRows, Zenon
      <3>2. \A side \in Side, d \in Dirs : node'[side][d].outcome = node[side][d].outcome
        BY <3>3
      <3> QED
        BY <2>1, <3>2 DEF KeepsKnown
    <2> QED
      BY <2>2, <2>3
  <1>4. CASE FinishDir
    <2>1. \A side \in Side, file \in Files : facts'[side][file].version = facts[side][file].version
      BY <1>0, <1>4, FinishRows, UnreadRows DEF RowsInv
    <2>2. \A side \in Side, d \in Dirs : node'[side][d].outcome = node[side][d].outcome
      BY <1>0, <1>4, FinishRows
    <2> QED
      BY <2>1, <2>2 DEF KeepsKnown
  <1>5. CASE HashSucceeds
    <2>1. \A side \in Side, file \in Files : facts'[side][file].version = facts[side][file].version
      BY <1>0, <1>5, ReadRows
    <2>2. node' = node
      BY <1>5 DEF HashSucceeds
    <2> QED
      BY <2>1, <2>2 DEF KeepsKnown
  <1>6. CASE HashFails
    <2>1. \A side \in Side, file \in Files : facts'[side][file].version = facts[side][file].version
      BY <1>0, <1>6, FailRows
    <2>2. \A side \in Side, d \in Dirs : node'[side][d].outcome = node[side][d].outcome
      BY <1>0, <1>6, FailRows, UnreadRows DEF RowsInv, IsTable
    <2> QED
      BY <2>1, <2>2 DEF KeepsKnown
  <1>7. UNCHANGED rowVars \/ Enter \/ FinishDir \/ HashSucceeds \/ HashFails
    BY DEF Pass2, ReadNext, Cancel, PairDone, EndPass2, NextEntry, rowVars
  <1> QED
    BY <1>2, <1>3, <1>4, <1>5, <1>6, <1>7

LEMMA KnownStays ==
    ASSUME KeepsKnown
    PROVE  \A side \in Side : KnownDirs(side)' = KnownDirs(side) /\ KnownFiles(side)' = KnownFiles(side)
  BY DEF KeepsKnown, KnownDirs, KnownFiles

LEMMA PairsStay ==
    ASSUME KeepsKnown, ignored' = ignored
    PROVE  /\ \A path : PairIgnored(path)' <=> PairIgnored(path)
           /\ \A dir : FilePairs(dir)' = FilePairs(dir)
  <1>1. \A side \in Side : KnownDirs(side)' = KnownDirs(side) /\ KnownFiles(side)' = KnownFiles(side)
    BY KnownStays
  <1>2. \A path : PairIgnored(path)' <=> PairIgnored(path)
    BY <1>1 DEF PairIgnored
  <1>3. ASSUME NEW dir PROVE FilePairs(dir)' = FilePairs(dir)
    <2>1. /\ KnownFiles("left")' = KnownFiles("left") /\ KnownFiles("right")' = KnownFiles("right")
          /\ KnownDirs("left")' = KnownDirs("left") /\ KnownDirs("right")' = KnownDirs("right")
      BY <1>1 DEF Side
    <2> QED
      BY <1>2, <2>1 DEF FilePairs
  <1> QED
    BY <1>2, <1>3

\* What is known changes only where a comparison begins or a directory is listed.
LEMMA KnownSteps ==
    ASSUME TInv, [Next]_vars
    PROVE  \/ \A side \in Side : KnownDirs(side)' = KnownDirs(side) /\ KnownFiles(side)' = KnownFiles(side)
           \/ /\ \E m \in Modes : Compare(m)
              /\ \A side \in Side : /\ KnownDirs(side)' = KnownDirs(side) \cup { Root }
                                    /\ KnownFiles(side)' = KnownFiles(side)
           \/ \E side \in Side, dir \in Dirs : \E hidden :
                 /\ InTurn(side, dir) /\ dir \in dirs[side] /\ UNCHANGED worldVars
                 /\ ListChildren(side, dir, hidden)
  <1> DEFINE Same == \A side \in Side : KnownDirs(side)' = KnownDirs(side) /\ KnownFiles(side)' = KnownFiles(side)
  <1>0. TreesInv /\ RowsInv /\ IsNest(frames) /\ PairInv /\ \A s \in Side, d \in Dirs : IsRow(node[s][d])
    BY DEF TInv, RowsInv, IsTable
  <1>2. CASE KeepsKnown
    BY <1>2, KnownStays
  <1>3. CASE UNCHANGED rowVars
    BY <1>2, <1>3 DEF rowVars, KeepsKnown
  <1>4. CASE Pass2
    BY <1>2, <1>4, Pass2KeepsKnown
  <1>5. ASSUME NEW side \in Side, NEW dir \in Dirs, NEW outcome \in { "done", "error" },
               OnlyRecord(side, dir, outcome)
        PROVE  Same
    <2>1. /\ node'[side][dir] = OwnResult(node[side][dir], outcome, FALSE)
          /\ \A s \in Side, d \in Dirs : s # side \/ d # dir => node'[s][d] = node[s][d]
          /\ facts' = facts
      BY <1>0, <1>5, OnlyRecordRows
    <2> DEFINE row == node[side][dir]
               new == OwnResult(row, outcome, FALSE)
    <2>2. IsRow(row) /\ FALSE \in BOOLEAN /\ node'[side][dir] = new
      BY <1>0, <2>1
    <2> HIDE DEF row
    <2>3. new.outcome = "none" <=> row.outcome = "none"
      BY <2>2, <1>5, OwnResultRow
    <2> HIDE DEF new
    <2>4. node'[side][dir].outcome = "none" <=> node[side][dir].outcome = "none"
      BY <2>2, <2>3 DEF row
    <2>5. \A s \in Side : KnownDirs(s)' = KnownDirs(s)
      BY <2>1, <2>4 DEF KnownDirs
    <2> QED
      BY <2>1, <2>5 DEF KnownFiles
  <1>6. ASSUME NEW m \in Modes, Compare(m)
        PROVE  \A side \in Side : /\ KnownDirs(side)' = KnownDirs(side) \cup { Root }
                                  /\ KnownFiles(side)' = KnownFiles(side)
    <2>1. /\ \A side \in Side, dir \in Dirs : node'[side][dir].outcome =
                IF dir = Root THEN "pending" ELSE node[side][dir].outcome
          /\ \A side \in Side, file \in Files :
                facts'[side][file].version = facts[side][file].version
      BY <1>0, <1>6, CompareRows
    <2>2. Root \in Dirs
      BY PassAssumption
    <2> QED
      BY <2>1, <2>2 DEF KnownDirs, KnownFiles
  <1>7. ASSUME node' = StoppedRows(node), facts' = facts PROVE Same
    <2>1. \A side \in Side, dir \in Dirs : node'[side][dir].outcome =
             IF node[side][dir].outcome = "pending" THEN "stopped" ELSE node[side][dir].outcome
      BY <1>0, <1>7, StoppedTable DEF RowsInv
    <2>2. \A side \in Side : KnownDirs(side)' = KnownDirs(side)
      BY <2>1 DEF KnownDirs
    <2> QED
      BY <1>7, <2>2 DEF KnownFiles
  <1>8. CASE Environment
    BY <1>3, <1>6, <1>7, <1>8
    DEF Environment, Stop, Restart, Edit, Delete, SetIgnored, Changes, rowVars
  <1>9. CASE StartPass2 \/ UNCHANGED vars
    BY <1>3, <1>9 DEF StartPass2, vars
  <1>10. CASE \E side \in Side, dir \in Dirs : List(side, dir)
    BY <1>5, <1>10 DEF List
  <1> QED
    BY <1>4, <1>8, <1>9, <1>10 DEF Next, Pass1

LEMMA KindsNext == TInv /\ KindsApart /\ [Next]_vars => KindsApart'
  <1> SUFFICES ASSUME TInv, KindsApart, [Next]_vars PROVE KindsApart'
    OBVIOUS
  <1>1. Root \notin Files
    BY PassAssumption
  <1> QED
    BY <1>1, KnownSteps, KindsAfterListing DEF KindsApart, KnownFiles

\* An activation lies on the way to those above it.
LEMMA NestChain ==
    ASSUME NEW s, IsNest(s), NEW j \in 1..Len(s), NEW k \in 1..Len(s), j <= k
    PROVE  IsWithinSubtree(s[k].dir, s[j].dir)
  <1> DEFINE T == { i \in 1..Len(s) : j <= i /\ ~IsWithinSubtree(s[i].dir, s[j].dir) }
  <1>0. Len(s) \in Nat
    BY StackFacts DEF IsNest
  <1>1. T \subseteq Nat
    BY <1>0
  <1>2. ASSUME T # {} PROVE FALSE
    <2>1. PICK n \in T : \A i \in T : n <= i
      BY <1>1, <1>2, LeastNatural
    <2>2. n \in 1..Len(s) /\ j <= n /\ ~IsWithinSubtree(s[n].dir, s[j].dir)
      BY <2>1
    <2>3. \A i \in 1..Len(s) : s[i].dir \in AllPaths
      BY FrameTypes DEF IsNest, AllPaths
    <2>4. n # j
      BY <2>2, <2>3, PathFacts DEF IsWithinSubtree
    <2>5. PICK i \in 1..(Len(s) - 1) : n = i + 1
      <3>1. n - 1 \in 1..(Len(s) - 1) /\ n = (n - 1) + 1
        BY <1>0, <2>2, <2>4
      <3> QED
        BY <3>1
    <2>6. i \notin T
      BY <2>1, <2>5
    <2>7. i \in 1..Len(s) /\ j <= i
      BY <1>0, <2>2, <2>4, <2>5
    <2>8. IsWithinSubtree(s[i].dir, s[j].dir)
      BY <2>6, <2>7
    <2>9. s[n].dir # Root /\ ParentPath(s[n].dir) = s[i].dir
      BY <2>5 DEF IsNest
    <2>10. IsWithinSubtree(s[n].dir, s[i].dir)
      BY <2>2, <2>3, <2>9, ChildWithin
    <2> QED
      BY <2>2, <2>3, <2>8, <2>10, WithinTransitive
  <1> QED
    BY <1>2

\* What an activation has yet to come to lies apart from those above it.
LEMMA NestApart ==
    ASSUME NEW s, IsNest(s), NEW k \in 1..Len(s), NEW i \in 1..(k - 1),
           NEW path \in s[i].todo, NEW file \in AllPaths, IsWithinSubtree(file, path)
    PROVE  ~IsWithinSubtree(file, s[k].dir)
  <1> SUFFICES ASSUME IsWithinSubtree(file, s[k].dir) PROVE FALSE
    OBVIOUS
  <1>0. Len(s) \in Nat
    BY StackFacts DEF IsNest
  <1>1. /\ i \in 1..Len(s) /\ i \in 1..(Len(s) - 1) /\ i + 1 \in 1..Len(s) /\ i + 1 <= k
    BY <1>0
  <1>2. /\ s[i + 1].dir # Root /\ ParentPath(s[i + 1].dir) = s[i].dir
        /\ s[i + 1].dir \notin s[i].todo
    BY <1>1 DEF IsNest
  <1>3. path # Root /\ ParentPath(path) = s[i].dir
    BY <1>1, FrameTypes DEF IsNest
  <1>4. IsWithinSubtree(s[k].dir, s[i + 1].dir)
    BY <1>1, NestChain
  <1>5. IsWithinSubtree(file, s[i + 1].dir)
    BY <1>4, WithinTransitive
  <1>6. path = s[i + 1].dir
    BY <1>2, <1>3, <1>5, ChildIsUnique DEF IsWithinSubtree
  <1> QED
    BY <1>2, <1>6

LEMMA NestDistinct ==
    ASSUME NEW s, IsNest(s), NEW k \in 1..Len(s), NEW i \in 1..(k - 1)
    PROVE  s[i].dir # s[k].dir
  <1>0. Len(s) \in Nat
    BY StackFacts DEF IsNest
  <1>1. /\ i \in 1..Len(s) /\ i \in 1..(Len(s) - 1) /\ i + 1 \in 1..Len(s) /\ i + 1 <= k
    BY <1>0
  <1>2. s[i + 1].dir # Root /\ ParentPath(s[i + 1].dir) = s[i].dir
    BY <1>1 DEF IsNest
  <1>3. IsWithinSubtree(s[k].dir, s[i + 1].dir)
    BY <1>1, NestChain
  <1>4. s[i + 1].dir \in AllPaths \ { Root }
    BY <1>1, <1>2, FrameTypes DEF IsNest, AllPaths
  <1>5. ~IsWithinSubtree(s[i].dir, s[i + 1].dir)
    BY <1>2, <1>4, ChildWithin
  <1> QED
    BY <1>3, <1>5

-----------------------------------------------------------------------------
(* Where no Stop interferes, what an activation holds is what there is *)

\* The steps of Pass 2 as they are when it reads every row where it uses it.
KindNow(side, path) ==
    IF path \in KnownDirs(side) THEN "directory"
    ELSE IF path \in KnownFiles(side) THEN "file" ELSE "none"

EmptyNow(side, dir) ==
    /\ \A below \in KnownDirs(side) : IsWithinSubtree(below, dir) =>
          node[side][below].outcome = "done" /\ ~node[side][below].unreadable
    /\ \A file \in KnownFiles(side) : ~IsWithinSubtree(file, dir)

AbsentNow(path) ==
    \E side, other \in Side : /\ KindNow(side, path) = "directory"
                              /\ KindNow(other, path) = "none"
                              /\ EmptyNow(side, path)

ValidNow(side, dir) ==
    /\ \A below \in KnownDirs(side) : IsWithinSubtree(below, dir) =>
          /\ node[side][below].checksum # {}
          /\ ~node[side][below].unreadable
          /\ node[side][below].outcome = "done"
    /\ \A file \in KnownFiles(side) : IsWithinSubtree(file, dir) =>
          facts[side][file].partial # 0 \/ facts[side][file].full # 0

HitNow(dir) ==
    /\ mode = "incremental"
    /\ node["left"][dir].checksum # {}
    /\ node["left"][dir].checksum = node["right"][dir].checksum
    /\ \A side \in Side : ValidNow(side, dir)

EnterNow ==
    /\ at = "run" /\ frames # << >> /\ ~Top.entered /\ ~aborted
    /\ LET dir == Top.dir
       IN  \/ /\ PairIgnored(dir)
              /\ frames' = Returned({}, {})
              /\ UNCHANGED << node, progress >>
           \/ /\ ~PairIgnored(dir) /\ HitNow(dir)
              /\ node' = [side \in Side |-> [below \in Dirs |->
                     [node[side][below] EXCEPT !.resolved =
                         @ \/ (IsWithinSubtree(below, dir) /\ node[side][below].checksum # {})]]]
              /\ progress' = [progress EXCEPT !.processed = @ + CountFilePairs(dir)]
              /\ frames' = Returned(node["left"][dir].checksum, {})
           \/ /\ ~PairIgnored(dir) /\ ~HitNow(dir)
              /\ frames' = Append(Rest, [Top EXCEPT
                     !.entered = TRUE,
                     !.todo = Opened(dir),
                     !.errs = { side \in Side : HasError(side, dir) }])
              /\ UNCHANGED << node, progress >>
    /\ UNCHANGED << worldVars, facts, at, mode, engineVars, pair, aborted, events, historyVars >>

\* What the loop makes of one entry then.
SkipsNow(path) == PairIgnored(path) \/ AbsentNow(path)
DiffersNow(path) ==
    ~PairIgnored(path) /\ ~AbsentNow(path) /\ KindNow("left", path) # KindNow("right", path)
DescendsNow(path) ==
    ~PairIgnored(path) /\ \A side \in Side : KindNow(side, path) = "directory"
ComparesNow(path) ==
    ~PairIgnored(path) /\ \A side \in Side : KindNow(side, path) = "file"

AsHeld(dir, path) ==
    \A side \in Side :
        /\ path \in Dirs => held[dir].node[side][path] = node[side][path]
        /\ path \in Files => held[dir].facts[side][path] = facts[side][path]

\* What the activations have yet to come to is as it was when they began, and
\* what they have come to is known.
HeldRight ==
    /\ ~stopMark /\ leftover = {}
    /\ at = "listing" => \A side \in Side : Root \in KnownDirs(side)
    /\ \A side \in Side : \A k \in 1..Len(frames) : frames[k].dir \in KnownDirs(side)
    /\ pair # NoPair => \A side \in Side : pair.file \in KnownFiles(side)
    /\ \A k \in 1..Len(frames) : \A dir \in Dirs, path \in AllPaths :
          dir = frames[k].dir /\ path \in frames[k].todo => AsHeld(dir, path)
    /\ \A dir \in Dirs, path \in AllPaths :
          /\ frames # << >> /\ ~Top.entered /\ path = Top.dir /\ path # Root
          /\ dir = ParentPath(path)
          => AsHeld(dir, path)

\* It is so in a comparison that nothing interferes with, or where nobody stops.
Calm == Undisturbed \/ StopPhases = {}

HeldInCalm == Calm => HeldRight

LEMMA CalmSteps ==
    ASSUME TInv, [Next]_vars, Calm'
    PROVE  Calm \/ \E m \in Modes : Compare(m)
  <1>1. CASE Pass1
    BY <1>1 DEF Pass1, StartPass2, List, historyVars, Calm, Undisturbed
  <1>2. CASE Pass2
    BY <1>2 DEF Pass2, Enter, ReadNext, HashSucceeds, HashFails, Cancel, PairDone,
       FinishDir, EndPass2, NextEntry, historyVars, Calm, Undisturbed
  <1>3. CASE Environment
    BY <1>3 DEF Environment, Stop, Restart, Changes, Edit, Delete, SetIgnored, Calm, Undisturbed
  <1>4. CASE UNCHANGED vars
    BY <1>4 DEF vars, historyVars, Calm, Undisturbed
  <1> QED
    BY <1>1, <1>2, <1>3, <1>4 DEF Next

\* An entry the loop comes to is what the rows say it is.
LEMMA HeldEntry ==
    ASSUME TInv, HeldRight, frames # << >>, NEW path \in Top.todo
    PROVE  /\ \A side \in Side : KindOn(side, path) = KindNow(side, path)
           /\ \A side \in Side : path \in Files => Seen.facts[side][path] = facts[side][path]
           /\ EntryIgnored(path) <=> PairIgnored(path)
           /\ CountsAsAbsent(path) <=> AbsentNow(path)
  <1>1. /\ Len(frames) \in 1..Len(frames) /\ Top = frames[Len(frames)]
        /\ Top.dir \in Dirs /\ path \in AllPaths
    BY NestTop, FrameTypes DEF TInv, Top
  <1>2. AsHeld(Top.dir, path)
    BY <1>1 DEF HeldRight
  <1>3. \A side \in Side :
            /\ path \in Dirs => Seen.node[side][path] = node[side][path]
            /\ path \in Files => Seen.facts[side][path] = facts[side][path]
    BY <1>2 DEF AsHeld, Seen
  <1>4. \A side \in Side : KindOn(side, path) = KindNow(side, path)
    BY <1>3 DEF KindOn, KindNow, KnownDirs, KnownFiles
  <1>5. \A side \in Side : KindNow(side, path) # "none" <=>
                              path \in KnownDirs(side) \cup KnownFiles(side)
    BY DEF KindNow
  <1>6. EntryIgnored(path) <=> PairIgnored(path)
    BY <1>4, <1>5 DEF EntryIgnored, PairIgnored
  <1>7. ASSUME NEW side \in Side, KindNow(side, path) = "directory"
        PROVE  IsEmptyDirectorySubtree(Seen.node[side][path], side, path) <=> EmptyNow(side, path)
    <2>1. path \in KnownDirs(side) /\ Seen.node[side][path] = node[side][path]
      BY <1>3, <1>7 DEF KindNow, KnownDirs
    <2>2. IsWithinSubtree(path, path)
      BY <1>1, PathFacts DEF IsWithinSubtree
    <2> QED
      BY <2>1, <2>2 DEF IsEmptyDirectorySubtree, EmptyNow, DirsBelow, FilesBelow
  <1>8. CountsAsAbsent(path) <=> AbsentNow(path)
    BY <1>4, <1>7 DEF CountsAsAbsent, AbsentNow
  <1> QED
    BY <1>3, <1>4, <1>6, <1>8

LEMMA EntryStackNow ==
    ASSUME TInv, HeldRight, NEW path, NextEntry(path)
    PROVE  LET n == Len(frames)
               rest == frames'[n]
           IN  /\ IsNest(frames') /\ frames' # << >> /\ Len(frames') \in { n, n + 1 }
               /\ path \in AllPaths /\ path # Root /\ ParentPath(path) = Top.dir
               /\ \A i \in 1..(n - 1) : frames'[i] = frames[i]
               /\ rest.dir = Top.dir /\ rest.entered /\ rest.todo = Top.todo \ { path }
               /\ rest.errs = Top.errs
               /\ \/ /\ SkipsNow(path) /\ Len(frames') = n /\ rest.same = Top.same
                     /\ pair' = pair
                  \/ /\ DiffersNow(path) /\ Len(frames') = n /\ ~rest.same
                     /\ pair' = pair
                  \/ /\ DescendsNow(path) /\ Len(frames') = n + 1 /\ rest.same = Top.same
                     /\ path \in Dirs /\ frames'[n + 1] = Activation(path) /\ pair' = pair
                  \/ /\ ComparesNow(path) /\ Len(frames') = n /\ rest.same = Top.same
                     /\ path \in Files /\ pair' \in Pairs
                     /\ pair'.file = path /\ pair'.errs = {}
                     /\ \A side \in Side : pair'.seen[side] = Cached(facts[side][path])
  <1>1. frames # << >> /\ path \in Top.todo
    BY DEF NextEntry, Loops
  <1>2. IsNest(frames) /\ HeldInv
    BY DEF TInv
  <1>3. /\ \A side \in Side : KindOn(side, path) = KindNow(side, path)
        /\ \A side \in Side : path \in Files => Seen.facts[side][path] = facts[side][path]
        /\ EntryIgnored(path) <=> PairIgnored(path)
        /\ CountsAsAbsent(path) <=> AbsentNow(path)
    BY <1>1, HeldEntry
  <1>4. /\ SkipsEntry(path) <=> SkipsNow(path)
        /\ DiffersByKind(path) <=> DiffersNow(path)
        /\ DescendsInto(path) <=> DescendsNow(path)
        /\ ComparesFiles(path) <=> ComparesNow(path)
    BY <1>3 DEF SkipsEntry, SkipsNow, DiffersByKind, DiffersNow, DescendsInto, DescendsNow,
       ComparesFiles, ComparesNow, Side
  <1>5. \A side \in Side : path \in Files =>
            Cached(Seen.facts[side][path]) = Cached(facts[side][path])
    BY <1>3
  <1> QED
    BY <1>2, <1>4, <1>5, NextEntryStack

\* The row of the directory an activation begins with.
LEMMA HeldTop ==
    ASSUME TInv, HeldRight, frames # << >>, ~Top.entered
    PROVE  /\ \A side \in Side : Top.dir \in KnownDirs(side)
           /\ \A side \in Side : HeldNode(side, Top.dir) = node[side][Top.dir]
  <1> DEFINE dir == Top.dir
  <1>1. /\ Len(frames) \in 1..Len(frames) /\ Top = frames[Len(frames)]
        /\ dir \in Dirs /\ dir \in AllPaths
    BY NestTop, FrameTypes DEF TInv, Top, AllPaths
  <1>2. \A side \in Side : dir \in KnownDirs(side)
    BY <1>1 DEF HeldRight
  <1>3. CASE dir = Root
    BY <1>2, <1>3 DEF HeldNode
  <1>4. CASE dir # Root
    <2>1. ParentPath(dir) \in Dirs
      BY <1>1, <1>4, PassAssumption DEF AllPaths
    <2>2. AsHeld(ParentPath(dir), dir)
      BY <1>1, <1>4, <2>1 DEF HeldRight
    <2> QED
      BY <1>1, <1>2, <1>4, <2>2 DEF AsHeld, HeldNode
  <1> QED
    BY <1>3, <1>4

\* So is the directory an activation is about.
LEMMA EnterIsNow ==
    ASSUME TInv, HeldRight, Enter
    PROVE  EnterNow
  <1> DEFINE dir == Top.dir
  <1>1. frames # << >> /\ ~Top.entered
    BY DEF Enter
  <1>2. /\ Len(frames) \in 1..Len(frames) /\ Top = frames[Len(frames)]
        /\ dir \in Dirs /\ dir \in AllPaths
    BY <1>1, NestTop, FrameTypes DEF TInv, Top, AllPaths
  <1>3. \A side \in Side : dir \in KnownDirs(side)
    BY <1>1, HeldTop
  <1>4. \A side \in Side : HeldNode(side, dir) = node[side][dir]
    BY <1>1, HeldTop
  <1>5. PairIgnored(dir) <=> \E side \in Side : << side, dir >> \in ignored
    BY <1>3 DEF PairIgnored
  <1>6. \A side \in Side : IsCacheStillValid(node[side][dir], side, dir) <=> ValidNow(side, dir)
    <2>1. IsWithinSubtree(dir, dir)
      BY <1>2, PathFacts DEF IsWithinSubtree
    <2> QED
      BY <1>3, <2>1 DEF IsCacheStillValid, ValidNow, Vouches, DirsBelow, FilesBelow
  <1>7. CacheHit(dir) <=> HitNow(dir)
    BY <1>4, <1>6 DEF CacheHit, HitNow, Side
  <1>8. /\ HeldNode("left", dir).checksum = node["left"][dir].checksum
        /\ { side \in Side : InError(HeldNode(side, dir)) } = { side \in Side : HasError(side, dir) }
    BY <1>4 DEF HasError, Side
  <1> HIDE DEF dir
  <1> QED
    BY <1>5, <1>7, <1>8 DEF Enter, EnterNow, Opened, dir

\* A pair of files that is compared is known on both sides.
LEMMA CalmReads ==
    ASSUME TInv, HeldRight, HashSucceeds
    PROVE  LET content == disk[Reader][pair.file].content
               value == IF Stage = "partial" THEN PartialOf[content] ELSE content
           IN  \A side \in Side, file \in Files :
                    LET old == facts[side][file]
                        new == facts'[side][file]
                    IN  IF side = Reader /\ file = pair.file
                        THEN /\ new.size = old.size /\ new.version = old.version
                             /\ ~new.failed
                             /\ new.partial = IF Stage = "partial" THEN value ELSE old.partial
                             /\ new.full = IF Stage = "full" THEN value ELSE old.full
                        ELSE new = old
  <1>1. PairInv /\ TreesInv /\ RowsInv /\ at = "hash"
    BY DEF TInv, HashSucceeds
  <1>2. facts[Reader][pair.file].version # 0
    BY <1>1, ReaderFacts DEF HeldRight, KnownFiles
  <1> QED
    BY <1>1, <1>2, ReadRows

LEMMA CalmFails ==
    ASSUME TInv, KindsApart, HeldRight, HashFails
    PROVE  /\ \A side \in Side, file \in Files :
                LET old == facts[side][file]
                    new == facts'[side][file]
                IN  IF side = Reader /\ file = pair.file
                    THEN /\ new.size = old.size /\ new.version = old.version
                         /\ new.failed /\ new.partial = old.partial /\ new.full = old.full
                    ELSE new = old
           /\ node' = node
  <1>1. PairInv /\ RowsInv /\ at = "hash"
    BY DEF TInv, HashFails
  <1>2. Reader \in Side /\ pair.file \in KnownFiles(Reader)
    BY <1>1, ReaderFacts DEF HeldRight
  <1>3. facts[Reader][pair.file].version # 0
    BY <1>2 DEF KnownFiles
  <1>4. \A side \in Side, d \in Dirs : node'[side][d] = node[side][d]
    <2>1. pair.file \in Dirs => node[Reader][pair.file].outcome = "none"
      BY <1>2 DEF KindsApart, KnownDirs
    <2> QED
      BY <1>1, <2>1, FailRows DEF UnreadDir
  <1>5. node' = node
    <2>1. IsTable(node) /\ IsTable(node')
      BY <1>1, FailRows DEF RowsInv
    <2> QED
      BY <1>4, <2>1, Zenon DEF IsTable
  <1> QED
    BY <1>1, <1>3, <1>5, FailRows

LEMMA CalmFinish ==
    ASSUME TInv, KindsApart, HeldRight, FinishDir
    PROVE  LET checksum == IF Top.same /\ Top.errs = {} THEN { Top.kids } ELSE {}
           IN  /\ facts' = facts
               /\ \A side \in Side, d \in Dirs :
                    IF d # Top.dir THEN node'[side][d] = node[side][d]
                    ELSE /\ node'[side][d].outcome = node[side][d].outcome
                         /\ node'[side][d].unreadable =
                               (node[side][d].unreadable \/ side \in Top.errs)
                         /\ node'[side][d].checksum = checksum
                         /\ node'[side][d].resolved
  <1>1. IsNest(frames) /\ RowsInv /\ frames # << >>
    BY DEF TInv, FinishDir, Loops
  <1>2. \A side \in Side : Top.dir \in KnownDirs(side)
    BY <1>1, NestTop DEF HeldRight, Top
  <1> DEFINE sum == IF Top.same /\ Top.errs = {} THEN { Top.kids } ELSE {}
  <1>3. /\ RowsInv'
        /\ \A side \in Side, file \in Files :
              facts'[side][file] = IF file = Top.dir /\ side \in Top.errs
                                     THEN UnreadFile(facts[side][file])
                                   ELSE facts[side][file]
        /\ \A side \in Side, d \in Dirs :
              IF d # Top.dir \/ node[side][d].outcome = "none"
                THEN node'[side][d] = node[side][d]
              ELSE /\ node'[side][d].outcome = node[side][d].outcome
                   /\ node'[side][d].unreadable =
                         (node[side][d].unreadable \/ side \in Top.errs)
                   /\ node'[side][d].checksum = sum
                   /\ node'[side][d].resolved
    BY <1>1, FinishRows
  <1> HIDE DEF sum
  <1>4. \A side \in Side, file \in Files : facts'[side][file] = facts[side][file]
    <2>1. ASSUME NEW side \in Side, NEW file \in Files, file = Top.dir
          PROVE  UnreadFile(facts[side][file]) = facts[side][file]
      <3>1. facts[side][file].version = 0
        BY <1>2, <2>1 DEF KindsApart, KnownFiles
      <3> QED
        BY <3>1 DEF UnreadFile
    <2> QED
      BY <1>3, <2>1
  <1>5. facts' = facts
    <2>1. /\ facts \in [Side -> [Files -> FactRow]] /\ facts' \in [Side -> [Files -> FactRow]]
      BY <1>1, <1>3 DEF RowsInv
    <2> QED
      BY <1>4, <2>1
  <1>6. ASSUME NEW side \in Side, NEW d \in Dirs
        PROVE  IF d # Top.dir THEN node'[side][d] = node[side][d]
               ELSE /\ node'[side][d].outcome = node[side][d].outcome
                    /\ node'[side][d].unreadable =
                          (node[side][d].unreadable \/ side \in Top.errs)
                    /\ node'[side][d].checksum = sum
                    /\ node'[side][d].resolved
    <2>1. d = Top.dir => node[side][d].outcome # "none"
      BY <1>2 DEF KnownDirs
    <2>2. CASE d # Top.dir
      BY <1>3, <2>2, Zenon
    <2>3. CASE d = Top.dir
      <3>1. ~(d # Top.dir \/ node[side][d].outcome = "none")
        BY <2>1, <2>3
      <3>2. /\ node'[side][d].outcome = node[side][d].outcome
            /\ node'[side][d].unreadable = (node[side][d].unreadable \/ side \in Top.errs)
            /\ node'[side][d].checksum = sum
            /\ node'[side][d].resolved
        BY <1>3, <3>1, Zenon
      <3> QED
        BY <2>3, <3>2, Zenon
    <2> QED
      BY <2>2, <2>3
  <1> QED
    BY <1>5, <1>6 DEF sum

\* What the activations below the innermost have yet to come to lies apart from it.
LEMMA HeldBelow ==
    ASSUME TInv, HeldRight, frames # << >>, NEW i \in 1..(Len(frames) - 1),
           NEW dir \in Dirs, NEW path \in AllPaths,
           dir = frames[i].dir, path \in frames[i].todo
    PROVE  /\ AsHeld(dir, path) /\ dir # Top.dir
           /\ ~IsWithinSubtree(path, Top.dir) /\ path # Top.dir
  <1>1. /\ IsNest(frames) /\ Len(frames) \in Nat /\ Len(frames) \in 1..Len(frames)
        /\ Top = frames[Len(frames)] /\ Top.dir \in AllPaths
    BY NestTop DEF TInv, Top, AllPaths
  <1>2. i \in 1..Len(frames)
    BY <1>1
  <1>3. AsHeld(dir, path)
    BY <1>2 DEF HeldRight
  <1>4. dir # Top.dir
    BY <1>1, NestDistinct
  <1>5. ~IsWithinSubtree(path, Top.dir)
    <2>1. IsWithinSubtree(path, path)
      BY PathFacts DEF IsWithinSubtree
    <2> QED
      BY <1>1, <2>1, NestApart
  <1>6. path # Top.dir
    BY <1>1, <1>5, PathFacts DEF IsWithinSubtree
  <1> QED
    BY <1>3, <1>4, <1>5, <1>6

\* A step that changes neither what is known, nor a row an activation holds.
LEMMA HeldStill ==
    ASSUME TInv, HeldRight, KeepsKnown, ~stopMark', leftover' = {},
           at' = "listing" => at = "listing",
           frames' = frames, pair' # NoPair => pair # NoPair /\ pair'.file = pair.file,
           held' = held,
           \A k \in 1..Len(frames) : \A path \in frames[k].todo : \A side \in Side :
               /\ path \in Dirs => node'[side][path] = node[side][path]
               /\ path \in Files => facts'[side][path] = facts[side][path],
           frames # << >> /\ ~Top.entered => rowVars' = rowVars
    PROVE  HeldRight'
  <1>1. \A side \in Side : KnownDirs(side)' = KnownDirs(side) /\ KnownFiles(side)' = KnownFiles(side)
    BY KnownStays
  <1>2. ASSUME NEW k \in 1..Len(frames'), NEW dir \in Dirs, NEW path \in AllPaths,
               dir = frames'[k].dir, path \in frames'[k].todo
        PROVE  AsHeld(dir, path)'
    <2>1. AsHeld(dir, path)
      BY <1>2 DEF HeldRight
    <2> QED
      BY <1>2, <2>1 DEF AsHeld
  <1>3. ASSUME NEW dir \in Dirs, NEW path \in AllPaths, frames' # << >>, ~Top'.entered,
               path = Top'.dir, path # Root, dir = ParentPath(path)
        PROVE  AsHeld(dir, path)'
    <2>1. Top' = Top
      BY DEF Top
    <2>2. AsHeld(dir, path) /\ node' = node /\ facts' = facts
      BY <1>3, <2>1 DEF HeldRight, rowVars
    <2> QED
      BY <2>2 DEF AsHeld
  <1> QED
    BY <1>1, <1>2, <1>3 DEF HeldRight

\* compareSubtree returns, or goes on in the directory above.
LEMMA HeldAfterReturn ==
    ASSUME TInv, HeldRight, KeepsKnown, ~stopMark', leftover' = {}, at' # "listing",
           frames # << >>, pair' = NoPair,
           NEW checksum, NEW errs \in SUBSET Side, frames' = Returned(checksum, errs),
           \A dir \in Dirs : dir # Top.dir => held'[dir] = held[dir],
           \A path \in AllPaths : ~IsWithinSubtree(path, Top.dir) => \A side \in Side :
               /\ path \in Dirs => node'[side][path] = node[side][path]
               /\ path \in Files => facts'[side][path] = facts[side][path]
    PROVE  HeldRight'
  <1> DEFINE n == Len(frames)
  <1>1. \A side \in Side : KnownDirs(side)' = KnownDirs(side)
    BY KnownStays
  <1>2. /\ Len(frames') = n - 1
        /\ frames' = << >> <=> n = 1
        /\ \A i \in 1..(n - 2) : frames'[i] = frames[i]
        /\ n > 1 => /\ Top' = frames'[n - 1] /\ frames'[n - 1].dir = frames[n - 1].dir
                    /\ frames'[n - 1].todo = frames[n - 1].todo /\ frames'[n - 1].entered
    BY ReturnedTo DEF TInv
  <1>3. n \in Nat /\ n > 0
    BY NestTop DEF TInv
  <1>4. \A i \in 1..(n - 1) : frames'[i].todo = frames[i].todo /\ frames'[i].dir = frames[i].dir
    <2> SUFFICES ASSUME NEW i \in 1..(n - 1)
                 PROVE  frames'[i].todo = frames[i].todo /\ frames'[i].dir = frames[i].dir
      OBVIOUS
    <2>1. i \in 1..(n - 2) \/ (i = n - 1 /\ n > 1)
      BY <1>3
    <2> QED
      BY <1>2, <2>1
  <1>5. ASSUME NEW k \in 1..(n - 1), NEW dir \in Dirs, NEW path \in AllPaths,
               dir = frames'[k].dir, path \in frames'[k].todo
        PROVE  AsHeld(dir, path)'
    <2>1. dir = frames[k].dir /\ path \in frames[k].todo
      BY <1>4, <1>5
    <2>2. AsHeld(dir, path) /\ dir # Top.dir /\ ~IsWithinSubtree(path, Top.dir)
      BY <2>1, HeldBelow
    <2> QED
      BY <2>2 DEF AsHeld
  <1>6. frames' # << >> => Top'.entered
    BY <1>2, <1>3
  <1>7. \A side \in Side : \A k \in 1..(n - 1) : frames'[k].dir \in KnownDirs(side)
    <2>1. \A k \in 1..(n - 1) : k \in 1..n
      BY <1>3
    <2> QED
      BY <1>4, <2>1 DEF HeldRight
  <1> HIDE DEF n
  <1> QED
    BY <1>1, <1>2, <1>5, <1>6, <1>7 DEF HeldRight

LEMMA HeldEnter ==
    ASSUME TInv, HeldRight, Enter
    PROVE  HeldRight'
  <1>0. /\ RowsInv /\ IsNest(frames) /\ PairInv /\ HeldInv
        /\ EnterNow /\ KeepsKnown
    BY EnterIsNow, Pass2KeepsKnown DEF TInv, Pass2
  <1>1. /\ frames # << >> /\ ~Top.entered /\ pair' = pair /\ pair = NoPair
        /\ stopMark' = stopMark /\ leftover' = leftover /\ facts' = facts
        /\ at' # "listing" /\ {} \in SUBSET Side
    BY <1>0 DEF Enter, PairInv, engineVars
  <1>2. ~stopMark' /\ leftover' = {}
    BY <1>1 DEF HeldRight
  <1>3. CASE frames' = Returned({}, {}) /\ node' = node /\ held' = held
    BY <1>0, <1>1, <1>2, <1>3, HeldAfterReturn
  <1>4. CASE /\ node' = [side \in Side |-> [below \in Dirs |->
                  [node[side][below] EXCEPT !.resolved =
                     @ \/ (IsWithinSubtree(below, Top.dir) /\ node[side][below].checksum # {})]]]
             /\ held' = held
             /\ \E checksum : frames' = Returned(checksum, {})
    <2>1. ASSUME NEW side \in Side, NEW path \in Dirs, ~IsWithinSubtree(path, Top.dir)
          PROVE  node'[side][path] = node[side][path]
      <3> DEFINE row == node[side][path]
      <3>1. node'[side][path] = [row EXCEPT !.resolved = @ \/ FALSE]
        BY <1>4, <2>1
      <3>2. IsRow(row)
        BY <1>0 DEF RowsInv, IsTable
      <3> HIDE DEF row
      <3>3. [row EXCEPT !.resolved = @ \/ FALSE] = row
        <4>1. PICK Sums : row \in [outcome : Outcomes, unreadable : BOOLEAN, checksum : Sums,
                                   resolved : BOOLEAN]
          BY <3>2 DEF IsRow
        <4>2. (row.resolved \/ FALSE) = row.resolved
          BY <4>1
        <4> QED
          BY <4>1, <4>2
      <3> QED
        BY <3>1, <3>3 DEF row
    <2>2. PICK checksum : frames' = Returned(checksum, {})
      BY <1>4
    <2> QED
      BY <1>0, <1>1, <1>2, <1>4, <2>1, <2>2, HeldAfterReturn
  <1>5. CASE /\ node' = node /\ held' = [held EXCEPT ![Top.dir] = [node |-> node, facts |-> facts]]
             /\ frames' = Append(Rest, [Top EXCEPT
                     !.entered = TRUE, !.todo = Opened(Top.dir),
                     !.errs = { side \in Side : HasError(side, Top.dir) }])
    <2> DEFINE n == Len(frames)
               errs == { side \in Side : HasError(side, Top.dir) }
    <2>1. n \in Nat \ {0} /\ n \in 1..n /\ Top.dir \in Dirs /\ Top = frames[n]
      BY <1>0, <1>1, NestTop DEF Top
    <2>2. errs \in SUBSET Side
      OBVIOUS
    <2> HIDE DEF errs
    <2>3. /\ IsNest(frames') /\ frames' # << >> /\ Len(frames') = n
          /\ \A i \in 1..(n - 1) : frames'[i] = frames[i]
          /\ frames'[n] = Top' /\ Top'.dir = Top.dir /\ Top'.entered
      BY <1>0, <1>1, <1>5, <2>2, OpenedFrame DEF errs
    <2>4. \A dir \in Dirs : held'[dir] =
              IF dir = Top.dir THEN [node |-> node, facts |-> facts] ELSE held[dir]
      BY <1>0, <1>5 DEF HeldInv
    <2>5. ASSUME NEW k \in 1..n, NEW dir \in Dirs, NEW path \in AllPaths,
                 dir = frames'[k].dir, path \in frames'[k].todo
          PROVE  AsHeld(dir, path)'
      <3>1. CASE k = n
        <4>1. held'[dir] = [node |-> node, facts |-> facts]
          BY <2>3, <2>4, <2>5, <3>1
        <4> QED
          BY <1>1, <1>5, <4>1 DEF AsHeld
      <3>2. CASE k # n
        <4>1. k \in 1..(n - 1) /\ frames'[k] = frames[k]
          BY <2>1, <2>3, <3>2
        <4>2. AsHeld(dir, path) /\ dir # Top.dir
          BY <1>1, <2>5, <4>1, HeldBelow
        <4> QED
          BY <1>1, <1>5, <2>4, <4>2 DEF AsHeld
      <3> QED
        BY <3>1, <3>2
    <2>6. \A side \in Side : KnownDirs(side)' = KnownDirs(side)
      BY <1>0, KnownStays
    <2>7. \A side \in Side : \A k \in 1..n : frames'[k].dir \in KnownDirs(side)
      <3> SUFFICES ASSUME NEW side \in Side, NEW k \in 1..n
                   PROVE  frames'[k].dir \in KnownDirs(side)
        OBVIOUS
      <3>1. frames'[k].dir = frames[k].dir
        <4>1. k = n \/ k \in 1..(n - 1)
          BY <2>1
        <4> QED
          BY <2>1, <2>3, <4>1
      <3> QED
        BY <3>1 DEF HeldRight
    <2> HIDE DEF n
    <2> QED
      BY <1>1, <1>2, <2>3, <2>5, <2>6, <2>7 DEF HeldRight
  <1>6. held' = held \/ held' = [held EXCEPT ![Top.dir] = [node |-> node, facts |-> facts]]
    BY DEF Enter
  <1> DEFINE hit == [side \in Side |-> [below \in Dirs |->
                  [node[side][below] EXCEPT !.resolved =
                     @ \/ (IsWithinSubtree(below, Top.dir) /\ node[side][below].checksum # {})]]]
             opened == [Top EXCEPT
                     !.entered = TRUE, !.todo = Opened(Top.dir),
                     !.errs = { side \in Side : InError(HeldNode(side, Top.dir)) }]
  <1>7. \/ frames' = Returned({}, {}) /\ node' = node /\ held' = held
        \/ /\ node' = hit /\ held' = held
           /\ frames' = Returned(HeldNode("left", Top.dir).checksum, {})
        \/ /\ node' = node /\ held' = [held EXCEPT ![Top.dir] = [node |-> node, facts |-> facts]]
           /\ frames' = Append(Rest, opened)
    BY DEF Enter, Opened
  <1>8. opened = [Top EXCEPT
                     !.entered = TRUE, !.todo = Opened(Top.dir),
                     !.errs = { side \in Side : HasError(side, Top.dir) }]
    BY <1>1, HeldTop DEF HasError
  <1> QED
    BY <1>3, <1>4, <1>5, <1>7, <1>8

LEMMA HeldNextEntry ==
    ASSUME TInv, HeldRight, NEW path, NextEntry(path)
    PROVE  HeldRight'
  <1> DEFINE n == Len(frames)
             rest == frames'[n]
  <1>0. IsNest(frames) /\ Len(frames) \in Nat \ {0} /\ Top = frames[n] /\ Top.dir \in Dirs
    BY NestTop DEF TInv, NextEntry, Loops, Top
  <1>1. /\ frames # << >> /\ Top.entered /\ path \in Top.todo /\ pair = NoPair
        /\ stopMark' = stopMark /\ leftover' = leftover /\ held' = held
        /\ node' = node /\ facts' = facts /\ at' # "listing"
    BY DEF NextEntry, Loops, engineVars, rowVars
  <1>2. \A side \in Side : KnownDirs(side)' = KnownDirs(side) /\ KnownFiles(side)' = KnownFiles(side)
    BY <1>1 DEF KnownDirs, KnownFiles
  <1>3. /\ frames' # << >> /\ Len(frames') \in { n, n + 1 }
        /\ path \in AllPaths /\ path # Root /\ ParentPath(path) = Top.dir
        /\ \A i \in 1..(n - 1) : frames'[i] = frames[i]
        /\ rest.dir = Top.dir /\ rest.entered /\ rest.todo = Top.todo \ { path }
        /\ \/ Len(frames') = n /\ pair' = pair
           \/ /\ DescendsNow(path) /\ Len(frames') = n + 1
              /\ frames'[n + 1] = Activation(path) /\ pair' = pair
           \/ /\ ComparesNow(path) /\ Len(frames') = n /\ pair'.file = path
    BY EntryStackNow
  <1>4. ASSUME NEW k \in 1..n, NEW dir \in Dirs, NEW p \in AllPaths,
               dir = frames'[k].dir, p \in frames'[k].todo
        PROVE  AsHeld(dir, p)'
    <2>1. k \in 1..n /\ dir = frames[k].dir /\ p \in frames[k].todo
      <3>1. k = n \/ k \in 1..(n - 1)
        BY <1>0
      <3> QED
        BY <1>0, <1>3, <1>4, <3>1
    <2>2. AsHeld(dir, p)
      BY <2>1 DEF HeldRight
    <2> QED
      BY <1>1, <2>2 DEF AsHeld
  <1>5. AsHeld(Top.dir, path)
    <2>1. n \in 1..n
      BY <1>0
    <2> QED
      BY <1>0, <1>1, <1>3, <2>1 DEF HeldRight
  <1>6. Top' = frames'[Len(frames')]
    BY DEF Top
  <1>7. \A side \in Side : \A k \in 1..n : frames'[k].dir \in KnownDirs(side)
    <2> SUFFICES ASSUME NEW side \in Side, NEW k \in 1..n PROVE frames'[k].dir \in KnownDirs(side)
      OBVIOUS
    <2>1. frames'[k].dir = frames[k].dir
      <3>1. k = n \/ k \in 1..(n - 1)
        BY <1>0
      <3> QED
        BY <1>0, <1>3, <3>1
    <2> QED
      BY <2>1 DEF HeldRight
  <1>8. ~stopMark' /\ leftover' = {}
    BY <1>1 DEF HeldRight
  <1> HIDE DEF n
  <1>9. CASE Len(frames') = n /\ pair' = pair
    <2>1. Top'.entered
      BY <1>3, <1>6, <1>9
    <2> QED
      BY <1>1, <1>2, <1>4, <1>7, <1>8, <1>9, <2>1 DEF HeldRight
  <1>10. CASE ComparesNow(path) /\ Len(frames') = n /\ pair'.file = path
    <2>1. Top'.entered
      BY <1>3, <1>6, <1>10
    <2>2. \A side \in Side : path \in KnownFiles(side)
      BY <1>10 DEF ComparesNow, KindNow
    <2> QED
      BY <1>1, <1>2, <1>4, <1>7, <1>8, <1>10, <2>1, <2>2 DEF HeldRight
  <1>11. CASE /\ DescendsNow(path) /\ Len(frames') = n + 1
              /\ frames'[n + 1] = Activation(path) /\ pair' = pair
    <2>1. Top'.dir = path /\ frames'[n + 1].todo = {} /\ frames'[n + 1].dir = path
      BY <1>6, <1>11 DEF Activation
    <2>2. \A side \in Side : path \in KnownDirs(side)
      BY <1>11 DEF DescendsNow, KindNow
    <2>3. \A k \in 1..(n + 1) : k \in 1..n \/ k = n + 1
      BY <1>0 DEF n
    <2>4. \A side \in Side : \A k \in 1..(n + 1) : frames'[k].dir \in KnownDirs(side)
      BY <1>7, <2>1, <2>2, <2>3
    <2>5. ASSUME NEW k \in 1..(n + 1), NEW dir \in Dirs, NEW p \in AllPaths,
                 dir = frames'[k].dir, p \in frames'[k].todo
          PROVE  AsHeld(dir, p)'
      BY <1>4, <2>1, <2>3, <2>5
    <2>6. ASSUME NEW dir \in Dirs, NEW p \in AllPaths, p = Top'.dir, dir = ParentPath(p)
          PROVE  AsHeld(dir, p)'
      <3>1. p = path /\ dir = Top.dir
        BY <1>3, <2>1, <2>6
      <3> QED
        BY <1>1, <1>5, <3>1 DEF AsHeld
    <2> QED
      BY <1>1, <1>2, <1>8, <1>11, <2>4, <2>5, <2>6 DEF HeldRight
  <1> QED
    BY <1>3, <1>9, <1>10, <1>11

LEMMA HeldFinish ==
    ASSUME TInv, KindsApart, HeldRight, FinishDir
    PROVE  HeldRight'
  <1> DEFINE sum == IF Top.same /\ Top.errs = {} THEN { Top.kids } ELSE {}
  <1>1. /\ frames # << >> /\ pair' = NoPair /\ at' # "listing"
        /\ stopMark' = stopMark /\ leftover' = leftover
        /\ held' = [held EXCEPT ![Top.dir] = [node |-> NoNodes, facts |-> NoFileRows]]
        /\ frames' = Returned(sum, Top.errs)
    BY DEF FinishDir, Loops, engineVars
  <1> HIDE DEF sum
  <1>2. KeepsKnown /\ ~stopMark' /\ leftover' = {}
    BY <1>1, Pass2KeepsKnown DEF Pass2, HeldRight
  <1>3. /\ facts' = facts
        /\ \A side \in Side, d \in Dirs : d # Top.dir => node'[side][d] = node[side][d]
    BY CalmFinish
  <1>4. \A dir \in Dirs : dir # Top.dir => held'[dir] = held[dir]
    BY <1>1 DEF TInv, HeldInv
  <1>5. Top.errs \in SUBSET Side /\ Top.dir \in AllPaths
    BY <1>1, NestTop, FrameTypes DEF TInv, Top, AllPaths
  <1>6. \A path \in AllPaths : ~IsWithinSubtree(path, Top.dir) => path # Top.dir
    BY <1>5, PathFacts DEF IsWithinSubtree
  <1> QED
    BY <1>1, <1>2, <1>3, <1>4, <1>5, <1>6, HeldAfterReturn

\* A read changes the rows of the pair that is compared, and no activation has
\* yet to come to that.
LEMMA HeldRead ==
    ASSUME TInv, KindsApart, HeldRight, HashSucceeds \/ HashFails
    PROVE  HeldRight'
  <1>1. /\ at = "hash" /\ at' = "run" /\ frames' = frames /\ held' = held
        /\ stopMark' = stopMark /\ leftover' = leftover
    BY DEF HashSucceeds, HashFails, engineVars
  <1>2. /\ node' = node
        /\ \A side \in Side, file \in Files : file # pair.file => facts'[side][file] = facts[side][file]
    <2>1. CASE HashSucceeds
      BY <2>1, CalmReads DEF HashSucceeds
    <2>2. CASE HashFails
      BY <2>2, CalmFails
    <2> QED
      BY <2>1, <2>2
  <1>3. /\ pair # NoPair /\ pair.file \in Files /\ pair'.file = pair.file
        /\ frames # << >> /\ Top.entered /\ pair.file # Root
        /\ ParentPath(pair.file) = Top.dir /\ pair.file \notin Top.todo
    BY <1>1, ReaderFacts, ReadRows, FailRows DEF TInv, PairInv
  <1>4. KeepsKnown /\ ~stopMark' /\ leftover' = {}
    BY <1>1, Pass2KeepsKnown DEF Pass2, HeldRight
  <1>5. ASSUME NEW k \in 1..Len(frames) PROVE pair.file \notin frames[k].todo
    <2> SUFFICES ASSUME pair.file \in frames[k].todo PROVE FALSE
      OBVIOUS
    <2>1. k # Len(frames)
      BY <1>3 DEF Top
    <2>2. Len(frames) \in Nat /\ Len(frames) \in 1..Len(frames)
      BY <1>3, NestTop DEF TInv
    <2>3. k \in 1..(Len(frames) - 1)
      BY <2>1, <2>2
    <2>4. IsWithinSubtree(pair.file, Top.dir)
      BY <1>3, ChildWithin DEF AllPaths
    <2>5. frames[k].dir \in Dirs
      BY FrameTypes DEF TInv, IsNest
    <2> QED
      BY <1>3, <2>3, <2>4, <2>5, HeldBelow DEF AllPaths
  <1> QED
    BY <1>1, <1>2, <1>3, <1>4, <1>5, HeldStill

\* While a comparison lists, nothing has been entered.
LEMMA HeldList ==
    ASSUME TInv, HeldRight, NEW side \in Side, NEW dir \in Dirs, List(side, dir)
    PROVE  HeldRight' /\ at = "listing" /\ dir \in toList[side]
  <1>1. dir \in toList[side] /\ at' = at
    BY DEF List, InTurn, HeldRight
  <1>2. at = "listing" /\ frames = << >> /\ pair = NoPair
    BY <1>1 DEF TInv, ListInv, PairInv
  <1>3. frames' = << >> /\ pair' = NoPair /\ Len(frames') = 0
    BY <1>2 DEF List
  <1>4. ~stopMark' /\ leftover' = {}
    BY DEF List, OnlyRecord, ListChildren, LoopGoesOn, HeldRight
  <1>5. \A s \in Side : node'[s][Root].outcome # "none"
    <2>0. /\ \A s \in Side : node[s][Root].outcome # "none" /\ IsRow(node[s][Root])
          /\ RowsInv /\ TreesInv /\ Root \in Dirs
      BY <1>2, RootLineage DEF TInv, HeldRight, KnownDirs, RowsInv, IsTable
    <2>1. ASSUME NEW outcome \in { "done", "error" }, NEW unreadable \in BOOLEAN
          PROVE  OwnResult(node[side][Root], outcome, unreadable).outcome # "none"
      <3> DEFINE row == node[side][Root]
      <3>1. IsRow(row) /\ row.outcome # "none"
        BY <2>0
      <3> HIDE DEF row
      <3>2. OwnResult(row, outcome, unreadable).outcome # "none"
        BY <3>1, OwnResultRow
      <3> QED
        BY <3>2 DEF row
    <2>2. ASSUME NEW outcome \in { "done", "error" }, OnlyRecord(side, dir, outcome)
          PROVE  \A s \in Side : node'[s][Root].outcome # "none"
      <3>1. /\ node'[side][dir] = OwnResult(node[side][dir], outcome, FALSE)
            /\ \A s \in Side, d \in Dirs : s # side \/ d # dir => node'[s][d] = node[s][d]
        BY <2>0, <2>2, OnlyRecordRows
      <3>2. OwnResult(node[side][Root], outcome, FALSE).outcome # "none"
        BY <2>1, <2>2
      <3> QED
        BY <2>0, <3>1, <3>2
    <2>3. ASSUME NEW hidden, ListChildren(side, dir, hidden)
          PROVE  \A s \in Side : node'[s][Root].outcome # "none"
      <3>1. /\ node'[side][Root] =
                 IF Root = dir THEN OwnResult(node[side][Root], "done", hidden # {})
                 ELSE IF Root \in Kids(side, dir) THEN ChildRow(node[side][Root])
                 ELSE IF Forgotten(side, dir, Root) THEN NoNode
                 ELSE node[side][Root]
            /\ \A s \in Side \ { side } : node'[s] = node[s]
        BY <2>0, <2>3, ListChildrenRows
      <3>2. Root \notin Kids(side, dir)
        BY DEF Kids, ChildrenOf
      <3>3. ~Forgotten(side, dir, Root)
        BY RootLineage DEF Forgotten, ChildrenOf, IsWithinSubtree
      <3>4. OwnResult(node[side][Root], "done", hidden # {}).outcome # "none"
        <4> DEFINE unreadable == hidden # {}
        <4>1. unreadable \in BOOLEAN
          OBVIOUS
        <4> HIDE DEF unreadable
        <4>2. OwnResult(node[side][Root], "done", unreadable).outcome # "none"
          BY <2>1, <4>1
        <4> QED
          BY <4>2 DEF unreadable
      <3> QED
        BY <2>0, <2>1, <3>1, <3>2, <3>3, <3>4
    <2> QED
      BY <2>2, <2>3 DEF List
  <1>6. \A s \in Side : (Root \in KnownDirs(s))'
    BY <1>5, RootLineage DEF KnownDirs
  <1>7. HeldRight'
    BY <1>3, <1>4, <1>6 DEF HeldRight
  <1> QED
    BY <1>1, <1>2, <1>7

LEMMA HeldCompare ==
    ASSUME TInv, HeldInCalm, NEW m \in Modes, Compare(m), Calm'
    PROVE  HeldRight'
  <1>1. /\ stopMark' = stopMark /\ leftover' = leftover /\ quiet' = ~stopMark
        /\ frames' = frames /\ pair' = pair /\ at = "off"
    BY DEF Compare
  <1>2. frames = << >> /\ pair = NoPair /\ RowsInv /\ stopMark \in BOOLEAN
        /\ (leftover # {} => stopMark)
    BY <1>1 DEF TInv, PairInv, ListInv
  <1>3. ~stopMark
    <2>1. CASE StopPhases = {}
      BY <2>1 DEF Calm, HeldInCalm, HeldRight
    <2>2. CASE Undisturbed'
      BY <1>1, <2>2 DEF Undisturbed
    <2> QED
      BY <2>1, <2>2 DEF Calm
  <1>4. \A side \in Side : (Root \in KnownDirs(side))'
    <2>1. \A side \in Side : node'[side][Root].outcome = "pending"
      BY <1>2, CompareRows, RootLineage
    <2> QED
      BY <2>1, RootLineage DEF KnownDirs
  <1>5. frames' = << >> /\ pair' = NoPair /\ Len(frames') = 0
    BY <1>1, <1>2
  <1> QED
    BY <1>1, <1>2, <1>3, <1>4, <1>5 DEF HeldRight

LEMMA HeldStart ==
    ASSUME TInv, HeldRight, StartPass2
    PROVE  HeldRight' /\ \A side \in Side : toList[side] = {}
  <1>1. /\ frames' = << Activation(Root) >> /\ pair' = pair /\ stopMark' = stopMark
        /\ node' = node /\ facts' = facts /\ at = "listing" /\ at' = "run"
        /\ leftover' = leftover \cup Entries(toList)
        /\ \A side \in Side, dir \in Dirs : node[side][dir].outcome # "pending"
    BY DEF StartPass2, rowVars
  <1>2. \A side \in Side : toList[side] = {}
    BY <1>1 DEF TInv, ListInv, HeldRight
  <1>3. leftover' = {}
    BY <1>1, <1>2 DEF Entries, HeldRight
  <1>4. pair' = NoPair
    BY <1>1 DEF TInv, PairInv
  <1>5. /\ Len(frames') = 1 /\ frames'[1] = Activation(Root) /\ frames'[1].dir = Root
        /\ frames'[1].todo = {} /\ Top'.dir = Root
    BY <1>1, RootNest DEF Top, Activation
  <1>6. \A side \in Side : (Root \in KnownDirs(side))'
    BY <1>1 DEF HeldRight, KnownDirs
  <1>7. \A k \in 1..Len(frames') : frames'[k].dir = Root /\ frames'[k].todo = {}
    BY <1>5
  <1> QED
    BY <1>1, <1>2, <1>3, <1>4, <1>5, <1>6, <1>7 DEF HeldRight

LEMMA HeldPairDone ==
    ASSUME TInv, HeldRight, PairDone
    PROVE  HeldRight'
  <1> DEFINE n == Len(frames)
             sum == IF Stage = "matching" THEN { pair.seen["left"].full } ELSE {}
             new == Taken(Top, pair.file, "file", sum, pair.errs)
  <1>1. /\ pair # NoPair /\ pair' = NoPair /\ frames' = Append(Rest, new)
        /\ stopMark' = stopMark /\ leftover' = leftover /\ held' = held
        /\ node' = node /\ facts' = facts /\ at' # "listing"
    BY DEF PairDone, engineVars, rowVars
  <1>2. /\ frames # << >> /\ Top.entered /\ pair.errs \in SUBSET Side /\ IsNest(frames)
    BY <1>1 DEF TInv, PairInv, Pairs
  <1>3. n \in Nat \ {0} /\ n \in 1..n /\ Top = frames[n] /\ IsFrame(Top)
    BY <1>2, NestTop DEF Top
  <1> HIDE DEF sum, n
  <1>4. IsFrame(new) /\ new.dir = Top.dir /\ new.entered /\ new.todo = Top.todo
    BY <1>2, <1>3, TakenFrame
  <1> HIDE DEF new
  <1>5. /\ Len(frames') = n /\ Top' = new /\ frames'[n] = new
        /\ \A i \in 1..(n - 1) : frames'[i] = frames[i]
    BY <1>1, <1>2, <1>4, Replaced DEF n
  <1>6. \A k \in 1..n : frames'[k].todo = frames[k].todo /\ frames'[k].dir = frames[k].dir
    <2> SUFFICES ASSUME NEW k \in 1..n
                 PROVE  frames'[k].todo = frames[k].todo /\ frames'[k].dir = frames[k].dir
      OBVIOUS
    <2>1. k = n \/ k \in 1..(n - 1)
      BY <1>3
    <2> QED
      BY <1>3, <1>4, <1>5, <2>1
  <1>7. ASSUME NEW k \in 1..n, NEW dir \in Dirs, NEW path \in AllPaths,
               dir = frames'[k].dir, path \in frames'[k].todo
        PROVE  AsHeld(dir, path)'
    <2>1. AsHeld(dir, path)
      BY <1>6, <1>7 DEF HeldRight, n
    <2> QED
      BY <1>1, <2>1 DEF AsHeld
  <1>8. \A side \in Side : KnownDirs(side)' = KnownDirs(side)
    BY <1>1 DEF KnownDirs
  <1>9. \A side \in Side : \A k \in 1..n : frames'[k].dir \in KnownDirs(side)
    BY <1>6 DEF HeldRight, n
  <1>10. ~stopMark' /\ leftover' = {}
    BY <1>1 DEF HeldRight
  <1> QED
    BY <1>1, <1>4, <1>5, <1>7, <1>8, <1>9, <1>10 DEF HeldRight

\* In a comparison that began with no Stop on the engine's mind, and that nobody
\* stops, what the activations hold stays right.
LEMMA HeldInCalmNext ==
    ASSUME TInv, KindsApart, HeldInCalm, [Next]_vars
    PROVE  HeldInCalm'
  <1> SUFFICES ASSUME Calm' PROVE HeldRight'
    BY DEF HeldInCalm
  <1>1. ASSUME NEW m \in Modes, Compare(m) PROVE HeldRight'
    BY <1>1, HeldCompare
  <1>2. ASSUME HeldRight PROVE HeldRight'
    <2>1. ASSUME UNCHANGED << rowVars, engineVars, frames, held, pair >>,
                 at' = "listing" => at = "listing"
          PROVE  HeldRight'
      <3>1. KeepsKnown /\ node' = node /\ facts' = facts /\ frames' = frames /\ pair' = pair
            /\ held' = held /\ rowVars' = rowVars
        BY <2>1 DEF KeepsKnown, rowVars
      <3>2. ~stopMark' /\ leftover' = {}
        BY <1>2, <2>1 DEF HeldRight, engineVars
      <3> QED
        BY <1>2, <2>1, <3>1, <3>2, HeldStill
    <2>2. ASSUME ~stopMark', leftover' = {}, at' # "listing", frames' = << >>, pair' = NoPair
          PROVE  HeldRight'
      <3>1. Len(frames') = 0
        BY <2>2
      <3> QED
        BY <2>2, <3>1 DEF HeldRight
    <2>3. CASE ReadNext \/ EndPass2
      <3>1. UNCHANGED << rowVars, engineVars, frames, held, pair >> /\ at' # "listing"
        BY <2>3 DEF ReadNext, EndPass2
      <3> QED
        BY <2>1, <3>1
    <2>4. CASE Cancel
      <3>1. /\ stopMark' = stopMark /\ leftover' = leftover /\ at' # "listing"
            /\ frames' = << >> /\ pair' = NoPair
        BY <2>4 DEF Cancel, engineVars
      <3> QED
        BY <1>2, <2>2, <3>1 DEF HeldRight
    <2>5. CASE Pass2
      BY <1>2, <2>3, <2>4, <2>5, HeldEnter, HeldNextEntry, HeldFinish, HeldRead, HeldPairDone
      DEF Pass2
    <2>6. CASE Pass1
      BY <1>2, <2>6, HeldList, HeldStart DEF Pass1
    <2>7. CASE Stop
      BY <2>7 DEF Stop, Calm, Undisturbed
    <2>8. CASE Restart
      BY <2>2, <2>8 DEF Restart
    <2>9. CASE Changes
      <3>1. UNCHANGED << rowVars, engineVars, frames, held, pair >> /\ at' = at
        BY <2>9 DEF Changes, passVars
      <3> QED
        BY <2>1, <3>1
    <2>10. CASE UNCHANGED vars
      <3>1. UNCHANGED << rowVars, engineVars, frames, held, pair >> /\ at' = at
        BY <2>10 DEF vars, passVars
      <3> QED
        BY <2>1, <3>1
    <2> QED
      BY <1>1, <2>5, <2>6, <2>7, <2>8, <2>9, <2>10
      DEF Next, Environment, Edit, Delete, SetIgnored
  <1> QED
    BY <1>1, <1>2, CalmSteps DEF HeldInCalm

\* A file that lies below an entry some activation has yet to come to.
Deep(s, file, n) == \E k \in 1..n : \E path \in s[k].todo : IsWithinSubtree(file, path)

\* The pairs of files compareSubtree has yet to resolve.
Ahead(file) ==
    \/ Deep(frames, file, Len(frames))
    \/ frames # << >> /\ ~Top.entered /\ IsWithinSubtree(file, Top.dir)
    \/ pair # NoPair /\ file = pair.file

Remaining == { file \in FilePairs(Root) : Ahead(file) }

\* compareSubtree may come to a directory.
Reached(dir) ==
    \A path \in Lineage(dir) :
        /\ ~PairIgnored(path)
        /\ path # Root => path \in KnownDirs("left") \cap KnownDirs("right")

RootCompared == \A side \in Side : << side, Root >> \notin ignored

\* What is left is what countFilePairs foresaw less what was resolved.
Foreseen ==
    Undisturbed /\ at \in { "run", "hash" } =>
        /\ progress.processed + Cardinality(Remaining) = progress.total
        /\ \A k \in 1..Len(frames) : Reached(frames[k].dir)
        /\ pair # NoPair => pair.file \in FilePairs(Root)

LEMMA DeepSame ==
    ASSUME NEW s, NEW t, NEW n, \A k \in 1..n : s[k].todo = t[k].todo, NEW file
    PROVE  Deep(s, file, n) <=> Deep(t, file, n)
  BY DEF Deep

LEMMA DeepSplit ==
    ASSUME NEW s, NEW n \in Nat \ {0}, NEW file
    PROVE  Deep(s, file, n) <=> \/ Deep(s, file, n - 1)
                                \/ \E path \in s[n].todo : IsWithinSubtree(file, path)
  <1>1. \A k : k \in 1..n <=> k \in 1..(n - 1) \/ k = n
    OBVIOUS
  <1> QED
    BY <1>1, Zenon DEF Deep

LEMMA DeepApart ==
    ASSUME NEW s, IsNest(s), s # << >>, NEW file \in AllPaths,
           IsWithinSubtree(file, s[Len(s)].dir)
    PROVE  ~Deep(s, file, Len(s) - 1)
  BY NestTop, NestApart DEF Deep

\* What is within the root, and what of a pair that was foreseen.
LEMMA WithinRoot ==
    ASSUME NEW path \in AllPaths
    PROVE  IsWithinSubtree(path, Root)
  <1>1. path \in Seq(STRING)
    BY PathFacts
  <1>2. SubSeq(path, 1, 0) = Root /\ 0 \in 0..Len(path)
    BY <1>1 DEF Root
  <1> QED
    BY <1>2 DEF IsWithinSubtree, Lineage

LEMMA PairKinds ==
    ASSUME KindsApart, NEW file \in FilePairs(Root), NEW path \in Lineage(file), path # Root
    PROVE  /\ ~PairIgnored(path)
           /\ path = file => \A side \in Side : KindNow(side, path) = "file"
           /\ path # file => /\ \A side \in Side : KindNow(side, path) = "directory"
                             /\ path \in KnownDirs("left") \cap KnownDirs("right")
  <1>1. /\ file \in KnownFiles("left") \cap KnownFiles("right") /\ file \in Files
        /\ \A p \in Lineage(file) : IsWithinSubtree(p, Root) /\ p # Root =>
              /\ ~PairIgnored(p)
              /\ p # file => p \in KnownDirs("left") \cap KnownDirs("right")
    BY DEF FilePairs, KnownFiles
  <1>2. path \in AllPaths
    BY <1>1, LineageInDirs DEF AllPaths
  <1>3. /\ ~PairIgnored(path)
        /\ path # file => path \in KnownDirs("left") \cap KnownDirs("right")
    BY <1>1, <1>2, WithinRoot
  <1>4. path # file => \A side \in Side : KindNow(side, path) = "directory"
    BY <1>3 DEF KindNow, Side
  <1>5. path = file => \A side \in Side : KindNow(side, path) = "file"
    BY <1>1 DEF KindNow, Side, KindsApart
  <1> QED
    BY <1>3, <1>4, <1>5

\* The pairs foreseen below a directory compareSubtree comes to.
LEMMA PairsBelow ==
    ASSUME NEW dir \in Dirs, Reached(dir)
    PROVE  FilePairs(dir) = { file \in FilePairs(Root) : IsWithinSubtree(file, dir) }
  <1>1. ASSUME NEW file \in FilePairs(dir)
        PROVE  file \in FilePairs(Root) /\ IsWithinSubtree(file, dir)
    <2>1. /\ file \in KnownFiles("left") \cap KnownFiles("right") /\ IsWithinSubtree(file, dir)
          /\ file \in AllPaths
          /\ \A path \in Lineage(file) : IsWithinSubtree(path, dir) /\ path # dir =>
                /\ ~PairIgnored(path)
                /\ path # file => path \in KnownDirs("left") \cap KnownDirs("right")
      BY DEF FilePairs, KnownFiles, AllPaths
    <2>2. ASSUME NEW path \in Lineage(file), path # Root
          PROVE  /\ ~PairIgnored(path)
                 /\ path # file => path \in KnownDirs("left") \cap KnownDirs("right")
      <3>1. CASE path \in Lineage(dir)
        BY <2>2, <3>1 DEF Reached
      <3>2. CASE path \notin Lineage(dir)
        <4>1. IsWithinSubtree(path, dir)
          BY <2>1, <3>2, WithinLinear DEF IsWithinSubtree
        <4>2. path # dir
          BY <3>2, PathFacts DEF AllPaths
        <4> QED
          BY <2>1, <4>1, <4>2
      <3> QED
        BY <3>1, <3>2
    <2>3. IsWithinSubtree(file, Root)
      BY <2>1, WithinRoot
    <2> QED
      BY <2>1, <2>2, <2>3 DEF FilePairs
  <1>2. ASSUME NEW file \in FilePairs(Root), IsWithinSubtree(file, dir)
        PROVE  file \in FilePairs(dir)
    <2>1. /\ file \in KnownFiles("left") \cap KnownFiles("right") /\ file \in AllPaths
          /\ \A path \in Lineage(file) : IsWithinSubtree(path, Root) /\ path # Root =>
                /\ ~PairIgnored(path)
                /\ path # file => path \in KnownDirs("left") \cap KnownDirs("right")
      BY DEF FilePairs, KnownFiles, AllPaths
    <2>2. ASSUME NEW path \in Lineage(file), IsWithinSubtree(path, dir), path # dir
          PROVE  /\ ~PairIgnored(path)
                 /\ path # file => path \in KnownDirs("left") \cap KnownDirs("right")
      <3>1. path # Root
        BY <2>2, RootLineage DEF IsWithinSubtree
      <3>2. IsWithinSubtree(path, Root)
        BY <2>1, LineageInDirs, WithinRoot
      <3> QED
        BY <2>1, <3>1, <3>2
    <2> QED
      BY <1>2, <2>1, <2>2 DEF FilePairs
  <1> QED
    BY <1>1, <1>2

\* Where the activations are stays reachable.
LEMMA ReachedStays ==
    ASSUME KeepsKnown, ignored' = ignored, \A k \in 1..Len(frames') : Reached(frames'[k].dir)
    PROVE  (\A k \in 1..Len(frames) : Reached(frames[k].dir))'
  <1>1. \A side \in Side : KnownDirs(side)' = KnownDirs(side)
    BY KnownStays
  <1>2. KnownDirs("left")' = KnownDirs("left") /\ KnownDirs("right")' = KnownDirs("right")
    BY <1>1 DEF Side
  <1>3. \A path : PairIgnored(path)' <=> PairIgnored(path)
    BY PairsStay
  <1> QED
    BY <1>2, <1>3 DEF Reached

\* A step of Pass 2 that resolves some of the pairs ahead.
LEMMA Resolves ==
    ASSUME KeepsKnown, ignored' = ignored, progress \in [processed : Nat, total : Nat],
           progress.processed + Cardinality(Remaining) = progress.total,
           NEW Gone \in SUBSET Remaining,
           \A file \in FilePairs(Root) : Ahead(file)' <=> Ahead(file) /\ file \notin Gone,
           progress'.total = progress.total,
           progress'.processed = progress.processed + Cardinality(Gone)
    PROVE  progress'.processed + Cardinality(Remaining') = progress'.total
  <1> DEFINE left == Remaining \ Gone
  <1>1. FilePairs(Root)' = FilePairs(Root)
    BY PairsStay
  <1>2. Remaining' = left
    BY <1>1 DEF Remaining
  <1>3. IsFiniteSet(Remaining)
    BY FilePairsFinite, FS_Subset DEF Remaining
  <1>4. IsFiniteSet(left) /\ IsFiniteSet(Gone)
    BY <1>3, FS_Subset
  <1>5. left \cup Gone = Remaining /\ left \cap Gone = {}
    OBVIOUS
  <1> HIDE DEF left
  <1>6. Cardinality(Remaining) = Cardinality(left) + Cardinality(Gone) - Cardinality({})
    BY <1>4, <1>5, FS_Union
  <1>7. Cardinality({}) = 0 /\ Cardinality(left) \in Nat /\ Cardinality(Gone) \in Nat
    BY <1>4, FS_EmptySet, FS_CardinalityType
  <1>8. progress.processed \in Nat
    OBVIOUS
  <1> QED
    BY <1>2, <1>6, <1>7, <1>8

\* What Foreseen says while Pass 2 runs undisturbed.
Counted ==
    /\ progress.processed + Cardinality(Remaining) = progress.total
    /\ \A k \in 1..Len(frames) : Reached(frames[k].dir)
    /\ pair # NoPair => pair.file \in FilePairs(Root)

PassInv == TInv /\ KindsApart /\ HeldRight /\ RootCompared /\ Counted

LEMMA CountedAtStart ==
    ASSUME TInv, RootCompared, StartPass2
    PROVE  Counted'
  <1>1. /\ frames' = << Activation(Root) >> /\ pair' = pair /\ ignored' = ignored
        /\ progress' = [processed |-> 0, total |-> CountFilePairs(Root)]
        /\ at = "listing" /\ rowVars' = rowVars
    BY DEF StartPass2, worldVars
  <1>2. KeepsKnown
    BY <1>1 DEF rowVars, KeepsKnown
  <1>3. pair' = NoPair
    BY <1>1 DEF TInv, PairInv
  <1>4. /\ Len(frames') = 1 /\ frames'[1] = Activation(Root) /\ frames' # << >>
    BY <1>1, RootNest
  <1>5. ~Top'.entered /\ Top'.dir = Root
    BY <1>4 DEF Top, Activation
  <1>6. Remaining' = FilePairs(Root)
    <2>1. \A file \in FilePairs(Root) : Ahead(file)'
      BY <1>4, <1>5 DEF Ahead, FilePairs
    <2>2. FilePairs(Root)' = FilePairs(Root)
      BY <1>1, <1>2, PairsStay
    <2> QED
      BY <2>1, <2>2 DEF Remaining
  <1>7. progress'.processed + Cardinality(Remaining') = progress'.total
    <2>1. progress'.processed = 0 /\ progress'.total = Cardinality(FilePairs(Root))
      BY <1>1 DEF CountFilePairs
    <2>2. Cardinality(FilePairs(Root)) \in Nat
      BY FilePairsFinite DEF CountFilePairs
    <2> QED
      BY <1>6, <2>1, <2>2
  <1>8. Reached(Root)
    BY RootLineage DEF Reached, PairIgnored, RootCompared
  <1>9. (\A k \in 1..Len(frames) : Reached(frames[k].dir))'
    <2>1. frames'[1].dir = Root /\ \A k \in 1..Len(frames') : k = 1
      BY <1>4 DEF Activation
    <2>2. \A k \in 1..Len(frames') : Reached(frames'[k].dir)
      BY <1>8, <2>1
    <2> QED
      BY <1>1, <1>2, <2>2, ReachedStays
  <1> QED
    BY <1>3, <1>7, <1>9 DEF Counted

\* compareSubtree has returned: what is ahead is what the activations below wait for.
LEMMA AheadAfterReturn ==
    ASSUME IsNest(frames), frames # << >>, NEW checksum, NEW errs \in SUBSET Side,
           frames' = Returned(checksum, errs), pair' = NoPair,
           \A k \in 1..Len(frames) : Reached(frames[k].dir)
    PROVE  /\ \A file : Ahead(file)' <=> Deep(frames, file, Len(frames) - 1)
           /\ \A k \in 1..Len(frames') : Reached(frames'[k].dir)
  <1> DEFINE n == Len(frames)
  <1>1. /\ IsNest(frames') /\ Len(frames') = n - 1
        /\ frames' = << >> <=> n = 1
        /\ \A i \in 1..(n - 2) : frames'[i] = frames[i]
        /\ n > 1 => /\ Top' = frames'[n - 1] /\ frames'[n - 1].dir = frames[n - 1].dir
                    /\ frames'[n - 1].todo = frames[n - 1].todo /\ frames'[n - 1].entered
    BY ReturnedTo
  <1>2. n \in Nat /\ n > 0
    BY NestTop
  <1>3. \A i \in 1..(n - 1) : frames'[i].todo = frames[i].todo /\ frames'[i].dir = frames[i].dir
    <2> SUFFICES ASSUME NEW i \in 1..(n - 1)
                 PROVE  frames'[i].todo = frames[i].todo /\ frames'[i].dir = frames[i].dir
      OBVIOUS
    <2>1. i \in 1..(n - 2) \/ (i = n - 1 /\ n > 1)
      BY <1>2
    <2> QED
      BY <1>1, <2>1
  <1> HIDE DEF n
  <1>4. \A file : Deep(frames', file, n - 1) <=> Deep(frames, file, n - 1)
    BY <1>3, DeepSame
  <1>5. frames' # << >> => Top'.entered
    BY <1>1, <1>2
  <1>6. \A file : Ahead(file)' <=> Deep(frames', file, n - 1)
    BY <1>1, <1>5 DEF Ahead
  <1>7. ASSUME NEW k \in 1..Len(frames') PROVE Reached(frames'[k].dir)
    <2>1. k \in 1..(n - 1) /\ k \in 1..n
      BY <1>1, <1>2
    <2>2. frames'[k].dir = frames[k].dir /\ Reached(frames[k].dir)
      BY <1>3, <2>1 DEF n
    <2> QED
      BY <2>2
  <1> QED
    BY <1>4, <1>6, <1>7 DEF n

\* The entries of a directory lead to every pair foreseen below it.
LEMMA EntriesLead ==
    ASSUME KindsApart, NEW dir \in Dirs, dir = Root \/ dir \in KnownDirs("left"),
           NEW file \in FilePairs(Root)
    PROVE  IsWithinSubtree(file, dir) <=>
               \E path \in Opened(dir) : IsWithinSubtree(file, path)
  <1>1. file \in KnownFiles("left") /\ file \in AllPaths
    BY DEF FilePairs, KnownFiles, AllPaths
  <1>2. ASSUME IsWithinSubtree(file, dir)
        PROVE  \E path \in Opened(dir) : IsWithinSubtree(file, path)
    <2>1. file # dir
      BY <1>1, PassAssumption DEF KindsApart, Side, KnownFiles
    <2>2. PICK path \in Lineage(file) : path \in AllPaths \ { Root } /\ ParentPath(path) = dir
      BY <1>1, <1>2, <2>1, ChildToward DEF IsWithinSubtree
    <2>3. path \in KnownDirs("left") \cup KnownFiles("left")
      BY <1>1, <2>2, PairKinds
    <2> QED
      BY <2>2, <2>3 DEF Opened, ChildrenOf, Side, IsWithinSubtree
  <1>3. ASSUME NEW path \in Opened(dir), IsWithinSubtree(file, path)
        PROVE  IsWithinSubtree(file, dir)
    <2>1. path \in AllPaths \ { Root } /\ ParentPath(path) = dir
      BY <1>3 DEF Opened, ChildrenOf, KnownDirs, KnownFiles, AllPaths
    <2>2. IsWithinSubtree(path, dir)
      BY <2>1, ChildWithin
    <2> QED
      BY <1>1, <1>3, <2>2, WithinTransitive
  <1> QED
    BY <1>2, <1>3

LEMMA CountedEnter ==
    ASSUME PassInv, Enter
    PROVE  Counted'
  <1>0. /\ TInv /\ KindsApart /\ HeldRight /\ Counted /\ RowsInv /\ IsNest(frames) /\ PairInv
        /\ progress \in [processed : Nat, total : Nat]
    BY DEF PassInv, TInv, ControlInv
  <1> DEFINE n == Len(frames)
             dir == Top.dir
  <1>1. /\ frames # << >> /\ ~Top.entered /\ pair' = pair /\ ignored' = ignored
    BY DEF Enter, worldVars
  <1>2. KeepsKnown
    BY <1>0, Pass2KeepsKnown DEF Pass2
  <1>3. n \in Nat \ {0} /\ n \in 1..n /\ dir \in Dirs /\ Top.todo = {} /\ Top = frames[n]
    BY <1>0, <1>1, NestTop, FrameTypes DEF Top
  <1>4. Reached(dir) /\ ~PairIgnored(dir) /\ (dir = Root \/ dir \in KnownDirs("left"))
    <2>1. Reached(dir)
      BY <1>0, <1>3 DEF Counted
    <2>2. dir \in Lineage(dir)
      BY <1>3, PathFacts DEF AllPaths
    <2> QED
      BY <2>1, <2>2 DEF Reached
  <1>5. pair = NoPair /\ pair' = NoPair
    BY <1>0, <1>1 DEF PairInv
  <1>6. \A file : Ahead(file) <=> Deep(frames, file, n - 1) \/ IsWithinSubtree(file, dir)
    <2>1. \A file : Deep(frames, file, n) <=> Deep(frames, file, n - 1)
      <3> SUFFICES ASSUME NEW file PROVE Deep(frames, file, n) <=> Deep(frames, file, n - 1)
        OBVIOUS
      <3>1. Deep(frames, file, n) <=> \/ Deep(frames, file, n - 1)
                                      \/ \E path \in frames[n].todo : IsWithinSubtree(file, path)
        BY <1>3, DeepSplit
      <3> QED
        BY <1>3, <3>1
    <2> QED
      BY <1>1, <1>5, <2>1 DEF Ahead
  <1>7. CASE /\ progress' = [progress EXCEPT !.processed = @ + CountFilePairs(dir)]
             /\ frames' = Returned(node["left"][dir].checksum, {})
    <2> DEFINE sum == node["left"][dir].checksum
               Gone == FilePairs(dir)
    <2>1. frames' = Returned(sum, {}) /\ {} \in SUBSET Side
      BY <1>7
    <2> HIDE DEF sum
    <2>2. /\ \A file : Ahead(file)' <=> Deep(frames, file, n - 1)
          /\ \A k \in 1..Len(frames') : Reached(frames'[k].dir)
      BY <1>0, <1>1, <1>5, <2>1, AheadAfterReturn DEF Counted
    <2>3. Gone = { file \in FilePairs(Root) : IsWithinSubtree(file, dir) }
      BY <1>3, <1>4, PairsBelow
    <2>4. \A file \in FilePairs(Root) :
              IsWithinSubtree(file, dir) => ~Deep(frames, file, n - 1)
      <3>1. \A file \in FilePairs(Root) : file \in AllPaths
        BY DEF FilePairs, KnownFiles, AllPaths
      <3> QED
        BY <1>0, <1>1, <1>3, <3>1, DeepApart
    <2>5. /\ progress'.total = progress.total
          /\ progress'.processed = progress.processed + Cardinality(Gone)
      BY <1>0, <1>7 DEF CountFilePairs
    <2> HIDE DEF Gone, dir, n
    <2>6. Gone \in SUBSET Remaining
      BY <1>6, <2>3 DEF Remaining
    <2>7. \A file \in FilePairs(Root) : Ahead(file)' <=> Ahead(file) /\ file \notin Gone
      BY <1>6, <2>2, <2>3, <2>4
    <2>8. progress'.processed + Cardinality(Remaining') = progress'.total
      BY <1>0, <1>1, <1>2, <2>5, <2>6, <2>7, Resolves DEF Counted
    <2>9. (\A k \in 1..Len(frames) : Reached(frames[k].dir))'
      BY <1>1, <1>2, <2>2, ReachedStays
    <2> QED
      BY <1>5, <2>8, <2>9 DEF Counted
  <1>8. CASE /\ progress' = progress
             /\ frames' = Append(Rest, [Top EXCEPT
                  !.entered = TRUE, !.todo = Opened(dir),
                  !.errs = { side \in Side : HasError(side, dir) }])
    <2>1. /\ frames' # << >> /\ Len(frames') = n
          /\ \A i \in 1..(n - 1) : frames'[i] = frames[i]
          /\ frames'[n] = Top' /\ Top'.dir = dir /\ Top'.entered /\ Top'.todo = Opened(dir)
      <3>1. { side \in Side : HasError(side, dir) } \in SUBSET Side
        OBVIOUS
      <3> QED
        BY <1>0, <1>1, <1>8, <3>1, OpenedFrame
    <2> HIDE DEF n, dir
    <2>2. \A file : Deep(frames', file, n - 1) <=> Deep(frames, file, n - 1)
      BY <2>1, DeepSame
    <2>3. \A file : Ahead(file)' <=> Deep(frames', file, n)
      BY <1>5, <2>1 DEF Ahead
    <2>4. \A file : Deep(frames', file, n) <=>
              \/ Deep(frames', file, n - 1)
              \/ \E path \in Opened(dir) : IsWithinSubtree(file, path)
      BY <1>3, <2>1, DeepSplit
    <2>5. \A file \in FilePairs(Root) : IsWithinSubtree(file, dir) <=>
              \E path \in Opened(dir) : IsWithinSubtree(file, path)
      BY <1>0, <1>3, <1>4, EntriesLead
    <2>6. \A file \in FilePairs(Root) : Ahead(file)' <=> Ahead(file)
      BY <1>6, <2>2, <2>3, <2>4, <2>5
    <2>7. progress'.processed = progress.processed + Cardinality({})
      BY <1>0, <1>8, FS_EmptySet
    <2>8. progress'.processed + Cardinality(Remaining') = progress'.total
      BY <1>0, <1>1, <1>2, <1>8, <2>6, <2>7, Resolves DEF Counted
    <2>9. \A k \in 1..Len(frames') : Reached(frames'[k].dir)
      <3> SUFFICES ASSUME NEW k \in 1..n PROVE Reached(frames'[k].dir)
        BY <2>1
      <3>1. k \in 1..(n - 1) \/ k = n
        BY <1>3
      <3> QED
        BY <1>0, <1>3, <2>1, <3>1 DEF Counted, n, dir
    <2>10. (\A k \in 1..Len(frames) : Reached(frames[k].dir))'
      BY <1>1, <1>2, <2>9, ReachedStays
    <2> QED
      BY <1>5, <2>8, <2>10 DEF Counted
  <1> QED
    BY <1>0, <1>4, <1>7, <1>8, EnterIsNow DEF EnterNow

\* What one turn of the loop leaves out or finds different holds no pair foreseen.
LEMMA NothingForeseenBelow ==
    ASSUME KindsApart, NEW path, path # Root, SkipsNow(path) \/ DiffersNow(path),
           NEW file \in FilePairs(Root)
    PROVE  ~IsWithinSubtree(file, path)
  <1> SUFFICES ASSUME IsWithinSubtree(file, path) PROVE FALSE
    OBVIOUS
  <1>1. /\ ~PairIgnored(path)
        /\ path = file => \A side \in Side : KindNow(side, path) = "file"
        /\ path # file => \A side \in Side : KindNow(side, path) = "directory"
    BY PairKinds DEF IsWithinSubtree
  <1>2. \A side, other \in Side : KindNow(side, path) = KindNow(other, path)
    BY <1>1
  <1>3. ~DiffersNow(path)
    BY <1>2 DEF DiffersNow, Side
  <1>4. ~AbsentNow(path)
    BY <1>2 DEF AbsentNow
  <1> QED
    BY <1>1, <1>3, <1>4 DEF SkipsNow

\* An entry of a directory compareSubtree has come to, of the same kind on both
\* sides, is come to, or is a pair that was foreseen.
LEMMA ReachedEntry ==
    ASSUME NEW path \in AllPaths \ { Root }, Reached(ParentPath(path)), ~PairIgnored(path)
    PROVE  /\ (\A side \in Side : KindNow(side, path) = "directory") => Reached(path)
           /\ (\A side \in Side : KindNow(side, path) = "file") => path \in FilePairs(Root)
  <1>1. Lineage(path) = { path } \cup Lineage(ParentPath(path))
    BY PathFacts
  <1>2. ASSUME \A side \in Side : KindNow(side, path) = "directory"
        PROVE  Reached(path)
    <2>1. path \in KnownDirs("left") \cap KnownDirs("right")
      BY <1>2 DEF KindNow, Side
    <2> QED
      BY <1>1, <2>1 DEF Reached
  <1>3. ASSUME \A side \in Side : KindNow(side, path) = "file"
        PROVE  path \in FilePairs(Root)
    <2>1. path \in KnownFiles("left") \cap KnownFiles("right")
      BY <1>3 DEF KindNow, Side
    <2> QED
      BY <1>1, <2>1, WithinRoot DEF FilePairs, Reached
  <1> QED
    BY <1>2, <1>3

LEMMA CountedEntry ==
    ASSUME PassInv, NEW path, NextEntry(path)
    PROVE  Counted'
  <1>0. /\ TInv /\ KindsApart /\ HeldRight /\ Counted /\ RowsInv /\ IsNest(frames) /\ PairInv
        /\ progress \in [processed : Nat, total : Nat]
    BY DEF PassInv, TInv, ControlInv
  <1> DEFINE n == Len(frames)
             rest == frames'[n]
  <1>1. /\ frames # << >> /\ Top.entered /\ path \in Top.todo /\ pair = NoPair
        /\ progress' = progress /\ ignored' = ignored
    BY DEF NextEntry, Loops, worldVars
  <1>2. KeepsKnown
    <2>1. path \in Dirs \cup Files
      BY <1>0, EntryStackNow DEF AllPaths
    <2> QED
      BY <1>0, <2>1, Pass2KeepsKnown DEF Pass2
  <1>3. n \in Nat \ {0} /\ n \in 1..n /\ Top = frames[n] /\ Reached(Top.dir)
    BY <1>0, <1>1, NestTop DEF Top, Counted
  <1>4. /\ frames' # << >> /\ Len(frames') \in { n, n + 1 }
        /\ path \in AllPaths /\ path # Root /\ ParentPath(path) = Top.dir
        /\ \A i \in 1..(n - 1) : frames'[i] = frames[i]
        /\ rest.dir = Top.dir /\ rest.entered /\ rest.todo = Top.todo \ { path }
        /\ \/ /\ SkipsNow(path) \/ DiffersNow(path)
              /\ Len(frames') = n /\ pair' = pair
           \/ /\ DescendsNow(path) /\ Len(frames') = n + 1
              /\ frames'[n + 1] = Activation(path) /\ pair' = pair
           \/ /\ ComparesNow(path) /\ Len(frames') = n /\ pair'.file = path
    BY <1>0, EntryStackNow
  <1>5. Top' = frames'[Len(frames')]
    BY DEF Top
  <1> HIDE DEF n
  <1>6. \A file : Deep(frames, file, n) <=> Deep(frames', file, n) \/ IsWithinSubtree(file, path)
    <2> SUFFICES ASSUME NEW file
                 PROVE  Deep(frames, file, n) <=>
                            Deep(frames', file, n) \/ IsWithinSubtree(file, path)
      OBVIOUS
    <2>1. Deep(frames', file, n - 1) <=> Deep(frames, file, n - 1)
      BY <1>4, DeepSame
    <2>2. Deep(frames, file, n) <=> \/ Deep(frames, file, n - 1)
                                    \/ \E p \in frames[n].todo : IsWithinSubtree(file, p)
      BY <1>3, DeepSplit
    <2>3. Deep(frames', file, n) <=> \/ Deep(frames', file, n - 1)
                                     \/ \E p \in frames'[n].todo : IsWithinSubtree(file, p)
      BY <1>3, DeepSplit
    <2> QED
      BY <1>1, <1>3, <1>4, <2>1, <2>2, <2>3
  <1>7. \A file : Ahead(file) <=> Deep(frames, file, n)
    BY <1>1 DEF Ahead, n
  <1>8. ASSUME \A file \in FilePairs(Root) : Ahead(file)' <=> Ahead(file),
               \A k \in 1..Len(frames') : Reached(frames'[k].dir),
               pair' # NoPair => pair'.file \in FilePairs(Root)
        PROVE  Counted'
    <2>1. progress'.processed = progress.processed + Cardinality({})
      BY <1>0, <1>1, FS_EmptySet
    <2>2. progress'.processed + Cardinality(Remaining') = progress'.total
      BY <1>0, <1>1, <1>2, <1>8, <2>1, Resolves DEF Counted
    <2>3. (\A k \in 1..Len(frames) : Reached(frames[k].dir))'
      BY <1>1, <1>2, <1>8, ReachedStays
    <2>4. FilePairs(Root)' = FilePairs(Root)
      BY <1>1, <1>2, PairsStay
    <2> QED
      BY <1>8, <2>2, <2>3, <2>4 DEF Counted
  <1>9. \A k \in 1..n : Reached(frames'[k].dir)
    <2> SUFFICES ASSUME NEW k \in 1..n PROVE Reached(frames'[k].dir)
      OBVIOUS
    <2>1. k \in 1..(n - 1) \/ k = n
      BY <1>3
    <2> QED
      BY <1>0, <1>3, <1>4, <2>1 DEF Counted, n
  <1>10. CASE (SkipsNow(path) \/ DiffersNow(path)) /\ Len(frames') = n /\ pair' = pair
    <2>1. \A file : Ahead(file)' <=> Deep(frames', file, n)
      BY <1>1, <1>4, <1>5, <1>10 DEF Ahead
    <2>2. \A file \in FilePairs(Root) : ~IsWithinSubtree(file, path)
      BY <1>0, <1>4, <1>10, NothingForeseenBelow
    <2> QED
      BY <1>1, <1>6, <1>7, <1>8, <1>9, <1>10, <2>1, <2>2
  <1>11. CASE /\ DescendsNow(path) /\ Len(frames') = n + 1
              /\ frames'[n + 1] = Activation(path) /\ pair' = pair
    <2>1. ~Top'.entered /\ Top'.dir = path /\ frames'[n + 1].todo = {}
      BY <1>5, <1>11 DEF Activation
    <2>2. \A file : Deep(frames', file, n + 1) <=> Deep(frames', file, n)
      <3> SUFFICES ASSUME NEW file PROVE Deep(frames', file, n + 1) <=> Deep(frames', file, n)
        OBVIOUS
      <3>1. n + 1 \in Nat \ {0} /\ (n + 1) - 1 = n
        BY <1>3
      <3>2. Deep(frames', file, n + 1) <=>
                \/ Deep(frames', file, (n + 1) - 1)
                \/ \E p \in frames'[n + 1].todo : IsWithinSubtree(file, p)
        BY <3>1, DeepSplit
      <3> QED
        BY <2>1, <3>1, <3>2
    <2>3. \A file : Ahead(file)' <=> Deep(frames', file, n) \/ IsWithinSubtree(file, path)
      BY <1>1, <1>4, <1>11, <2>1, <2>2 DEF Ahead
    <2>4. Reached(path)
      BY <1>3, <1>4, <1>11, ReachedEntry DEF DescendsNow
    <2>5. \A k \in 1..Len(frames') : Reached(frames'[k].dir)
      <3> SUFFICES ASSUME NEW k \in 1..(n + 1) PROVE Reached(frames'[k].dir)
        BY <1>11
      <3>1. k \in 1..n \/ k = n + 1
        BY <1>3
      <3>2. frames'[n + 1].dir = path
        BY <1>11 DEF Activation
      <3> QED
        BY <1>9, <2>4, <3>1, <3>2
    <2> QED
      BY <1>1, <1>6, <1>7, <1>8, <1>11, <2>3, <2>5
  <1>12. CASE ComparesNow(path) /\ Len(frames') = n /\ pair'.file = path
    <2>1. path \in FilePairs(Root)
      BY <1>3, <1>4, <1>12, ReachedEntry DEF ComparesNow
    <2>2. pair' # NoPair
      BY <1>4, <1>12 DEF NoPair
    <2>3. \A file : Ahead(file)' <=> Deep(frames', file, n) \/ file = path
      BY <1>4, <1>5, <1>12, <2>2 DEF Ahead
    <2>4. \A file \in FilePairs(Root) : IsWithinSubtree(file, path) <=> file = path
      <3> SUFFICES ASSUME NEW file \in FilePairs(Root)
                   PROVE  IsWithinSubtree(file, path) <=> file = path
        OBVIOUS
      <3>1. ASSUME IsWithinSubtree(file, path), file # path PROVE FALSE
        <4>1. \A side \in Side : KindNow(side, path) = "directory"
          BY <1>0, <1>4, <3>1, PairKinds DEF IsWithinSubtree
        <4> QED
          BY <1>12, <4>1 DEF ComparesNow, Side
      <3>2. IsWithinSubtree(path, path)
        BY <1>4, PathFacts DEF IsWithinSubtree
      <3> QED
        BY <3>1, <3>2
    <2> QED
      BY <1>1, <1>6, <1>7, <1>8, <1>9, <1>12, <2>1, <2>3, <2>4
  <1> QED
    BY <1>4, <1>10, <1>11, <1>12

LEMMA CountedPairDone ==
    ASSUME PassInv, PairDone
    PROVE  Counted'
  <1>0. /\ TInv /\ KindsApart /\ HeldRight /\ Counted /\ RowsInv /\ IsNest(frames) /\ PairInv
        /\ progress \in [processed : Nat, total : Nat]
    BY DEF PassInv, TInv, ControlInv
  <1> DEFINE n == Len(frames)
             file == pair.file
             sum == IF Stage = "matching" THEN { pair.seen["left"].full } ELSE {}
             new == Taken(Top, file, "file", sum, pair.errs)
  <1>1. /\ pair # NoPair /\ pair' = NoPair /\ ignored' = ignored
        /\ frames' = Append(Rest, new)
        /\ progress' = [progress EXCEPT !.processed = @ + 1]
    BY DEF PairDone, worldVars
  <1>2. KeepsKnown
    BY <1>0, Pass2KeepsKnown DEF Pass2
  <1>3. /\ frames # << >> /\ Top.entered /\ file \in AllPaths \ { Root }
        /\ pair.errs \in SUBSET Side
        /\ ParentPath(file) = Top.dir /\ file \notin Top.todo /\ file \in FilePairs(Root)
    BY <1>0, <1>1 DEF PairInv, Pairs, AllPaths, Counted
  <1>4. n \in Nat \ {0} /\ n \in 1..n /\ Top = frames[n] /\ IsFrame(Top)
    BY <1>0, <1>3, NestTop DEF Top
  <1>5. /\ frames' # << >> /\ Len(frames') = n /\ Top' = frames'[n]
        /\ \A i \in 1..(n - 1) : frames'[i] = frames[i]
        /\ Top'.dir = Top.dir /\ Top'.entered /\ Top'.todo = Top.todo
    <2> HIDE DEF sum, file, n
    <2>1. IsFrame(new) /\ new.dir = Top.dir /\ new.entered /\ new.todo = Top.todo
      BY <1>3, <1>4, TakenFrame
    <2> HIDE DEF new
    <2>2. /\ frames' # << >> /\ Len(frames') = Len(frames) /\ Top' = new
          /\ frames'[Len(frames)] = new
          /\ \A i \in 1..(Len(frames) - 1) : frames'[i] = frames[i]
      BY <1>0, <1>1, <1>3, <2>1, Replaced
    <2> QED
      BY <2>1, <2>2 DEF n
  <1> HIDE DEF new, sum
  <1>6. \A i \in 1..n : frames'[i].todo = frames[i].todo /\ frames'[i].dir = frames[i].dir
    <2> SUFFICES ASSUME NEW i \in 1..n
                 PROVE  frames'[i].todo = frames[i].todo /\ frames'[i].dir = frames[i].dir
      OBVIOUS
    <2>1. i \in 1..(n - 1) \/ i = n
      BY <1>4
    <2> QED
      BY <1>4, <1>5, <2>1
  <1>7. \A f : Deep(frames', f, n) <=> Deep(frames, f, n)
    BY <1>6, DeepSame
  <1>8. ~Deep(frames, file, n)
    <2>1. IsWithinSubtree(file, frames[n].dir)
      BY <1>3, <1>4, ChildWithin
    <2>2. ~Deep(frames, file, n - 1)
      BY <1>0, <1>3, <2>1, DeepApart
    <2>3. ASSUME NEW path \in Top.todo, IsWithinSubtree(file, path) PROVE FALSE
      <3>1. path # Root /\ ParentPath(path) = Top.dir
        BY <1>4, <2>3, FrameTypes
      <3>2. file \in Lineage(file)
        BY <1>3, PathFacts
      <3>3. path = file
        BY <1>3, <2>3, <3>1, <3>2, ChildIsUnique DEF IsWithinSubtree
      <3> QED
        BY <1>3, <2>3, <3>3
    <2> HIDE DEF file
    <2>4. Deep(frames, file, n) <=> \/ Deep(frames, file, n - 1)
                                    \/ \E p \in frames[n].todo : IsWithinSubtree(file, p)
      BY <1>4, DeepSplit
    <2> QED
      BY <1>4, <2>2, <2>3, <2>4
  <1>9. /\ \A f : Ahead(f) <=> Deep(frames, f, n) \/ f = file
        /\ \A f : Ahead(f)' <=> Deep(frames', f, n)
    BY <1>1, <1>3, <1>5 DEF Ahead
  <1> DEFINE Gone == { file }
  <1>10. /\ \A f \in FilePairs(Root) : Ahead(f)' <=> Ahead(f) /\ f \notin Gone
         /\ Gone \in SUBSET Remaining
    BY <1>3, <1>7, <1>8, <1>9 DEF Remaining
  <1>11. /\ progress'.processed = progress.processed + Cardinality(Gone)
         /\ progress'.total = progress.total
    BY <1>0, <1>1, FS_Singleton
  <1> HIDE DEF Gone
  <1>12. progress'.processed + Cardinality(Remaining') = progress'.total
    BY <1>0, <1>1, <1>2, <1>10, <1>11, Resolves DEF Counted
  <1>13. \A k \in 1..Len(frames') : Reached(frames'[k].dir)
    <2>1. \A k \in 1..n : Reached(frames[k].dir)
      BY <1>0 DEF Counted
    <2> QED
      BY <1>5, <1>6, <2>1
  <1>14. (\A k \in 1..Len(frames) : Reached(frames[k].dir))'
    BY <1>1, <1>2, <1>13, ReachedStays
  <1> QED
    BY <1>1, <1>12, <1>14 DEF Counted

LEMMA CountedFinish ==
    ASSUME PassInv, FinishDir
    PROVE  Counted'
  <1>0. /\ TInv /\ KindsApart /\ HeldRight /\ Counted /\ RowsInv /\ IsNest(frames) /\ PairInv
        /\ progress \in [processed : Nat, total : Nat]
    BY DEF PassInv, TInv, ControlInv
  <1> DEFINE n == Len(frames)
             sum == IF Top.same /\ Top.errs = {} THEN { Top.kids } ELSE {}
  <1>1. /\ frames # << >> /\ Top.entered /\ Top.todo = {} /\ pair = NoPair /\ pair' = NoPair
        /\ ignored' = ignored /\ progress' = progress /\ frames' = Returned(sum, Top.errs)
    BY DEF FinishDir, Loops, worldVars
  <1>2. KeepsKnown
    BY <1>0, Pass2KeepsKnown DEF Pass2
  <1>3. n \in Nat \ {0} /\ Top = frames[n] /\ Top.errs \in SUBSET Side
    BY <1>0, <1>1, NestTop, FrameTypes DEF Top
  <1> HIDE DEF sum
  <1>4. /\ \A file : Ahead(file)' <=> Deep(frames, file, n - 1)
        /\ \A k \in 1..Len(frames') : Reached(frames'[k].dir)
    BY <1>0, <1>1, <1>3, AheadAfterReturn DEF Counted
  <1>5. \A file : Deep(frames, file, n) <=> Deep(frames, file, n - 1)
    <2> HIDE DEF n
    <2> SUFFICES ASSUME NEW file PROVE Deep(frames, file, n) <=> Deep(frames, file, n - 1)
      OBVIOUS
    <2>1. Deep(frames, file, n) <=> \/ Deep(frames, file, n - 1)
                                    \/ \E p \in frames[n].todo : IsWithinSubtree(file, p)
      BY <1>3, DeepSplit
    <2> QED
      BY <1>1, <1>3, <2>1
  <1>6. \A file : Ahead(file) <=> Deep(frames, file, n)
    BY <1>1 DEF Ahead
  <1>7. \A file \in FilePairs(Root) : Ahead(file)' <=> Ahead(file)
    BY <1>4, <1>5, <1>6
  <1>8. progress'.processed = progress.processed + Cardinality({})
    BY <1>0, <1>1, FS_EmptySet
  <1>9. progress'.processed + Cardinality(Remaining') = progress'.total
    BY <1>0, <1>1, <1>2, <1>7, <1>8, Resolves DEF Counted
  <1>10. (\A k \in 1..Len(frames) : Reached(frames[k].dir))'
    BY <1>1, <1>2, <1>4, ReachedStays
  <1> QED
    BY <1>1, <1>9, <1>10 DEF Counted

\* A step that moves neither the activations nor the progress.
LEMMA CountedStill ==
    ASSUME PassInv, KeepsKnown, ignored' = ignored, frames' = frames, progress' = progress,
           pair # NoPair <=> pair' # NoPair, pair # NoPair => pair'.file = pair.file
    PROVE  Counted'
  <1>0. Counted /\ progress \in [processed : Nat, total : Nat]
    BY DEF PassInv, TInv, ControlInv
  <1>1. Top' = Top
    BY DEF Top
  <1>2. \A file \in FilePairs(Root) : Ahead(file)' <=> Ahead(file)
    BY <1>1 DEF Ahead, Deep
  <1>3. progress'.processed = progress.processed + Cardinality({})
    BY <1>0, FS_EmptySet
  <1>4. progress'.processed + Cardinality(Remaining') = progress'.total
    BY <1>0, <1>2, <1>3, Resolves DEF Counted
  <1>5. (\A k \in 1..Len(frames) : Reached(frames[k].dir))'
    BY <1>0, ReachedStays DEF Counted
  <1>6. FilePairs(Root)' = FilePairs(Root)
    BY PairsStay
  <1> QED
    BY <1>0, <1>4, <1>5, <1>6 DEF Counted

LEMMA RootComparedNext ==
    ASSUME \A side \in Side : << side, Root >> \notin MayIgnore, RootCompared, [Next]_vars
    PROVE  RootCompared'
  <1>1. ignored' \subseteq ignored \cup MayIgnore
    BY WorldSteps DEF worldVars, Edit, Delete, SetIgnored
  <1> QED
    BY <1>1 DEF RootCompared

LEMMA ForeseenNext ==
    ASSUME \A side \in Side : << side, Root >> \notin MayIgnore,
           TInv, KindsApart, HeldInCalm, RootCompared, Foreseen, [Next]_vars
    PROVE  Foreseen'
  <1> SUFFICES ASSUME Undisturbed', at' \in { "run", "hash" } PROVE Counted'
    BY DEF Foreseen, Counted
  <1>0. PairInv /\ ControlInv
    BY DEF TInv
  <1>1. CASE StartPass2
    BY <1>1, CountedAtStart
  <1>2. CASE Pass2
    <2>1. Undisturbed /\ at \in { "run", "hash" }
      BY <1>2 DEF Pass2, Enter, ReadNext, HashSucceeds, HashFails, Cancel, PairDone,
         FinishDir, EndPass2, NextEntry, Loops, historyVars, Undisturbed
    <2>2. PassInv
      BY <2>1 DEF PassInv, Foreseen, Counted, HeldInCalm, Calm
    <2>3. KeepsKnown /\ ignored' = ignored
      BY <1>2, Pass2KeepsKnown DEF worldVars
    <2>4. CASE ReadNext
      <3>1. frames' = frames /\ pair' = pair /\ progress' = progress
        BY <2>4 DEF ReadNext
      <3> QED
        BY <2>2, <2>3, <3>1, CountedStill
    <2>5. CASE HashSucceeds \/ HashFails
      <3>1. frames' = frames /\ progress' = progress /\ at = "hash" /\ at' = "run"
        BY <2>5 DEF HashSucceeds, HashFails
      <3>2. pair # NoPair /\ pair \in Pairs
        BY <1>0, <3>1 DEF PairInv
      <3>3. pair'.file = pair.file /\ pair' # NoPair
        <4>1. pair'.file = pair.file
          BY <2>5, ReadRows, FailRows DEF TInv
        <4>2. pair.file # Root
          BY <1>0, <3>2 DEF PairInv
        <4> QED
          BY <4>1, <4>2 DEF NoPair
      <3> QED
        BY <2>2, <2>3, <3>1, <3>2, <3>3, CountedStill
    <2>6. CASE Cancel
      BY <1>0, <2>1, <2>6 DEF Cancel, ControlInv, Undisturbed
    <2>7. CASE EndPass2
      BY <2>7 DEF EndPass2
    <2>8. CASE Enter
      BY <2>2, <2>8, CountedEnter
    <2>9. CASE PairDone
      BY <2>2, <2>9, CountedPairDone
    <2>10. CASE FinishDir
      BY <2>2, <2>10, CountedFinish
    <2>11. ASSUME NEW path \in Dirs \cup Files, NextEntry(path) PROVE Counted'
      BY <2>2, <2>11, CountedEntry
    <2> QED
      BY <1>2, <2>4, <2>5, <2>6, <2>7, <2>8, <2>9, <2>10, <2>11 DEF Pass2
  <1>3. ASSUME NEW side \in Side, NEW dir \in Dirs, List(side, dir) PROVE FALSE
    <2>1. at' = at /\ Undisturbed
      BY <1>3 DEF List, historyVars, Undisturbed
    <2> QED
      BY <1>3, <2>1, HeldList DEF HeldInCalm, Calm
  <1>4. ASSUME NEW m \in Modes, Compare(m) PROVE FALSE
    BY <1>4 DEF Compare
  <1>5. CASE Stop \/ Restart
    BY <1>5 DEF Stop, Restart, Undisturbed
  <1>6. CASE Changes
    BY <1>6 DEF Changes, Undisturbed
  <1>7. CASE UNCHANGED vars
    <2>1. /\ Undisturbed /\ at' = at /\ rowVars' = rowVars /\ ignored' = ignored
          /\ frames' = frames /\ pair' = pair /\ progress' = progress
      BY <1>7 DEF vars, historyVars, passVars, worldVars, Undisturbed
    <2>2. KeepsKnown
      BY <2>1 DEF rowVars, KeepsKnown
    <2>3. PassInv
      BY <2>1 DEF PassInv, Foreseen, Counted, HeldInCalm, Calm
    <2> QED
      BY <2>1, <2>2, <2>3, CountedStill
  <1> QED
    BY <1>1, <1>2, <1>3, <1>4, <1>5, <1>6, <1>7
    DEF Next, Pass1, Environment, Edit, Delete, SetIgnored

\* The "N of TOTAL" of a comparison that nothing interfered with ends at TOTAL,
\* in trees of any shape and after any comparisons before it, where neither
\* compared root itself can be ignored: what countFilePairs foresees is what
\* compareSubtree resolves, one by one or at once where the cache answers.
THEOREM ProgressIsTotal ==
    ASSUME \A side \in Side : << side, Root >> \notin MayIgnore
    PROVE  Spec => []ProgressReachesTotal
  <1> DEFINE Inv == KindsApart /\ HeldInCalm /\ RootCompared /\ Foreseen
  <1>1. Init => Inv
    <2> SUFFICES ASSUME Init PROVE Inv
      OBVIOUS
    <2>1. \A side \in Side, dir \in Dirs : node[side][dir].outcome = "none"
      BY DEF Init, NoNodes, NoNode
    <2>2. Len(frames) = 0
      BY DEF Init
    <2>3. HeldInCalm
      BY <2>2 DEF Init, HeldInCalm, HeldRight
    <2> QED
      BY <2>1, <2>3 DEF Init, KindsApart, KnownDirs, RootCompared, Foreseen, Undisturbed
  <1>2. TInv /\ Inv /\ [Next]_vars => Inv'
    BY KindsNext, HeldInCalmNext, RootComparedNext, ForeseenNext
  <1>3. TInv /\ Inv => ProgressReachesTotal
    <2> SUFFICES ASSUME TInv, Foreseen, at = "run", frames = << >>, Undisturbed
                 PROVE  progress.processed = progress.total
      BY DEF ProgressReachesTotal
    <2>1. progress.processed + Cardinality(Remaining) = progress.total
      BY DEF Foreseen
    <2>2. pair = NoPair /\ progress \in [processed : Nat, total : Nat]
      BY DEF TInv, PairInv, ControlInv
    <2>3. Remaining = {}
      <3>1. Len(frames) = 0
        OBVIOUS
      <3> QED
        BY <2>2, <3>1 DEF Remaining, Ahead, Deep
    <2>4. Cardinality(Remaining) = 0
      BY <2>3, FS_EmptySet
    <2> QED
      BY <2>1, <2>2, <2>4
  <1> HIDE DEF Inv
  <1> QED
    BY <1>1, <1>2, <1>3, TypesAlways, PTL DEF Spec
=============================================================================
