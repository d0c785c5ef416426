----------------------- MODULE ChecksumMatchesProofs -----------------------
(***************************************************************************)
(* What holds of the search for checksum matches, of the plan it ends with *)
(* and of the renames that carry the plan out, for every number of pairs,  *)
(* names, contents and loops: the types of the state, that a content's     *)
(* match is the one of all names hashed so far, that a rename loses no     *)
(* file when nobody writes between its checks and the rename itself, that  *)
(* the plan of any one-to-one renames carries out each of them, every step *)
(* in its turn, and that what the modal shows of it is so.                 *)
(***************************************************************************)
EXTENDS ChecksumMatches, FiniteSetTheorems, WellFoundedInduction, TLAPS

-----------------------------------------------------------------------------
(* Names *)

LEMMA NumberedNames ==
    /\ AllNames \subseteq Nat \ {0} /\ IsFiniteSet(AllNames) /\ NoName \notin AllNames
    /\ Spare \subseteq AllNames /\ IsFiniteSet(Spare)
  <1>1. IsFiniteSet(AllNames)
    BY NamesAreNumbers, FS_Union DEF AllNames
  <1> QED
    BY <1>1, NamesAreNumbers DEF AllNames, NoName

\* A set of naturals has a least member.
LEMMA LeastNatural ==
    ASSUME NEW T \in SUBSET Nat, T # { }
    PROVE  \E n \in T : \A m \in T : n <= m
  <1>1. PICK n \in T : \A m \in T : ~ (<< m, n >> \in OpToRel(<, Nat))
    BY NatLessThanWellFounded, WFMin, Zenon
  <1>2. \A m \in T : ~ (m < n)
    BY <1>1 DEF OpToRel
  <1> QED
    BY <1>2

LEMMA EarliestIsLeast ==
    ASSUME NEW T \in SUBSET Nat, T # { }
    PROVE  /\ Earliest(T) \in T /\ \A m \in T : Earliest(T) <= m
           /\ \A n \in T : (\A m \in T : n <= m) => n = Earliest(T)
  <1>1. \E n \in T : \A m \in T : n <= m
    BY LeastNatural
  <1>2. Earliest(T) \in T /\ \A m \in T : Earliest(T) <= m
    BY <1>1 DEF Earliest
  <1> DEFINE least == Earliest(T)
  <1> HIDE DEF least
  <1>3. ASSUME NEW n \in T, \A m \in T : n <= m PROVE n = least
    <2>1. least \in T /\ n \in Nat /\ least \in Nat /\ n <= least /\ least <= n
      BY <1>2, <1>3 DEF least
    <2> QED
      BY <2>1
  <1> QED
    BY <1>2, <1>3 DEF least

-----------------------------------------------------------------------------
(* The functions the plan is computed with *)

Iterates(g, n, S, base, step) ==
    g \in [0..n -> S] /\ g[0] = base /\ \A i \in 1..n : g[i] = step[i][g[i - 1]]

\* What each step makes of what the step before made: there is such a function.
LEMMA IterationExists ==
    ASSUME NEW n \in Nat, NEW S, NEW base \in S, NEW step \in [1..n -> [S -> S]]
    PROVE  \E g : Iterates(g, n, S, base, step)
  <1> DEFINE good(m) == \E g \in [0..n -> S] :
                           g[0] = base /\ \A i \in 1..m : g[i] = step[i][g[i - 1]]
             bad == { m \in 0..n : ~good(m) }
  <1> SUFFICES ASSUME bad # { } PROVE FALSE
    <2>1. n \in 0..n
      OBVIOUS
    <2>2. good(n)
      BY <2>1
    <2> QED
      BY <2>2 DEF Iterates
  <1>1. PICK m \in bad : \A other \in bad : m <= other
    <2>1. bad \in SUBSET Nat
      OBVIOUS
    <2> HIDE DEF bad
    <2> QED
      BY <2>1, LeastNatural
  <1>2. good(0)
    <2> DEFINE g == [i \in 0..n |-> base]
    <2>1. g \in [0..n -> S] /\ g[0] = base /\ \A i \in 1..0 : g[i] = step[i][g[i - 1]]
      OBVIOUS
    <2> HIDE DEF g
    <2> QED
      BY <2>1
  <1>3. m \in 1..n /\ m - 1 \in 0..n /\ m - 1 \notin bad
    <2>1. m \in 0..n /\ ~good(m)
      BY <1>1
    <2>2. m # 0
      BY <1>2, <2>1
    <2> HIDE DEF good
    <2>3. m \in 1..n /\ m - 1 \in 0..n /\ ~ (m <= m - 1)
      BY <2>1, <2>2
    <2>4. m - 1 \notin bad
      <3> HIDE DEF bad
      <3> QED
        BY <1>1, <2>3
    <2> QED
      BY <2>3, <2>4
  <1>4. PICK g \in [0..n -> S] :
           g[0] = base /\ \A i \in 1..(m - 1) : g[i] = step[i][g[i - 1]]
    BY <1>3
  <1> DEFINE h == [i \in 0..n |-> IF i = m THEN step[m][g[m - 1]] ELSE g[i]]
  <1>5. step[m][g[m - 1]] \in S
    BY <1>3, <1>4
  <1>6. h \in [0..n -> S] /\ h[0] = base
    BY <1>3, <1>4, <1>5
  <1>7. ASSUME NEW i \in 1..m PROVE h[i] = step[i][h[i - 1]]
    <2>1. i \in 0..n /\ i - 1 \in 0..n /\ i - 1 # m /\ h[i - 1] = g[i - 1]
      BY <1>3
    <2>2. CASE i = m
      BY <2>1, <2>2
    <2>3. CASE i # m
      <3>1. i \in 1..(m - 1)
        BY <1>3, <2>3
      <3>2. h[i] = g[i]
        BY <2>1, <2>3
      <3> QED
        BY <1>4, <2>1, <3>1, <3>2
    <2> QED
      BY <2>2, <2>3
  <1> HIDE DEF h
  <1>8. good(m)
    BY <1>6, <1>7
  <1> QED
    BY <1>1, <1>8

\* Two functions that begin alike and go on alike are alike.
LEMMA IterationIsUnique ==
    ASSUME NEW n \in Nat, NEW f, NEW g, f[0] = g[0],
           \A i \in 1..n : f[i - 1] = g[i - 1] => f[i] = g[i]
    PROVE  \A i \in 0..n : f[i] = g[i]
  <1> DEFINE bad == { m \in 0..n : f[m] # g[m] }
  <1> SUFFICES ASSUME bad # { } PROVE FALSE
    OBVIOUS
  <1>1. PICK m \in bad : \A other \in bad : m <= other
    <2>1. bad \in SUBSET Nat
      OBVIOUS
    <2> HIDE DEF bad
    <2> QED
      BY <2>1, LeastNatural
  <1>2. m \in 1..n /\ m - 1 \in 0..n /\ m - 1 \notin bad
    BY <1>1
  <1> QED
    BY <1>1, <1>2

-----------------------------------------------------------------------------
(* Trails and the order of names *)

\* The renames of a search, as far as the plan cares.
Renaming(renames) ==
    /\ DOMAIN renames \subseteq AllNames
    /\ \A name \in DOMAIN renames : renames[name] \in AllNames

\* A trail goes from name to name until it has to stop.
LEMMA TrailFacts ==
    ASSUME NEW renames, Renaming(renames), NEW head \in DOMAIN renames
    PROVE  LET t == Trail(renames, head)
           IN  /\ t \in Seq(AllNames) /\ Len(t) > 0 /\ t[1] = head
               /\ \A i \in 1..(Len(t) - 1) : t[i] \in DOMAIN renames /\ t[i + 1] = renames[t[i]]
               /\ \A i, j \in 1..Len(t) : t[i] = t[j] => i = j
               /\ t[Len(t)] \in DOMAIN renames =>
                     \E i \in 1..Len(t) : renames[t[Len(t)]] = t[i]
  <1> DEFINE n == Cardinality(DOMAIN renames)
             reach == DOMAIN renames \cup Range(renames) \cup { NoName }
             next == [name \in reach |-> IF name \in DOMAIN renames THEN renames[name] ELSE NoName]
             metIs(m) == m = [k \in 0..n |-> IF k = 0 THEN head ELSE next[m[k - 1]]]
             met == CHOOSE m : metIs(m)
  <1>1. Trail(renames, head) = [i \in 1..Cardinality(Range(met) \ { NoName }) |-> met[i - 1]]
    BY DEF Trail
  <1>2. /\ IsFiniteSet(DOMAIN renames) /\ n \in Nat
        /\ next \in [reach -> reach] /\ head \in reach /\ head # NoName
        /\ reach \subseteq AllNames \cup { NoName } /\ NoName \notin DOMAIN renames
    <2>1. IsFiniteSet(DOMAIN renames)
      BY NumberedNames, FS_Subset DEF Renaming
    <2> QED
      BY <2>1, NumberedNames, FS_CardinalityType DEF Renaming, Range
  <1>3. /\ next[NoName] = NoName
        /\ \A name \in reach : next[name] # NoName =>
              name \in DOMAIN renames /\ next[name] = renames[name]
        /\ \A name \in DOMAIN renames : next[name] = renames[name] /\ next[name] # NoName
    BY <1>2, NumberedNames DEF Renaming
  <1> HIDE DEF n, reach, next
  <1>4. /\ met[0] = head /\ DOMAIN met = 0..n
        /\ \A k \in 1..n : met[k] = next[met[k - 1]]
        /\ \A k \in 0..n : met[k] \in reach
    <2> DEFINE steps == [k \in 1..n |-> next]
    <2>1. steps \in [1..n -> [reach -> reach]] /\ \A k \in 1..n : steps[k] = next
      BY <1>2
    <2> HIDE DEF steps
    <2>2. PICK g : Iterates(g, n, reach, head, steps)
      <3>1. n \in Nat /\ head \in reach /\ steps \in [1..n -> [reach -> reach]]
        BY <1>2, <2>1
      <3> QED
        BY <3>1, IterationExists
    <2>i. g \in [0..n -> reach] /\ g[0] = head /\ \A k \in 1..n : g[k] = steps[k][g[k - 1]]
      BY <2>2 DEF Iterates
    <2>3. metIs(g)
      <3>1. \A k \in 1..n : g[k] = next[g[k - 1]]
        BY <2>1, <2>i
      <3>2. \A k \in 0..n : g[k] = IF k = 0 THEN head ELSE next[g[k - 1]]
        BY <2>i, <3>1, <1>2
      <3> QED
        BY <2>i, <3>2
    <2>4. metIs(met)
      BY <2>3
    <2> HIDE DEF met
    <2>5. /\ met[0] = head /\ DOMAIN met = 0..n
          /\ \A k \in 1..n : met[k] = next[met[k - 1]]
      BY <2>4, <1>2
    <2>6. \A k \in 0..n : met[k] = g[k]
      <3>1. \A k \in 1..n : met[k - 1] = g[k - 1] => met[k] = g[k]
        BY <2>1, <2>i, <2>5
      <3>2. n \in Nat /\ met[0] = g[0]
        BY <1>2, <2>i, <2>5
      <3> QED
        BY <3>1, <3>2, IterationIsUnique, Zenon
    <2> QED
      BY <2>i, <2>5, <2>6
  <1> HIDE DEF met
  \* The first index at which there is nothing, or what was met before.
  <1> DEFINE Ends(k) == k = n + 1 \/ met[k] = NoName \/ \E i \in 0..(k - 1) : met[k] = met[i]
  <1>5. PICK j \in 1..(n + 1) : Ends(j) /\ \A k \in 1..(n + 1) : Ends(k) => j <= k
    <2> DEFINE T == { k \in 1..(n + 1) : Ends(k) }
    <2>1. T \in SUBSET Nat /\ n + 1 \in T
      BY <1>2
    <2> HIDE DEF T
    <2>2. PICK j \in T : \A k \in T : j <= k
      BY <2>1, LeastNatural
    <2> QED
      BY <2>2 DEF T
  <1>6. /\ \A k \in 0..(j - 1) : k \in 0..n /\ met[k] # NoName
        /\ \A i, k \in 0..(j - 1) : met[i] = met[k] => i = k
    <2>1. ASSUME NEW k \in 0..(j - 1), k # 0
          PROVE  met[k] # NoName /\ \A i \in 0..(k - 1) : met[k] # met[i]
      <3>1. k \in 1..(n + 1) /\ ~(j <= k)
        BY <2>1, <1>2
      <3> QED
        BY <3>1, <1>5
    <2>2. ASSUME NEW i \in 0..(j - 1), NEW k \in 0..(j - 1), i < k PROVE met[i] # met[k]
      <3>1. k # 0 /\ i \in 0..(k - 1)
        BY <2>2
      <3> QED
        BY <2>1, <3>1
    <2>3. ASSUME NEW i \in 0..(j - 1), NEW k \in 0..(j - 1), met[i] = met[k] PROVE i = k
      <3>1. ~(i < k) /\ ~(k < i)
        BY <2>2, <2>3
      <3> QED
        BY <3>1
    <2>4. \A k \in 0..(j - 1) : k \in 0..n
      BY <1>2
    <2> QED
      BY <2>1, <2>3, <2>4, <1>2, <1>4
  <1> DEFINE first == { met[i] : i \in 0..(j - 1) }
  <1>7. \A k \in 0..n : met[k] \in first \cup { NoName }
    <2> DEFINE T == { k \in 0..n : met[k] \notin first \cup { NoName } }
    <2> SUFFICES ASSUME T # { } PROVE FALSE
      OBVIOUS
    <2>1. PICK k \in T : \A other \in T : k <= other
      <3>1. T \in SUBSET Nat
        BY <1>2
      <3> HIDE DEF T
      <3> QED
        BY <3>1, LeastNatural
    <2>2. k \in 0..n /\ k >= j /\ k \in 1..n /\ j \in 1..n
      <3>1. k \in 0..n /\ k \notin 0..(j - 1)
        BY <2>1
      <3> QED
        BY <3>1, <1>2
    <2>3. k - 1 \in 0..n /\ k - 1 \notin T
      <3>1. k - 1 \in 0..n /\ ~(k <= k - 1)
        BY <2>2, <1>2
      <3> HIDE DEF T
      <3> QED
        BY <2>1, <3>1
    <2>4. met[k] = next[met[k - 1]] /\ met[k - 1] \in first \cup { NoName }
      BY <2>2, <2>3, <1>4
    <2>5. CASE met[k - 1] = NoName
      BY <2>1, <2>4, <2>5, <1>3
    <2>6. CASE met[k - 1] \in first
      <3>1. PICK i \in 0..(j - 1) : met[k - 1] = met[i]
        BY <2>6
      <3>2. i + 1 \in 1..n /\ met[i + 1] = next[met[i]] /\ (i + 1) - 1 = i
        BY <1>2, <1>4, <2>2
      <3>3. met[k] = met[i + 1]
        BY <2>4, <3>1, <3>2
      <3>4. CASE i + 1 \in 0..(j - 1)
        BY <2>1, <3>3, <3>4
      <3>5. CASE i + 1 = j
        <4>1. met[j] = NoName \/ \E x \in 0..(j - 1) : met[j] = met[x]
          BY <1>2, <1>5, <2>2
        <4> QED
          BY <2>1, <3>3, <3>5, <4>1
      <3> QED
        BY <3>4, <3>5, <1>2
    <2> QED
      BY <2>4, <2>5, <2>6
  <1>8. Range(met) \ { NoName } = first
    <2>1. first \subseteq Range(met) \ { NoName }
      BY <1>4, <1>6 DEF Range
    <2>2. Range(met) \subseteq first \cup { NoName }
      BY <1>4, <1>7 DEF Range
    <2> QED
      BY <2>1, <2>2
  <1>9. Cardinality(first) = j
    <2> DEFINE f == [i \in 1..j |-> met[i - 1]]
    <2>1. f \in Bijection(1..j, first)
      <3>1. \A i \in 1..j : i - 1 \in 0..(j - 1)
        BY <1>2
      <3>2. f \in [1..j -> first]
        BY <3>1
      <3>3. \A a, b \in 1..j : f[a] = f[b] => a = b
        <4> TAKE a, b \in 1..j
        <4>1. f[a] = f[b] => a - 1 = b - 1
          BY <3>1, <1>6
        <4> QED
          BY <4>1
      <3>4. \A v \in first : \E a \in 1..j : f[a] = v
        <4> TAKE v \in first
        <4>1. PICK i \in 0..(j - 1) : v = met[i]
          OBVIOUS
        <4>2. i + 1 \in 1..j /\ (i + 1) - 1 = i
          BY <1>2
        <4> QED
          BY <4>1, <4>2
      <3> HIDE DEF f, first
      <3> QED
        BY <3>2, <3>3, <3>4 DEF Bijection, Injection, Surjection, IsInjective
    <2>2. ExistsBijection(1..j, first)
      BY <2>1 DEF ExistsBijection
    <2>3. IsFiniteSet(1..j) /\ Cardinality(1..j) = j
      BY <1>2, FS_Interval
    <2> HIDE DEF first
    <2> QED
      BY <2>2, <2>3, FS_Bijection
  <1> DEFINE t == Trail(renames, head)
  <1>10. /\ t = [i \in 1..j |-> met[i - 1]]
         /\ \A i \in 1..j : i - 1 \in 0..(j - 1) /\ t[i] = met[i - 1] /\ t[i] \in AllNames
    <2>1. t = [i \in 1..j |-> met[i - 1]]
      BY <1>1, <1>8, <1>9
    <2> HIDE DEF t
    <2>2. \A i \in 1..j : i - 1 \in 0..(j - 1) /\ t[i] = met[i - 1]
      BY <2>1, <1>2
    <2> QED
      BY <2>1, <2>2, <1>2, <1>4, <1>6
  <1> HIDE DEF t, first
  <1>11. t \in Seq(AllNames) /\ Len(t) = j /\ j \in Nat /\ j > 0
    BY <1>2, <1>10
  <1>12. t[1] = head
    BY <1>4, <1>10, <1>11
  <1>13. \A i \in 1..(j - 1) : t[i] \in DOMAIN renames /\ t[i + 1] = renames[t[i]]
    <2> TAKE i \in 1..(j - 1)
    <2>1. i \in 1..j /\ i + 1 \in 1..j /\ i \in 1..n /\ i - 1 \in 0..n /\ (i + 1) - 1 = i
      BY <1>2
    <2>2. t[i] = met[i - 1] /\ t[i + 1] = met[i] /\ met[i] = next[met[i - 1]]
      BY <2>1, <1>4, <1>10
    <2>3. met[i] # NoName
      BY <1>6, <2>1
    <2> QED
      BY <1>3, <1>4, <2>1, <2>2, <2>3
  <1>14. \A a, b \in 1..j : t[a] = t[b] => a = b
    <2> TAKE a, b \in 1..j
    <2>1. t[a] = t[b] => a - 1 = b - 1
      BY <1>6, <1>10
    <2> QED
      BY <2>1
  <1>15. ASSUME t[j] \in DOMAIN renames PROVE \E i \in 1..j : renames[t[j]] = t[i]
    <2>1. j \in 1..j /\ t[j] = met[j - 1] /\ j - 1 \in 0..n
      BY <1>2, <1>10, <1>11
    <2>2. CASE j <= n
      <3>1. j \in 1..n /\ met[j] = renames[t[j]] /\ met[j] # NoName
        BY <1>2, <1>3, <1>4, <1>11, <1>15, <2>1, <2>2
      <3>2. PICK i \in 0..(j - 1) : met[j] = met[i]
        BY <1>5, <1>2, <2>2, <3>1
      <3>3. i + 1 \in 1..j /\ (i + 1) - 1 = i
        BY <1>2
      <3> QED
        BY <1>10, <3>1, <3>2, <3>3
    <2>3. CASE j = n + 1
      <3>1. \A i \in 1..j : t[i] \in DOMAIN renames
        BY <1>2, <1>13, <1>15, <2>3
      <3>2. t \in Injection(1..j, DOMAIN renames)
        <4>1. t \in [1..j -> DOMAIN renames]
          BY <1>10, <3>1
        <4> QED
          BY <4>1, <1>14 DEF Injection, IsInjective
      <3>3. Cardinality(1..j) <= n
        BY <3>2, <1>2, FS_Injection DEF n
      <3>4. Cardinality(1..j) = j
        BY <1>11, FS_Interval
      <3> QED
        BY <3>3, <3>4, <2>3, <1>2
    <2> QED
      BY <1>2, <2>2, <2>3
  <1> QED
    BY <1>11, <1>12, <1>13, <1>14, <1>15 DEF t

\* Every name has its place in the order.
LEMMA InOrderFacts ==
    ASSUME NEW S \in SUBSET AllNames
    PROVE  /\ InOrder(S) \in Seq(S) /\ Len(InOrder(S)) = Cardinality(S)
           /\ \A name \in S : \E i \in 1..Len(InOrder(S)) : InOrder(S)[i] = name
           /\ \A i, j \in 1..Len(InOrder(S)) : InOrder(S)[i] = InOrder(S)[j] => i = j
  <1> DEFINE n == Cardinality(S)
             below(name) == { other \in S : other < name }
             rank == [name \in S |-> Cardinality(below(name))]
             order == [i \in 1..n |-> CHOOSE name \in S : Cardinality(below(name)) = i - 1]
  <1>1. IsFiniteSet(S) /\ n \in Nat /\ S \subseteq Nat
    BY NumberedNames, FS_Subset, FS_CardinalityType
  <1>2. \A name \in S : IsFiniteSet(below(name)) /\ Cardinality(below(name)) \in Nat
    <2> TAKE name \in S
    <2>1. below(name) \subseteq S
      OBVIOUS
    <2> HIDE DEF below
    <2> QED
      BY <1>1, <2>1, FS_Subset, FS_CardinalityType
  <1>3. \A name \in S : Cardinality(below(name)) < n
    <2> TAKE name \in S
    <2>1. IsFiniteSet(S \ { name }) /\ Cardinality(S \ { name }) = n - 1
      BY <1>1, FS_RemoveElement
    <2>2. below(name) \subseteq S \ { name }
      BY <1>1
    <2> HIDE DEF below
    <2>3. Cardinality(below(name)) <= Cardinality(S \ { name })
      BY <2>1, <2>2, FS_Subset
    <2> QED
      BY <1>1, <1>2, <2>1, <2>3
  <1>4. ASSUME NEW a \in S, NEW b \in S, a < b
        PROVE  Cardinality(below(a)) # Cardinality(below(b))
    <2>1. a \in below(b) /\ a \notin below(a)
      BY <1>1, <1>4
    <2>2. ASSUME NEW c \in below(a) PROVE c \in below(b)
      <3>1. c \in S /\ c < a /\ c \in Nat /\ a \in Nat /\ b \in Nat
        BY <1>1, <2>2
      <3> QED
        BY <1>4, <3>1
    <2> HIDE DEF below
    <2>3. below(a) \in SUBSET below(b)
      BY <2>2
    <2> QED
      BY <1>2, <2>1, <2>3, FS_Subset
  <1>5. \A a, b \in S : Cardinality(below(a)) = Cardinality(below(b)) => a = b
    <2> SUFFICES ASSUME NEW a \in S, NEW b \in S, Cardinality(below(a)) = Cardinality(below(b))
                 PROVE  a = b
      OBVIOUS
    <2> HIDE DEF below
    <2>1. ~(a < b) /\ ~(b < a)
      BY <1>4
    <2> QED
      BY <1>1, <2>1
  <1> HIDE DEF below
  <1>6. rank \in Injection(S, 0..(n - 1))
    <2>1. rank \in [S -> 0..(n - 1)]
      BY <1>1, <1>2, <1>3
    <2> QED
      BY <2>1, <1>5 DEF Injection, IsInjective
  <1>7. rank \in Surjection(S, 0..(n - 1))
    <2>0. 0 \in Int /\ n - 1 \in Int
      BY <1>1
    <2>i. /\ IsFiniteSet(0..(n - 1))
          /\ Cardinality(0..(n - 1)) = IF 0 > n - 1 THEN 0 ELSE (n - 1) - 0 + 1
      BY <2>0, FS_Interval
    <2>1. IsFiniteSet(0..(n - 1)) /\ Cardinality(0..(n - 1)) = n
      <3> HIDE DEF n
      <3> QED
        BY <1>1, <2>i
    <2> HIDE DEF rank
    <2> QED
      BY <1>1, <1>6, <2>1, FS_Injection
  <1>8. \A i \in 1..n : \E name \in S : Cardinality(below(name)) = i - 1
    <2> TAKE i \in 1..n
    <2>1. i - 1 \in 0..(n - 1)
      BY <1>1
    <2>2. \A v \in 0..(n - 1) : \E name \in S : rank[name] = v
      BY <1>7, Zenon DEF Surjection
    <2>3. PICK name \in S : rank[name] = i - 1
      BY <2>1, <2>2
    <2> QED
      BY <2>3
  <1>9. \A i \in 1..n : order[i] \in S /\ Cardinality(below(order[i])) = i - 1
    BY <1>8
  <1>10. InOrder(S) = order
    BY DEF InOrder, below
  <1>11. order \in Seq(S) /\ Len(order) = n
    BY <1>1, <1>9
  <1>12. ASSUME NEW name \in S PROVE \E i \in 1..n : order[i] = name
    <2> DEFINE i == Cardinality(below(name)) + 1
    <2>1. i \in 1..n /\ Cardinality(below(name)) = i - 1
      BY <1>1, <1>2, <1>3
    <2> HIDE DEF i
    <2>2. order[i] = name
      BY <1>5, <1>9, <2>1
    <2> QED
      BY <2>1, <2>2
  <1>13. ASSUME NEW i \in 1..n, NEW j \in 1..n, order[i] = order[j] PROVE i = j
    <2>1. i - 1 = j - 1
      BY <1>9, <1>13
    <2> QED
      BY <2>1
  <1> HIDE DEF order
  <1> QED
    BY <1>10, <1>11, <1>12, <1>13

-----------------------------------------------------------------------------
(* The plan is a sequence of steps *)

PlanStep ==
    { step \in [from : AllNames \cup { NoName }, back : Nat, to : AllNames \cup { NoName },
                isBackup : BOOLEAN] :
        /\ step.back = 0 => step.from \in AllNames
        /\ ~step.isBackup => step.to \in AllNames }

\* The trail of a name, and what is done for it.
Heads(renames) == InOrder(PureSources(renames)) \o InOrder(CycleHeads(renames))
StepsFor(renames, existing, head) ==
    IF head \in PureSources(renames) THEN ChainSteps(Trail(renames, head), existing)
                                     ELSE CycleSteps(Trail(renames, head))

LEMMA TailFirstFacts ==
    ASSUME NEW trail \in Seq(AllNames), Len(trail) > 0
    PROVE  /\ TailFirst(trail) \in Seq(PlanStep) /\ Len(TailFirst(trail)) = Len(trail) - 1
           /\ \A i \in 1..(Len(trail) - 1) :
                 TailFirst(trail)[i] = Rename(trail[Len(trail) - i], trail[Len(trail) - i + 1])
  <1> DEFINE n == Len(trail) - 1
             steps == [i \in 1..n |-> Rename(trail[Len(trail) - i], trail[Len(trail) - i + 1])]
  <1>1. n \in Nat
    OBVIOUS
  <1>2. \A i \in 1..n : Rename(trail[Len(trail) - i], trail[Len(trail) - i + 1]) \in PlanStep
    <2> TAKE i \in 1..n
    <2>1. trail[Len(trail) - i] \in AllNames /\ trail[Len(trail) - i + 1] \in AllNames
      OBVIOUS
    <2> QED
      BY <2>1 DEF Rename, PlanStep
  <1>3. TailFirst(trail) = steps
    BY DEF TailFirst
  <1> HIDE DEF n
  <1>4. steps \in Seq(PlanStep) /\ Len(steps) = n
    BY <1>1, <1>2
  <1> QED
    BY <1>3, <1>4 DEF n

LEMMA StepTypes ==
    ASSUME NEW name \in AllNames, NEW to \in AllNames, NEW back \in Nat \ {0}
    PROVE  Backup(name) \in PlanStep /\ RenameBackup(back, to) \in PlanStep
  BY DEF Backup, RenameBackup, PlanStep

LEMMA StepsForType ==
    ASSUME NEW renames, Renaming(renames), NEW existing, NEW head \in DOMAIN renames
    PROVE  StepsFor(renames, existing, head) \in Seq(PlanStep)
  <1> DEFINE t == Trail(renames, head)
  <1>1. t \in Seq(AllNames) /\ Len(t) > 0
    BY TrailFacts
  <1> HIDE DEF t
  <1>2. TailFirst(t) \in Seq(PlanStep)
    BY <1>1, TailFirstFacts
  <1>3. t[Len(t)] \in AllNames /\ t[1] \in AllNames /\ Len(t) \in Nat \ {0}
    BY <1>1
  <1>4. Backup(t[Len(t)]) \in PlanStep /\ RenameBackup(Len(t), t[1]) \in PlanStep
    BY <1>3, StepTypes
  <1>5. ChainSteps(t, existing) \in Seq(PlanStep)
    BY <1>2, <1>4 DEF ChainSteps
  <1>6. CycleSteps(t) \in Seq(PlanStep)
    BY <1>2, <1>4 DEF CycleSteps
  <1> QED
    BY <1>5, <1>6 DEF StepsFor, t

LEMMA HeadsType ==
    ASSUME NEW renames, Renaming(renames)
    PROVE  Heads(renames) \in Seq(DOMAIN renames)
  <1> DEFINE sources == InOrder(PureSources(renames))
             cycles == InOrder(CycleHeads(renames))
  <1>1. /\ PureSources(renames) \in SUBSET DOMAIN renames
        /\ CycleHeads(renames) \in SUBSET DOMAIN renames
    BY DEF PureSources, CycleHeads
  <1>2. PureSources(renames) \in SUBSET AllNames /\ CycleHeads(renames) \in SUBSET AllNames
    BY <1>1 DEF Renaming
  <1>3. sources \in Seq(PureSources(renames)) /\ cycles \in Seq(CycleHeads(renames))
    BY <1>2, InOrderFacts
  <1>4. sources \in Seq(DOMAIN renames) /\ cycles \in Seq(DOMAIN renames)
    BY <1>1, <1>3
  <1> HIDE DEF sources, cycles
  <1> QED
    BY <1>4 DEF Heads, sources, cycles

\* What has been planned once the first i trails are done.
Planned(so, renames, existing) ==
    LET heads == Heads(renames)
    IN  /\ so \in [0..Len(heads) -> Seq(PlanStep)] /\ so[0] = << >>
        /\ \A i \in 1..Len(heads) :
              so[i] = so[i - 1] \o StepsFor(renames, existing, heads[i])

LEMMA PlanIsPlanned ==
    ASSUME NEW renames, Renaming(renames), NEW existing
    PROVE  \E so : /\ Planned(so, renames, existing)
                   /\ BuildRenamePlan(renames, existing) = so[Len(Heads(renames))]
  <1> DEFINE heads == Heads(renames)
             n == Len(heads)
             ext == [i \in 1..n |-> [plan \in Seq(PlanStep) |->
                                        plan \o StepsFor(renames, existing, heads[i])]]
             soIs(so) == so = [i \in 0..n |->
                            IF i = 0 THEN << >>
                            ELSE so[i - 1] \o (IF heads[i] \in PureSources(renames)
                                                 THEN ChainSteps(Trail(renames, heads[i]), existing)
                                                 ELSE CycleSteps(Trail(renames, heads[i])))]
             so == CHOOSE f : soIs(f)
  <1>1. BuildRenamePlan(renames, existing) = so[n]
    BY DEF BuildRenamePlan, Heads
  <1>2. heads \in Seq(DOMAIN renames) /\ n \in Nat /\ \A i \in 1..n : heads[i] \in DOMAIN renames
    <2>1. heads \in Seq(DOMAIN renames)
      BY HeadsType
    <2> HIDE DEF heads
    <2> QED
      BY <2>1
  <1> HIDE DEF heads, n
  <1>3. /\ ext \in [1..n -> [Seq(PlanStep) -> Seq(PlanStep)]]
        /\ \A i \in 1..n, plan \in Seq(PlanStep) :
              ext[i][plan] = plan \o StepsFor(renames, existing, heads[i])
    <2>1. \A i \in 1..n : StepsFor(renames, existing, heads[i]) \in Seq(PlanStep)
      BY <1>2, StepsForType
    <2>2. \A i \in 1..n, plan \in Seq(PlanStep) :
             plan \o StepsFor(renames, existing, heads[i]) \in Seq(PlanStep)
      BY <2>1
    <2> QED
      BY <2>2
  <1> HIDE DEF ext
  <1>4. PICK g : Iterates(g, n, Seq(PlanStep), << >>, ext)
    <2>1. << >> \in Seq(PlanStep)
      OBVIOUS
    <2> QED
      BY <1>2, <1>3, <2>1, IterationExists
  <1>5. g \in [0..n -> Seq(PlanStep)] /\ g[0] = << >> /\ \A i \in 1..n : g[i] = ext[i][g[i - 1]]
    BY <1>4 DEF Iterates
  <1>6. \A i \in 1..n : i - 1 \in 0..n /\ g[i] = g[i - 1] \o StepsFor(renames, existing, heads[i])
    <2> TAKE i \in 1..n
    <2>1. i - 1 \in 0..n
      BY <1>2
    <2> QED
      BY <2>1, <1>3, <1>5
  <1>7. soIs(g)
    <2>1. \A i \in 0..n : g[i] = IF i = 0 THEN << >>
                                 ELSE g[i - 1] \o StepsFor(renames, existing, heads[i])
      <3> TAKE i \in 0..n
      <3>1. CASE i = 0
        BY <1>5, <3>1
      <3>2. CASE i \in 1..n
        <4>1. i # 0
          BY <1>2, <3>2
        <4> QED
          BY <1>6, <3>2, <4>1
      <3> QED
        BY <1>2, <3>1, <3>2
    <2>2. g = [i \in 0..n |-> IF i = 0 THEN << >>
                              ELSE g[i - 1] \o StepsFor(renames, existing, heads[i])]
      BY <1>5, <2>1
    <2> QED
      BY <2>2 DEF StepsFor
  <1>8. soIs(so)
    BY <1>7
  <1> HIDE DEF so
  <1>9. /\ so[0] = << >> /\ DOMAIN so = 0..n
        /\ \A i \in 1..n : so[i] = so[i - 1] \o StepsFor(renames, existing, heads[i])
    <2>1. so = [i \in 0..n |-> IF i = 0 THEN << >>
                               ELSE so[i - 1] \o StepsFor(renames, existing, heads[i])]
      BY <1>8 DEF StepsFor
    <2>2. DOMAIN so = 0..n
      BY <2>1, Zenon
    <2>3. 0 \in 0..n /\ \A i \in 1..n : i \in 0..n /\ i # 0
      BY <1>2
    <2>4. \A i \in 0..n : so[i] = IF i = 0 THEN << >>
                                  ELSE so[i - 1] \o StepsFor(renames, existing, heads[i])
      BY <2>1, Zenon
    <2>5. so[0] = << >>
      BY <2>3, <2>4, Zenon
    <2>6. \A i \in 1..n : so[i] = so[i - 1] \o StepsFor(renames, existing, heads[i])
      BY <2>3, <2>4, Zenon
    <2> QED
      BY <2>2, <2>5, <2>6
  <1>10. \A i \in 0..n : so[i] = g[i]
    <2>1. \A i \in 1..n : so[i - 1] = g[i - 1] => so[i] = g[i]
      BY <1>6, <1>9
    <2>2. n \in Nat /\ so[0] = g[0]
      BY <1>2, <1>5, <1>9
    <2> QED
      BY <2>1, <2>2, IterationIsUnique, Zenon
  <1>11. so \in [0..n -> Seq(PlanStep)]
    <2>1. so = [i \in 0..n |-> so[i]]
      BY <1>8
    <2>2. \A i \in 0..n : so[i] \in Seq(PlanStep)
      BY <1>5, <1>10
    <2> QED
      BY <2>1, <2>2
  <1>12. Planned(so, renames, existing)
    BY <1>9, <1>11 DEF Planned, heads, n
  <1> QED
    BY <1>1, <1>12 DEF heads, n

LEMMA PlanType ==
    ASSUME NEW renames, Renaming(renames), NEW existing
    PROVE  BuildRenamePlan(renames, existing) \in Seq(PlanStep)
  <1> DEFINE n == Len(Heads(renames))
  <1>1. n \in Nat
    BY HeadsType
  <1>2. PICK so : Planned(so, renames, existing) /\ BuildRenamePlan(renames, existing) = so[n]
    BY PlanIsPlanned
  <1>3. so \in [0..n -> Seq(PlanStep)]
    BY <1>2 DEF Planned
  <1> HIDE DEF n
  <1> QED
    BY <1>1, <1>2, <1>3

-----------------------------------------------------------------------------
(* The types of the state *)

Match == (AllNames \X AllNames) \cup { NoMatch }

SearchState ==
    [of : Pairs, running : BOOLEAN, todo : [Sides -> SUBSET AllNames],
     existing : SUBSET AllNames, sums : [Sides -> [Contents -> SUBSET AllNames]],
     matches : [Contents -> Match], hashed : Nat, total : Nat, plan : Seq(PlanStep)]

Results == UNION { [steps -> AllNames] : steps \in SUBSET Nat }

PageState ==
    [pair : Pairs, open : BOOLEAN, searching : BOOLEAN, plan : Seq(PlanStep), planOf : Pairs,
     results : Results, completed : Nat]

StatusType == [running : BOOLEAN, plan : Seq(PlanStep), of : Pairs]

LoopState ==
    { Idle } \cup [phase : { "started", "asleep", "asking" }]
             \cup [phase : { "posted" }, pair : Pairs]
             \cup [phase : { "answered" }, status : StatusType]

ExecutorState ==
    { step \in [phase : { "asked", "checked", "renamed", "refetch", "refused" },
                plan : Seq(PlanStep), results : Results, pair : Pairs, at : Nat, all : BOOLEAN,
                result : AllNames \cup { NoName }] :
        /\ step.at \in 1..Len(step.plan)
        /\ step.phase \in { "checked", "renamed", "refetch" } => step.result \in AllNames }

\* What the checks of a rename found still holds of the step: it has a source.
HasSource == executor.phase = "checked" => SourceName \in AllNames

Typed ==
    /\ disk \in [Pairs -> DirectoryPair]
    /\ search \in SearchState
    /\ leftovers \in 0..MaxLeftovers
    /\ page \in PageState
    /\ loops \in [Loops -> LoopState]
    /\ executor \in { Idle } \cup ExecutorState
    /\ faults \in Nat
    /\ HasSource

LEMMA ResultsTypes ==
    /\ NoResults \in Results
    /\ \A results \in Results, at \in Nat, name \in AllNames :
          Noted(results, at, name) \in Results
    /\ \A results \in Results : \A at : ResultOf(results, at) \in AllNames \cup { NoName }
  <1>1. NoResults \in Results
    <2>1. NoResults \in [{} -> AllNames] /\ {} \in SUBSET Nat
      BY DEF NoResults
    <2> QED
      BY <2>1 DEF Results
  <1>2. ASSUME NEW results \in Results, NEW at \in Nat, NEW name \in AllNames
        PROVE  Noted(results, at, name) \in Results
    <2>1. PICK steps \in SUBSET Nat : results \in [steps -> AllNames]
      BY DEF Results
    <2>2. DOMAIN results \cup { at } = steps \cup { at }
      BY <2>1
    <2>3. Noted(results, at, name) \in [steps \cup { at } -> AllNames]
      BY <2>1, <2>2 DEF Noted
    <2>4. steps \cup { at } \in SUBSET Nat
      OBVIOUS
    <2> QED
      BY <2>3, <2>4 DEF Results
  <1>3. ASSUME NEW results \in Results, NEW at
        PROVE  ResultOf(results, at) \in AllNames \cup { NoName }
    <2>1. PICK steps \in SUBSET Nat : results \in [steps -> AllNames]
      BY DEF Results
    <2> QED
      BY <2>1 DEF ResultOf
  <1> QED
    BY <1>1, <1>2, <1>3

LEMMA CandidatesType ==
    ASSUME NEW pair \in Pairs
    PROVE  /\ Candidates(pair) \in [Sides -> SUBSET AllNames]
           /\ Cardinality(Candidates(pair).left) \in Nat
           /\ Cardinality(Candidates(pair).right) \in Nat
           /\ ExistingLeft(pair) \in SUBSET AllNames
  <1>1. Entries(pair) \in SUBSET AllNames
    BY DEF Entries
  <1> DEFINE l == Entries(pair) \ (Matching(pair) \cup OnlyOn(pair, "right"))
             r == Entries(pair) \ (Matching(pair) \cup OnlyOn(pair, "left"))
  <1>2. Candidates(pair) = [left |-> l, right |-> r]
    BY DEF Candidates
  <1>3. l \in SUBSET AllNames /\ r \in SUBSET AllNames /\ ExistingLeft(pair) \in SUBSET AllNames
    BY <1>1 DEF ExistingLeft
  <1> HIDE DEF l, r
  <1>4. Cardinality(l) \in Nat /\ Cardinality(r) \in Nat
    BY <1>3, NumberedNames, FS_Subset, FS_CardinalityType
  <1>5. [left |-> l, right |-> r] \in [Sides -> SUBSET AllNames]
    BY <1>3 DEF Sides
  <1> QED
    BY <1>2, <1>3, <1>4, <1>5

LEMMA NoSearchType ==
    ASSUME NEW pair \in Pairs
    PROVE  NoSearch(pair) \in SearchState
  <1>1. << >> \in Seq(PlanStep) /\ NoMatch \in Match
    BY DEF Match
  <1>2. NoSums \in [Sides -> [Contents -> SUBSET AllNames]]
    BY DEF NoSums
  <1> HIDE DEF NoMatch
  <1> QED
    BY <1>1, <1>2 DEF NoSearch, SearchState

LEMMA RenamesAreRenaming ==
    ASSUME NEW matches \in [Contents -> Match]
    PROVE  Renaming(Renames(matches))
  <1> DEFINE found == { matches[content] : content \in Contents } \ { NoMatch }
             sources == { match[1] : match \in found }
  <1>1. found \subseteq AllNames \X AllNames
    BY DEF Match
  <1>2. Renames(matches) = [name \in sources |-> (CHOOSE match \in found : match[1] = name)[2]]
    BY DEF Renames
  <1> HIDE DEF found
  <1>3. \A name \in sources : /\ name \in AllNames
                              /\ (CHOOSE match \in found : match[1] = name)[2] \in AllNames
    BY <1>1
  <1> QED
    BY <1>2, <1>3 DEF Renaming

-----------------------------------------------------------------------------
(* Who writes what *)

LEMMA Writers ==
    ASSUME [Next]_vars
    PROVE  /\ \/ UNCHANGED << search, leftovers >>
              \/ SearchEnds \/ AbortedReadEnds \/ \E side \in Sides : HashNext(side)
              \/ \E loop \in Loops : StartRequest(loop)
           /\ \/ UNCHANGED loops
              \/ \E loop \in Loops :
                    FindChecksumMatches(loop) \/ LoopStep(loop) \/ StartFails(loop)
                      \/ StatusFails(loop)
           /\ \/ UNCHANGED page
              \/ Close \/ StepAnswered \/ \E pair \in Pairs : Navigate(pair)
              \/ \E loop \in Loops :
                    FindChecksumMatches(loop) \/ ApplyStatus(loop) \/ StartFails(loop)
                      \/ StatusFails(loop)
           /\ \/ UNCHANGED executor
              \/ ExecutorStep \/ AnswerIsLost \/ \E all \in BOOLEAN : BeginSteps(all)
           /\ \/ UNCHANGED disk
              \/ DoRename
              \/ \E pair \in Pairs, name \in MayCreate, content \in Contents \cup { 0 } :
                    Meddle(pair, name, content)
           /\ \/ UNCHANGED faults
              \/ faults > 0 /\ faults' = faults - 1
              \/ \E side \in Sides : HashNext(side)
  <1>1. CASE UNCHANGED vars
    BY <1>1 DEF vars
  <1>2. CASE Worker
    <2>1. CASE SearchEnds
      BY <2>1 DEF SearchEnds
    <2>2. CASE \E side \in Sides : HashNext(side)
      <3>1. UNCHANGED << disk, page, loops, executor >>
        BY <2>2 DEF HashNext
      <3> QED
        BY <2>2, <3>1
    <2> QED
      BY <1>2, <2>1, <2>2 DEF Worker
  <1>3. CASE AbortedReadEnds
    BY <1>3 DEF AbortedReadEnds
  <1>4. ASSUME NEW loop \in Loops,
               FindChecksumMatches(loop) \/ LoopStep(loop) \/ StartFails(loop) \/ StatusFails(loop)
        PROVE  /\ UNCHANGED << disk, executor >>
               /\ UNCHANGED << search, leftovers >> \/ StartRequest(loop)
               /\ UNCHANGED faults \/ (faults > 0 /\ faults' = faults - 1)
               /\ \/ UNCHANGED page
                  \/ FindChecksumMatches(loop) \/ ApplyStatus(loop) \/ StartFails(loop)
                  \/ StatusFails(loop)
    BY <1>4 DEF FindChecksumMatches, LoopStep, StartFails, StatusFails, StartRequest, Continue,
                StatusRequest, ApplyStatus, AFault
  <1>5. CASE Close
    BY <1>5 DEF Close
  <1>6. CASE \E pair \in Pairs : Navigate(pair)
    <2>1. UNCHANGED << disk, search, leftovers, loops, executor, faults >>
      BY <1>6 DEF Navigate
    <2> QED
      BY <1>6, <2>1
  <1>7. CASE \E all \in BOOLEAN : BeginSteps(all)
    <2>1. UNCHANGED << disk, search, leftovers, page, loops, faults >>
      BY <1>7 DEF BeginSteps
    <2> QED
      BY <1>7, <2>1
  <1>8. CASE ExecutorStep
    <2>1. /\ UNCHANGED << search, leftovers, loops, faults >>
          /\ UNCHANGED page \/ StepAnswered
          /\ UNCHANGED disk \/ DoRename
      BY <1>8 DEF ExecutorStep, CheckRename, DoRename, StepAnswered, StepEnds, StepRefused
    <2> QED
      BY <1>8, <2>1
  <1>9. CASE AnswerIsLost
    <2>1. /\ UNCHANGED << disk, search, leftovers, page, loops >>
          /\ faults > 0 /\ faults' = faults - 1
      BY <1>9 DEF AnswerIsLost, AFault
    <2> QED
      BY <1>9, <2>1
  <1>10. CASE \E pair \in Pairs, name \in MayCreate, content \in Contents \cup { 0 } :
                 Meddle(pair, name, content)
    <2>1. /\ UNCHANGED << search, leftovers, page, loops, executor >>
          /\ faults > 0 /\ faults' = faults - 1
      BY <1>10 DEF Meddle, AFault
    <2> QED
      BY <1>10, <2>1
  <1>11. CASE \E loop \in Loops :
            FindChecksumMatches(loop) \/ LoopStep(loop) \/ StartFails(loop) \/ StatusFails(loop)
    <2>1. PICK loop \in Loops :
            FindChecksumMatches(loop) \/ LoopStep(loop) \/ StartFails(loop) \/ StatusFails(loop)
      BY <1>11
    <2>2. /\ UNCHANGED << disk, executor >>
          /\ UNCHANGED << search, leftovers >> \/ StartRequest(loop)
          /\ UNCHANGED faults \/ (faults > 0 /\ faults' = faults - 1)
          /\ \/ UNCHANGED page
             \/ FindChecksumMatches(loop) \/ ApplyStatus(loop) \/ StartFails(loop)
             \/ StatusFails(loop)
      BY <2>1, <1>4
    <2> QED
      BY <2>1, <2>2
  <1> QED
    BY <1>1, <1>2, <1>3, <1>5, <1>6, <1>7, <1>8, <1>9, <1>10, <1>11 DEF Next

\* The match of a content of which each side has a file.
LEMMA BestMatchType ==
    ASSUME NEW sums \in [Sides -> [Contents -> SUBSET AllNames]], NEW content \in Contents,
           \A side \in Sides : sums[side][content] # {}
    PROVE  BestMatch(sums, content) \in Match
  <1>1. "left" \in Sides /\ "right" \in Sides
    BY DEF Sides
  <1>2. /\ sums.left[content] \in SUBSET AllNames /\ sums.left[content] # {}
        /\ sums.right[content] \in SUBSET AllNames /\ sums.right[content] # {}
    BY <1>1
  <1>3. \A names \in SUBSET AllNames : names # {} => Earliest(names) \in AllNames
    <2> TAKE names \in SUBSET AllNames
    <2>1. names \in SUBSET Nat
      BY NumberedNames
    <2> QED
      BY <2>1, EarliestIsLeast
  <1>4. /\ Earliest(sums.left[content]) \in AllNames
        /\ Earliest(sums.right[content]) \in AllNames
    BY <1>2, <1>3
  <1> QED
    BY <1>4 DEF BestMatch, Match

\* A file's checksum is noted: its name with the others, and the content's match anew.
LEMMA RecordedSums ==
    ASSUME search \in SearchState, NEW side \in Sides, NEW name \in AllNames,
           NEW content \in Contents
    PROVE  LET recorded == RecordHashedName(side, name, content)
           IN  /\ recorded \in SearchState
               /\ recorded.todo = search.todo
               /\ \A other \in Contents \ { content } :
                     /\ \A s \in Sides : recorded.sums[s][other] = search.sums[s][other]
                     /\ recorded.matches[other] = search.matches[other]
               /\ recorded.matches[content] =
                     IF \A s \in Sides : recorded.sums[s][content] # {}
                       THEN BestMatch(recorded.sums, content) ELSE search.matches[content]
               /\ \A s \in Sides : recorded.sums[s][content] = {} => search.sums[s][content] = {}
  <1> DEFINE sums == [search.sums EXCEPT ![side][content] = @ \cup { name }]
             paired == \A other \in Sides : sums[other][content] # {}
             match == IF paired THEN BestMatch(sums, content) ELSE search.matches[content]
             matches == [search.matches EXCEPT ![content] = match]
             recorded == RecordHashedName(side, name, content)
  <1>1. recorded = [search EXCEPT !.sums = sums, !.matches = matches]
    BY DEF RecordHashedName, SearchState
  <1>2. /\ sums \in [Sides -> [Contents -> SUBSET AllNames]]
        /\ \A other \in Contents \ { content }, s \in Sides :
              sums[s][other] = search.sums[s][other]
        /\ \A s \in Sides : sums[s][content] = {} => search.sums[s][content] = {}
    BY DEF SearchState
  <1> HIDE DEF sums
  <1>3. match \in Match /\ search.matches \in [Contents -> Match]
    BY <1>2, BestMatchType DEF SearchState
  <1> HIDE DEF match
  <1>4. /\ matches \in [Contents -> Match] /\ matches[content] = match
        /\ \A other \in Contents \ { content } : matches[other] = search.matches[other]
    BY <1>3
  <1> HIDE DEF matches, recorded
  <1>5. /\ recorded \in SearchState /\ recorded.todo = search.todo
        /\ recorded.sums = sums /\ recorded.matches = matches
    BY <1>1, <1>2, <1>4 DEF SearchState
  <1> QED
    BY <1>2, <1>4, <1>5 DEF match, recorded

\* What a step of a stream does to the search.
LEMMA HashNextFacts ==
    ASSUME Typed, NEW side \in Sides, HashNext(side)
    PROVE  LET name == Earliest(search.todo[side])
               content == disk[search.of][side][name]
               Counted(found) == [found EXCEPT !.todo[side] = @ \ { name }, !.hashed = @ + 1]
           IN  /\ name \in AllNames
               /\ \/ /\ content \in Contents
                     /\ search' = Counted(RecordHashedName(side, name, content))
                  \/ search' = Counted(search)
               /\ faults' \in Nat /\ faults' <= faults
  <1> DEFINE name == Earliest(search.todo[side])
             content == disk[search.of][side][name]
             Counted(found) == [found EXCEPT !.todo[side] = @ \ { name }, !.hashed = @ + 1]
  <1>1. name \in AllNames
    <2>1. search.todo[side] \in SUBSET AllNames /\ search.todo[side] # {}
      BY DEF Typed, SearchState, HashNext
    <2>2. search.todo[side] \in SUBSET Nat
      BY <2>1, NumberedNames
    <2> QED
      BY <2>1, <2>2, EarliestIsLeast
  <1>2. content \in Contents \cup { 0 }
    <2>1. disk[search.of] \in DirectoryPair
      BY DEF Typed, SearchState
    <2>2. disk[search.of][side] \in Files
      BY <2>1 DEF DirectoryPair, Sides
    <2> QED
      BY <1>1, <2>2 DEF Files
  <1>3. faults \in Nat
    BY DEF Typed
  <1>4. \/ content # 0 /\ faults' = faults
           /\ search' = Counted(RecordHashedName(side, name, content))
        \/ (faults' = faults \/ AFault) /\ search' = Counted(search)
    BY DEF HashNext
  <1>5. faults' \in Nat /\ faults' <= faults
    BY <1>3, <1>4 DEF AFault
  <1> QED
    BY <1>1, <1>2, <1>4, <1>5

LEMMA CountedType ==
    ASSUME NEW found \in SearchState, NEW side \in Sides, NEW name
    PROVE  LET counted == [found EXCEPT !.todo[side] = @ \ { name }, !.hashed = @ + 1]
           IN  /\ counted \in SearchState
               /\ counted.sums = found.sums /\ counted.matches = found.matches
               /\ counted.existing = found.existing /\ counted.plan = found.plan
               /\ counted.running = found.running
  <1> DEFINE todo == [found.todo EXCEPT ![side] = @ \ { name }]
             hashed == found.hashed + 1
             counted == [found EXCEPT !.todo[side] = @ \ { name }, !.hashed = @ + 1]
  <1>1. todo \in [Sides -> SUBSET AllNames] /\ hashed \in Nat
    BY DEF SearchState
  <1>2. counted = [found EXCEPT !.todo = todo, !.hashed = hashed]
    BY DEF SearchState
  <1> HIDE DEF todo, hashed, counted
  <1>3. /\ counted \in SearchState
        /\ counted.sums = found.sums /\ counted.matches = found.matches
        /\ counted.existing = found.existing /\ counted.plan = found.plan
        /\ counted.running = found.running
    BY <1>1, <1>2 DEF SearchState
  <1> QED
    BY <1>3 DEF counted

LEMMA SearchStays ==
    ASSUME Typed, [Next]_vars
    PROVE  search' \in SearchState /\ leftovers' \in 0..MaxLeftovers
  <1>1. MaxLeftovers \in Nat /\ leftovers \in 0..MaxLeftovers /\ search \in SearchState
    BY NamesAreNumbers DEF Typed
  <1>2. CASE UNCHANGED << search, leftovers >>
    BY <1>1, <1>2
  <1>3. CASE SearchEnds
    <2> DEFINE plan == BuildRenamePlan(Renames(search.matches), search.existing)
    <2>1. plan \in Seq(PlanStep)
      <3>1. Renaming(Renames(search.matches))
        BY <1>1, RenamesAreRenaming DEF SearchState
      <3> QED
        BY <3>1, PlanType
    <2>2. search' = [search EXCEPT !.running = FALSE, !.plan = plan] /\ leftovers' = leftovers
      BY <1>3 DEF SearchEnds
    <2> HIDE DEF plan
    <2> QED
      BY <1>1, <2>1, <2>2 DEF SearchState
  <1>4. CASE AbortedReadEnds
    <2>1. /\ leftovers > 0 /\ leftovers' = leftovers - 1
          /\ search' \in { search, [search EXCEPT !.hashed = @ + 1] }
      BY <1>4 DEF AbortedReadEnds
    <2>2. [search EXCEPT !.hashed = @ + 1] \in SearchState
      <3> DEFINE hashed == search.hashed + 1
      <3>1. hashed \in Nat
        BY <1>1 DEF SearchState
      <3>2. [search EXCEPT !.hashed = @ + 1] = [search EXCEPT !.hashed = hashed]
        BY <1>1 DEF SearchState
      <3> HIDE DEF hashed
      <3> QED
        BY <1>1, <3>1, <3>2 DEF SearchState
    <2> QED
      BY <1>1, <2>1, <2>2
  <1>5. ASSUME NEW side \in Sides, HashNext(side)
        PROVE  search' \in SearchState /\ leftovers' \in 0..MaxLeftovers
    <2> DEFINE name == Earliest(search.todo[side])
               content == disk[search.of][side][name]
               Counted(found) == [found EXCEPT !.todo[side] = @ \ { name }, !.hashed = @ + 1]
    <2>1. /\ name \in AllNames
          /\ \/ /\ content \in Contents
                /\ search' = Counted(RecordHashedName(side, name, content))
             \/ search' = Counted(search)
      BY <1>5, HashNextFacts
    <2>2. leftovers' = leftovers
      BY <1>5 DEF HashNext
    <2> HIDE DEF name, content
    <2>3. ASSUME content \in Contents PROVE RecordHashedName(side, name, content) \in SearchState
      BY <1>1, <2>1, <2>3, RecordedSums
    <2>4. \A found \in SearchState : Counted(found) \in SearchState
      BY CountedType
    <2> HIDE DEF Counted
    <2> QED
      BY <1>1, <2>1, <2>2, <2>3, <2>4
  <1>6. ASSUME NEW loop \in Loops, StartRequest(loop)
        PROVE  search' \in SearchState /\ leftovers' \in 0..MaxLeftovers
    <2> DEFINE pair == loops[loop].pair
               candidates == Candidates(pair)
    <2>1. pair \in Pairs
      <3>1. loops[loop].phase = "posted" /\ loops[loop] \in LoopState
        BY <1>6 DEF StartRequest, Typed
      <3> QED
        BY <3>1 DEF LoopState, Idle
    <2>2. StartSearch(pair)
      BY <1>6 DEF StartRequest
    <2> HIDE DEF pair
    <2>3. /\ candidates \in [Sides -> SUBSET AllNames]
          /\ Cardinality(candidates.left) + Cardinality(candidates.right) \in Nat
          /\ ExistingLeft(pair) \in SUBSET AllNames
      BY <2>1, CandidatesType
    <2>4. NoSearch(pair) \in SearchState
      BY <2>1, NoSearchType
    <2>5. search' = [NoSearch(pair) EXCEPT
                        !.running = TRUE, !.todo = candidates,
                        !.existing = ExistingLeft(pair),
                        !.total = Cardinality(candidates.left) + Cardinality(candidates.right)]
      BY <2>2 DEF StartSearch
    <2> HIDE DEF candidates
    <2>6. search' \in SearchState
      BY <2>3, <2>4, <2>5 DEF SearchState
    <2>7. Cardinality({ side \in Sides : search.todo[side] # {} }) \in Nat
      <3>1. IsFiniteSet(Sides)
        <4>1. IsFiniteSet({ "left" })
          BY FS_EmptySet, FS_Singleton
        <4>2. IsFiniteSet({ "left" } \cup { "right" })
          BY <4>1, FS_AddElement
        <4>3. Sides = { "left" } \cup { "right" }
          BY DEF Sides
        <4> QED
          BY <4>2, <4>3
      <3>2. { side \in Sides : search.todo[side] # {} } \in SUBSET Sides
        OBVIOUS
      <3> QED
        BY <3>1, <3>2, FS_Subset, FS_CardinalityType
    <2>8. /\ leftovers' = leftovers + Cardinality({ side \in Sides : search.todo[side] # {} })
          /\ leftovers' <= MaxLeftovers
      BY <2>2 DEF StartSearch
    <2> QED
      BY <1>1, <2>6, <2>7, <2>8
  <1> QED
    BY <1>2, <1>3, <1>4, <1>5, <1>6, Writers

LEMMA StatusIsTyped ==
    ASSUME Typed
    PROVE  Status \in StatusType
  BY DEF Typed, SearchState, Status, StatusType

LEMMA LoopsStay ==
    ASSUME Typed, [Next]_vars
    PROVE  loops' \in [Loops -> LoopState]
  <1>1. loops \in [Loops -> LoopState] /\ page.pair \in Pairs
    BY DEF Typed, PageState
  <1>2. /\ Idle \in LoopState
        /\ \A pair \in Pairs : [phase |-> "posted", pair |-> pair] \in LoopState
        /\ [phase |-> "started"] \in LoopState /\ [phase |-> "asleep"] \in LoopState
        /\ [phase |-> "asking"] \in LoopState
        /\ \A status \in StatusType : [phase |-> "answered", status |-> status] \in LoopState
    BY DEF LoopState
  <1>3. ASSUME NEW loop \in Loops,
               FindChecksumMatches(loop) \/ LoopStep(loop) \/ StartFails(loop) \/ StatusFails(loop)
        PROVE  \E state \in LoopState : loops' = [loops EXCEPT ![loop] = state]
    <2>1. CASE FindChecksumMatches(loop)
      BY <1>1, <1>2, <2>1 DEF FindChecksumMatches
    <2>2. CASE StartRequest(loop)
      BY <1>2, <2>2 DEF StartRequest
    <2>3. CASE Continue(loop)
      <3> DEFINE state == IF ~page.open THEN Idle
                          ELSE IF loops[loop].phase = "started" THEN [phase |-> "asleep"]
                          ELSE [phase |-> "asking"]
      <3>1. loops' = [loops EXCEPT ![loop] = state]
        BY <1>1, <2>3 DEF Continue
      <3>2. state \in LoopState
        BY <1>2
      <3> QED
        BY <3>1, <3>2
    <2>4. CASE StatusRequest(loop)
      BY <1>2, <2>4, StatusIsTyped DEF StatusRequest
    <2>5. CASE ApplyStatus(loop)
      BY <1>2, <2>5 DEF ApplyStatus
    <2>6. CASE StartFails(loop)
      BY <1>2, <2>6 DEF StartFails
    <2>7. CASE StatusFails(loop)
      BY <1>2, <2>7 DEF StatusFails
    <2> QED
      BY <1>3, <2>1, <2>2, <2>3, <2>4, <2>5, <2>6, <2>7 DEF LoopStep
  <1> HIDE DEF LoopState
  <1>4. CASE UNCHANGED loops
    BY <1>1, <1>4
  <1>5. ASSUME NEW loop \in Loops, NEW state \in LoopState,
               loops' = [loops EXCEPT ![loop] = state]
        PROVE  loops' \in [Loops -> LoopState]
    BY <1>1, <1>5
  <1> QED
    BY <1>3, <1>4, <1>5, Writers

LEMMA PageStays ==
    ASSUME Typed, [Next]_vars
    PROVE  page' \in PageState
  <1>1. page \in PageState
    BY DEF Typed
  <1>2. << >> \in Seq(PlanStep) /\ NoResults \in Results
    BY ResultsTypes
  <1>3. CASE UNCHANGED page
    BY <1>1, <1>3
  <1>4. CASE Close
    BY <1>1, <1>4 DEF Close, PageState
  <1>5. CASE StepAnswered
    <2>1. executor \in ExecutorState /\ executor.phase = "renamed"
      BY <1>5 DEF Typed, StepAnswered, Idle
    <2>2. executor.at \in Nat /\ executor.result \in AllNames
      BY <2>1 DEF ExecutorState
    <2>3. Noted(page.results, executor.at, executor.result) \in Results
      BY <1>1, <2>2, ResultsTypes DEF PageState
    <2>4. page' = [page EXCEPT !.results = Noted(page.results, executor.at, executor.result),
                               !.completed = executor.at]
      BY <1>1, <1>5 DEF StepAnswered, PageState
    <2> QED
      BY <1>1, <2>2, <2>3, <2>4 DEF PageState
  <1>6. ASSUME NEW pair \in Pairs, Navigate(pair) PROVE page' \in PageState
    BY <1>1, <1>6 DEF Navigate, PageState
  <1>7. ASSUME NEW loop \in Loops, FindChecksumMatches(loop) PROVE page' \in PageState
    <2>1. page' = Emptied(page)
      BY <1>7 DEF FindChecksumMatches
    <2> QED
      BY <1>1, <1>2, <2>1 DEF Emptied, PageState
  <1>8. ASSUME NEW loop \in Loops, StartFails(loop) \/ StatusFails(loop)
        PROVE  page' \in PageState
    BY <1>1, <1>8 DEF StartFails, StatusFails, PageState
  <1>9. ASSUME NEW loop \in Loops, ApplyStatus(loop) PROVE page' \in PageState
    <2>1. loops[loop].phase = "answered" /\ loops[loop] \in LoopState
      BY <1>9 DEF ApplyStatus, Typed
    <2>2. loops[loop].status \in StatusType
      BY <2>1 DEF LoopState, Idle
    <2>3. /\ loops[loop].status.plan \in Seq(PlanStep) /\ loops[loop].status.of \in Pairs
      BY <2>2 DEF StatusType
    <2>4. \/ page' = page
          \/ page' = [page EXCEPT !.searching = FALSE, !.plan = loops[loop].status.plan,
                                !.planOf = loops[loop].status.of, !.results = NoResults]
      BY <1>9 DEF ApplyStatus
    <2> QED
      BY <1>1, <1>2, <2>3, <2>4 DEF PageState
  <1> HIDE DEF PageState
  <1> QED
    BY <1>3, <1>4, <1>5, <1>6, <1>7, <1>8, <1>9, Writers

LEMMA TheStep ==
    ASSUME executor \in ExecutorState
    PROVE  /\ Step \in PlanStep /\ SourceName \in AllNames \cup { NoName }
           /\ ~Step.isBackup => DestinationName \in AllNames
           /\ (\E name \in Spare : IsFree(name)) /\ Step.isBackup =>
                 DestinationName \in AllNames
  <1>1. executor.plan \in Seq(PlanStep) /\ executor.at \in 1..Len(executor.plan)
    BY DEF ExecutorState
  <1>2. Step \in PlanStep
    BY <1>1 DEF Step
  <1>3. SourceName \in AllNames \cup { NoName }
    <2>1. executor.results \in Results
      BY DEF ExecutorState
    <2>2. Step.back = 0 => Step.from \in AllNames
      BY <1>2 DEF PlanStep
    <2> QED
      BY <2>1, <2>2, ResultsTypes DEF SourceName
  <1>4. ASSUME ~Step.isBackup PROVE DestinationName \in AllNames
    BY <1>2, <1>4 DEF PlanStep, DestinationName
  <1>5. ASSUME \E name \in Spare : IsFree(name), Step.isBackup
        PROVE  DestinationName \in AllNames
    <2> DEFINE free == { name \in Spare : ~Has(executor.pair, "left", name) }
    <2>1. free # {} /\ free \in SUBSET Nat /\ free \subseteq AllNames
      BY <1>5, NumberedNames DEF IsFree
    <2>2. DestinationName = Earliest(free)
      BY <1>5 DEF DestinationName
    <2> HIDE DEF free
    <2> QED
      BY <2>1, <2>2, EarliestIsLeast
  <1> QED
    BY <1>2, <1>3, <1>4, <1>5

\* What a step of the plan depends on stays, while only its phase and result change.
LEMMA SourceStays ==
    ASSUME executor'.plan = executor.plan, executor'.at = executor.at,
           executor'.results = executor.results
    PROVE  SourceName' = SourceName
  BY DEF SourceName, Step

LEMMA ExecutorStays ==
    ASSUME Typed, [Next]_vars
    PROVE  executor' \in { Idle } \cup ExecutorState /\ HasSource'
  <1>1. executor \in { Idle } \cup ExecutorState /\ page \in PageState /\ HasSource
    BY DEF Typed
  <1>i. Idle.phase = "none"
    BY DEF Idle
  <1>2. CASE UNCHANGED executor
    BY <1>1, <1>2 DEF HasSource, SourceName, Step
  <1>3. CASE executor' = Idle
    BY <1>3, <1>i DEF HasSource
  <1>4. CASE CheckRename
    <2>1. executor \in ExecutorState /\ executor.phase = "asked"
      BY <1>1, <1>4, <1>i DEF CheckRename
    <2> DEFINE next == IF Has(executor.pair, "left", SourceName) /\ IsFree(DestinationName)
                         THEN "checked" ELSE "refused"
    <2>2. executor' = [executor EXCEPT !.result = DestinationName, !.phase = next]
      BY <1>4 DEF CheckRename
    <2>3. DestinationName \in AllNames /\ SourceName \in AllNames \cup { NoName }
      <3>1. Step.isBackup => \E name \in Spare : IsFree(name)
        BY <1>4 DEF CheckRename
      <3> QED
        BY <2>1, <3>1, TheStep
    <2>4. next = "checked" => SourceName \in AllNames
      BY <2>3 DEF Has
    <2>5. next \in { "checked", "refused" }
      OBVIOUS
    <2> HIDE DEF next
    <2>6. /\ executor' \in ExecutorState
          /\ executor'.phase = next /\ executor'.plan = executor.plan
          /\ executor'.at = executor.at /\ executor'.results = executor.results
      BY <2>1, <2>2, <2>3, <2>5 DEF ExecutorState
    <2> QED
      BY <2>4, <2>6, SourceStays DEF HasSource
  <1>5. CASE DoRename
    <2>1. executor \in ExecutorState /\ executor.phase = "checked"
      BY <1>1, <1>5, <1>i DEF DoRename
    <2>2. \/ executor' = [executor EXCEPT !.phase = "refused"]
          \/ executor' = [executor EXCEPT !.phase = "renamed"]
      BY <1>5 DEF DoRename
    <2>3. executor' \in ExecutorState /\ executor'.phase # "checked"
      BY <2>1, <2>2 DEF ExecutorState
    <2> QED
      BY <2>3 DEF HasSource
  <1>6. CASE StepAnswered
    <2>1. executor \in ExecutorState /\ executor.phase = "renamed"
      BY <1>1, <1>6, <1>i DEF StepAnswered
    <2> DEFINE noted == Noted(executor.results, executor.at, executor.result)
    <2>2. executor' = [executor EXCEPT !.phase = "refetch", !.results = noted]
      BY <1>6, <2>1 DEF StepAnswered, ExecutorState
    <2>3. noted \in Results
      <3>1. executor.results \in Results /\ executor.at \in Nat /\ executor.result \in AllNames
        BY <2>1 DEF ExecutorState
      <3> QED
        BY <3>1, ResultsTypes
    <2> HIDE DEF noted
    <2>4. executor' \in ExecutorState /\ executor'.phase # "checked"
      BY <2>1, <2>2, <2>3 DEF ExecutorState
    <2> QED
      BY <2>4 DEF HasSource
  <1>7. CASE StepEnds
    <2>1. executor \in ExecutorState /\ executor.phase = "refetch"
      BY <1>1, <1>7, <1>i DEF StepEnds
    <2>2. CASE executor.all /\ executor.at < Len(executor.plan)
      <3> DEFINE at == executor.at + 1
      <3>1. executor' = [executor EXCEPT !.phase = "asked", !.at = at]
        BY <1>7, <2>1, <2>2 DEF StepEnds, ExecutorState
      <3>2. at \in Nat /\ at \in 1..Len(executor.plan)
        BY <2>1, <2>2 DEF ExecutorState
      <3> HIDE DEF at
      <3>3. executor' \in ExecutorState /\ executor'.phase # "checked"
        BY <2>1, <3>1, <3>2 DEF ExecutorState
      <3> QED
        BY <3>3 DEF HasSource
    <2>3. CASE ~(executor.all /\ executor.at < Len(executor.plan))
      <3>1. executor' = Idle
        BY <1>7, <2>3 DEF StepEnds
      <3> QED
        BY <1>3, <3>1
    <2> QED
      BY <2>2, <2>3
  <1>8. ASSUME NEW all \in BOOLEAN, BeginSteps(all)
        PROVE  executor' \in { Idle } \cup ExecutorState /\ HasSource'
    <2> DEFINE at == page.completed + 1
    <2>1. executor' = [phase |-> "asked", plan |-> page.plan, results |-> page.results,
                       pair |-> page.pair, at |-> at, all |-> all, result |-> NoName]
      BY <1>8 DEF BeginSteps
    <2>2. /\ page.plan \in Seq(PlanStep) /\ page.results \in Results /\ page.pair \in Pairs
          /\ page.completed \in Nat
      BY <1>1 DEF PageState
    <2>3. at \in Nat /\ at \in 1..Len(page.plan)
      BY <1>8, <2>2 DEF BeginSteps, CanBegin
    <2> HIDE DEF at
    <2>4. executor' \in ExecutorState /\ executor'.phase # "checked"
      BY <2>1, <2>2, <2>3 DEF ExecutorState
    <2> QED
      BY <2>4 DEF HasSource
  <1>9. StepRefused \/ AnswerIsLost => executor' = Idle
    BY DEF StepRefused, AnswerIsLost
  <1> QED
    BY <1>2, <1>3, <1>4, <1>5, <1>6, <1>7, <1>8, <1>9, Writers DEF ExecutorStep

\* A file renamed: the others stay.
LEMMA RenamedFiles ==
    ASSUME NEW pair \in Pairs, disk \in [Pairs -> DirectoryPair], NEW files \in Files
    PROVE  [disk EXCEPT ![pair].left = files] \in [Pairs -> DirectoryPair]
  BY DEF DirectoryPair

LEMMA DiskStays ==
    ASSUME Typed, [Next]_vars
    PROVE  disk' \in [Pairs -> DirectoryPair]
  <1>1. disk \in [Pairs -> DirectoryPair]
    BY DEF Typed
  <1>2. CASE UNCHANGED disk
    BY <1>1, <1>2
  <1>3. CASE DoRename
    <2>1. executor \in ExecutorState /\ executor.phase = "checked" /\ SourceName \in AllNames
      BY <1>3 DEF DoRename, Typed, Idle, HasSource
    <2>2. executor.pair \in Pairs
      BY <2>1 DEF ExecutorState
    <2> DEFINE left == disk[executor.pair].left
               files == [left EXCEPT ![SourceName] = 0, ![executor.result] = left[SourceName]]
    <2>3. left \in Files
      BY <1>1, <2>2 DEF DirectoryPair
    <2>4. disk' = disk \/ disk' = [disk EXCEPT ![executor.pair].left = files]
      BY <1>1, <1>3, <2>2 DEF DoRename, DirectoryPair
    <2> HIDE DEF left
    <2>5. files \in Files
      BY <2>1, <2>3 DEF Files
    <2> HIDE DEF files
    <2> QED
      BY <1>1, <2>2, <2>4, <2>5, RenamedFiles
  <1>4. ASSUME NEW pair \in Pairs, NEW name \in MayCreate, NEW content \in Contents \cup { 0 },
               Meddle(pair, name, content)
        PROVE  disk' \in [Pairs -> DirectoryPair]
    <2> DEFINE left == disk[pair].left
               files == [left EXCEPT ![name] = content]
    <2>1. left \in Files
      BY <1>1 DEF DirectoryPair
    <2>2. disk' = [disk EXCEPT ![pair].left = files]
      BY <1>1, <1>4 DEF Meddle, DirectoryPair
    <2> HIDE DEF left
    <2>3. files \in Files
      BY <2>1 DEF Files
    <2> HIDE DEF files
    <2> QED
      BY <1>1, <2>2, <2>3, RenamedFiles
  <1> QED
    BY <1>2, <1>3, <1>4, Writers

LEMMA TypedStays == Typed /\ [Next]_vars => Typed'
  <1> SUFFICES ASSUME Typed, [Next]_vars PROVE Typed'
    OBVIOUS
  <1>1. faults' \in Nat
    <2>1. faults \in Nat
      BY DEF Typed
    <2>2. ASSUME NEW side \in Sides, HashNext(side) PROVE faults' \in Nat
      BY <2>2, HashNextFacts
    <2> QED
      BY <2>1, <2>2, Writers
  <1> QED
    BY <1>1, SearchStays, LoopsStay, PageStays, ExecutorStays, DiskStays DEF Typed

LEMMA TypedAtFirst == Init => Typed
  <1> SUFFICES ASSUME Init PROVE Typed
    OBVIOUS
  <1>1. PICK begin \in Initial :
            /\ disk = begin.disk /\ faults = begin.faults
            /\ search = NoSearch(begin.pair)
            /\ page = [pair |-> begin.pair, open |-> FALSE, searching |-> FALSE, plan |-> << >>,
                       planOf |-> begin.pair, results |-> NoResults, completed |-> 0]
    BY DEF Init
  <1>2. disk \in [Pairs -> DirectoryPair] /\ begin.pair \in Pairs /\ faults \in Nat
    BY <1>1, BeginningsAreTyped
  <1>3. search \in SearchState
    BY <1>1, <1>2, NoSearchType
  <1>4. page \in PageState
    <2>1. << >> \in Seq(PlanStep) /\ NoResults \in Results
      BY ResultsTypes
    <2> HIDE DEF NoResults
    <2> QED
      BY <1>1, <1>2, <2>1 DEF PageState
  <1>5. loops \in [Loops -> LoopState] /\ executor = Idle /\ leftovers \in 0..MaxLeftovers
    BY NamesAreNumbers DEF Init, LoopState
  <1>6. HasSource
    BY <1>5 DEF HasSource, Idle
  <1> QED
    BY <1>2, <1>3, <1>4, <1>5, <1>6 DEF Typed

LEMMA TypedIsTypeOK == Typed => TypeOK
  <1> SUFFICES ASSUME Typed PROVE TypeOK
    OBVIOUS
  <1>1. \A pair \in Pairs : \A side \in Sides :
           disk[pair][side] \in [AllNames -> Contents \cup { 0 }]
    <2> TAKE pair \in Pairs
    <2> TAKE side \in Sides
    <2>1. disk[pair] \in DirectoryPair
      BY DEF Typed
    <2> QED
      BY <2>1 DEF DirectoryPair, Files, Sides
  <1>2. search.hashed \in Nat /\ leftovers \in 0..MaxLeftovers
    BY DEF Typed, SearchState
  <1>3. page.completed \in Nat
    BY DEF Typed, PageState
  <1>4. executor.phase \in { "none", "asked", "checked", "renamed", "refetch", "refused" }
    BY DEF Typed, ExecutorState, Idle
  <1>5. \A loop \in Loops :
           loops[loop].phase \in { "none", "posted", "started", "asleep", "asking", "answered" }
    <2> TAKE loop \in Loops
    <2>1. loops[loop] \in LoopState
      BY DEF Typed
    <2> QED
      BY <2>1 DEF LoopState, Idle
  <1> QED
    BY <1>1, <1>2, <1>3, <1>4, <1>5 DEF TypeOK

-----------------------------------------------------------------------------
\* The state has its type: in particular every step of a plan that is begun is a
\* step of that plan, with a name of its own or one a step before it was given.
THEOREM TypeCorrect == Spec => []TypeOK
  BY TypedAtFirst, TypedStays, TypedIsTypeOK, PTL DEF Spec

-----------------------------------------------------------------------------
(* The matches *)

\* The match of a content is the one of the names hashed so far.
MatchesFollow ==
    \A content \in Contents :
        search.matches[content] = IF \A side \in Sides : search.sums[side][content] # {}
                                    THEN BestMatch(search.sums, content) ELSE NoMatch

LEMMA FollowStays == Typed /\ MatchesFollow /\ [Next]_vars => MatchesFollow'
  <1> SUFFICES ASSUME Typed, MatchesFollow, [Next]_vars PROVE MatchesFollow'
    OBVIOUS
  <1>1. search \in SearchState
    BY DEF Typed
  <1>2. ASSUME search'.sums = search.sums, search'.matches = search.matches
        PROVE  MatchesFollow'
    BY <1>2 DEF MatchesFollow, BestMatch
  <1>3. CASE UNCHANGED << search, leftovers >>
    BY <1>2, <1>3
  <1>4. CASE SearchEnds
    <2> DEFINE plan == BuildRenamePlan(Renames(search.matches), search.existing)
    <2>1. search' = [search EXCEPT !.running = FALSE, !.plan = plan]
      BY <1>4 DEF SearchEnds
    <2> HIDE DEF plan
    <2> QED
      BY <1>1, <1>2, <2>1 DEF SearchState
  <1>5. CASE AbortedReadEnds
    <2>1. search' \in { search, [search EXCEPT !.hashed = @ + 1] }
      BY <1>5 DEF AbortedReadEnds
    <2> QED
      BY <1>1, <1>2, <2>1 DEF SearchState
  <1>6. ASSUME NEW loop \in Loops, StartRequest(loop) PROVE MatchesFollow'
    <2> DEFINE pair == loops[loop].pair
               candidates == Candidates(pair)
    <2>1. search' = [NoSearch(pair) EXCEPT
                        !.running = TRUE, !.todo = candidates,
                        !.existing = ExistingLeft(pair),
                        !.total = Cardinality(candidates.left) + Cardinality(candidates.right)]
      BY <1>6 DEF StartRequest, StartSearch
    <2> HIDE DEF pair, candidates
    <2>2. search'.sums = NoSums /\ search'.matches = [content \in Contents |-> NoMatch]
      BY <2>1 DEF NoSearch
    <2>3. "left" \in Sides
      BY DEF Sides
    <2> QED
      BY <2>2, <2>3 DEF MatchesFollow, NoSums
  <1>7. ASSUME NEW side \in Sides, HashNext(side) PROVE MatchesFollow'
    <2> DEFINE name == Earliest(search.todo[side])
               content == disk[search.of][side][name]
               Counted(found) == [found EXCEPT !.todo[side] = @ \ { name }, !.hashed = @ + 1]
               recorded == RecordHashedName(side, name, content)
    <2>1. /\ name \in AllNames
          /\ \/ content \in Contents /\ search' = Counted(recorded)
             \/ search' = Counted(search)
      BY <1>7, HashNextFacts
    <2>2. \A found \in SearchState :
             Counted(found).sums = found.sums /\ Counted(found).matches = found.matches
      BY CountedType
    <2>3. CASE search' = Counted(search)
      <3>1. Counted(search).sums = search.sums /\ Counted(search).matches = search.matches
        BY <1>1, <2>2
      <3> QED
        BY <1>2, <2>3, <3>1
    <2>4. CASE content \in Contents /\ search' = Counted(recorded)
      <3>0. content \in Contents /\ name \in AllNames
        BY <2>1, <2>4
      <3> HIDE DEF name, content
      <3>1. /\ recorded \in SearchState
            /\ \A other \in Contents \ { content } :
                  /\ \A s \in Sides : recorded.sums[s][other] = search.sums[s][other]
                  /\ recorded.matches[other] = search.matches[other]
            /\ recorded.matches[content] =
                  IF \A s \in Sides : recorded.sums[s][content] # {}
                    THEN BestMatch(recorded.sums, content) ELSE search.matches[content]
            /\ \A s \in Sides : recorded.sums[s][content] = {} => search.sums[s][content] = {}
        BY <1>1, <3>0, RecordedSums
      <3> HIDE DEF recorded
      <3>2. search'.sums = recorded.sums /\ search'.matches = recorded.matches
        <4>1. Counted(recorded).sums = recorded.sums /\ Counted(recorded).matches = recorded.matches
          BY <2>2, <3>1
        <4> QED
          BY <2>4, <4>1
      <3> HIDE DEF Counted
      <3> SUFFICES ASSUME NEW c \in Contents
                   PROVE  recorded.matches[c] =
                            IF \A s \in Sides : recorded.sums[s][c] # {}
                              THEN BestMatch(recorded.sums, c) ELSE NoMatch
        <4>1. MatchesFollow' = \A c \in Contents :
                 search'.matches[c] = IF \A s \in Sides : search'.sums[s][c] # {}
                                        THEN BestMatch(search'.sums, c) ELSE NoMatch
          BY DEF MatchesFollow, BestMatch
        <4> QED
          BY <3>2, <4>1
      <3>3. search.matches[c] = IF \A s \in Sides : search.sums[s][c] # {}
                                  THEN BestMatch(search.sums, c) ELSE NoMatch
        BY DEF MatchesFollow
      <3>4. CASE c # content
        <4>1. "left" \in Sides /\ "right" \in Sides
          BY DEF Sides
        <4>2. BestMatch(recorded.sums, c) = BestMatch(search.sums, c)
          BY <3>1, <3>4, <4>1 DEF BestMatch
        <4> QED
          BY <3>1, <3>3, <3>4, <4>2
      <3>5. CASE c = content
        BY <3>1, <3>3, <3>5
      <3> QED
        BY <3>4, <3>5
    <2> QED
      BY <2>1, <2>3, <2>4
  <1> QED
    BY <1>3, <1>4, <1>5, <1>6, <1>7, Writers

LEMMA FollowAtFirst == Init => MatchesFollow
  <1> SUFFICES ASSUME Init PROVE MatchesFollow
    OBVIOUS
  <1>1. PICK begin \in Initial : search = NoSearch(begin.pair)
    BY DEF Init
  <1>2. search.sums = NoSums /\ search.matches = [content \in Contents |-> NoMatch]
    BY <1>1 DEF NoSearch
  <1>3. "left" \in Sides
    BY DEF Sides
  <1> QED
    BY <1>2, <1>3 DEF MatchesFollow, NoSums

LEMMA FollowIsBest == Typed /\ MatchesFollow => MatchesAreBest
  <1> SUFFICES ASSUME Typed, MatchesFollow, NEW content \in Contents
               PROVE  LET sums == [side \in Sides |-> search.sums[side][content]]
                          named == { match \in sums.left \X sums.right :
                                        /\ match[1] # match[2]
                                        /\ \A other \in sums.left : match[1] <= other
                                        /\ \A other \in sums.right : match[2] <= other }
                      IN  search.matches[content] =
                            (IF named = {} THEN NoMatch ELSE CHOOSE m \in named : TRUE)
    BY DEF MatchesAreBest
  <1> DEFINE sums == [side \in Sides |-> search.sums[side][content]]
             lefts == search.sums.left[content]
             rights == search.sums.right[content]
             named == { match \in sums.left \X sums.right :
                            /\ match[1] # match[2]
                            /\ \A other \in sums.left : match[1] <= other
                            /\ \A other \in sums.right : match[2] <= other }
  <1>1. sums.left = lefts /\ sums.right = rights
    BY DEF Sides
  <1>2. search.sums \in [Sides -> [Contents -> SUBSET AllNames]]
    BY DEF Typed, SearchState
  <1>3. lefts \in SUBSET AllNames /\ rights \in SUBSET AllNames
    BY <1>2 DEF Sides
  <1>4. lefts \in SUBSET Nat /\ rights \in SUBSET Nat
    BY <1>3, NumberedNames
  <1>5. search.matches[content] = IF lefts # {} /\ rights # {}
                                    THEN BestMatch(search.sums, content) ELSE NoMatch
    BY DEF MatchesFollow, Sides
  <1>6. BestMatch(search.sums, content) =
          IF Earliest(lefts) = Earliest(rights) THEN NoMatch
          ELSE << Earliest(lefts), Earliest(rights) >>
    BY DEF BestMatch
  <1> HIDE DEF sums, lefts, rights
  <1> DEFINE Claim == search.matches[content] =
                        (IF named = {} THEN NoMatch ELSE CHOOSE m \in named : TRUE)
  <1> SUFFICES Claim
    BY DEF sums
  <1>7. CASE lefts = {} \/ rights = {}
    <2>1. named = {}
      BY <1>1, <1>7
    <2>2. search.matches[content] = NoMatch
      BY <1>5, <1>7
    <2> HIDE DEF named
    <2> QED
      BY <2>1, <2>2
  <1>8. CASE lefts # {} /\ rights # {}
    <2> DEFINE l == Earliest(lefts)
               r == Earliest(rights)
    <2>1. /\ l \in lefts /\ \A m \in lefts : l <= m
          /\ \A n \in lefts : (\A m \in lefts : n <= m) => n = l
      BY <1>4, <1>8, EarliestIsLeast
    <2>2. /\ r \in rights /\ \A m \in rights : r <= m
          /\ \A n \in rights : (\A m \in rights : n <= m) => n = r
      BY <1>4, <1>8, EarliestIsLeast
    <2> HIDE DEF l, r
    <2>3. named = IF l = r THEN {} ELSE { << l, r >> }
      <3>1. \A match \in named : match = << l, r >> /\ l # r
        BY <1>1, <2>1, <2>2
      <3>2. l # r => << l, r >> \in named
        BY <1>1, <2>1, <2>2
      <3> QED
        BY <3>1, <3>2
    <2>4. search.matches[content] = IF l = r THEN NoMatch ELSE << l, r >>
      BY <1>5, <1>6, <1>8 DEF l, r
    <2> HIDE DEF named
    <2>5. CASE l = r
      BY <2>3, <2>4, <2>5
    <2>6. CASE l # r
      <3>1. (CHOOSE m \in named : TRUE) = << l, r >>
        BY <2>3, <2>6
      <3>2. named # {}
        BY <2>3, <2>6
      <3> QED
        BY <2>4, <2>6, <3>1, <3>2
    <2> QED
      BY <2>5, <2>6
  <1> QED
    BY <1>7, <1>8

\* The match of a content is the one of the least names of all files hashed so far,
\* in whatever order the two streams came to them (checksum-match-worker.ts).
THEOREM MatchesAreBestHolds == Spec => []MatchesAreBest
  <1>1. Init => Typed /\ MatchesFollow
    BY TypedAtFirst, FollowAtFirst
  <1>2. Typed /\ MatchesFollow /\ [Next]_vars => Typed' /\ MatchesFollow'
    BY TypedStays, FollowStays
  <1> QED
    BY <1>1, <1>2, FollowIsBest, PTL DEF Spec

-----------------------------------------------------------------------------
(* No step of the program loses a file *)

\* The rename whose checks have passed has its source, and nothing is in its way.
CheckedIsSo ==
    executor.phase = "checked" => Has(executor.pair, "left", SourceName) /\ IsFree(executor.result)

LEMMA CheckedStays ==
    ASSUME Races = FALSE
    PROVE  Typed /\ CheckedIsSo /\ [Next]_vars => CheckedIsSo'
  <1> SUFFICES ASSUME Typed, CheckedIsSo, [Next]_vars PROVE CheckedIsSo'
    OBVIOUS
  <1>i. Idle.phase = "none" /\ executor \in { Idle } \cup ExecutorState
    BY DEF Idle, Typed
  <1>0. ASSUME executor' = Idle \/ executor'.phase # "checked" PROVE CheckedIsSo'
    BY <1>0, <1>i DEF CheckedIsSo
  <1>1. CASE UNCHANGED executor
    <2>1. CASE UNCHANGED disk
      BY <1>1, <2>1 DEF CheckedIsSo, Has, IsFree, SourceName, Step
    <2>2. CASE DoRename
      <3>1. executor \in ExecutorState /\ executor.phase = "checked"
        BY <1>i, <2>2 DEF DoRename
      <3>2. executor'.phase # "checked"
        BY <2>2, <3>1 DEF DoRename, ExecutorState
      <3> QED
        BY <1>0, <3>2
    <2>3. ASSUME NEW pair \in Pairs, NEW name \in MayCreate, NEW content \in Contents \cup { 0 },
                 Meddle(pair, name, content)
          PROVE  CheckedIsSo'
      <3>1. executor'.phase # "checked"
        BY <1>1, <2>3 DEF Meddle
      <3> QED
        BY <1>0, <3>1
    <2> QED
      BY <2>1, <2>2, <2>3, Writers
  <1>2. CASE CheckRename
    <2>1. executor \in ExecutorState /\ disk' = disk
      BY <1>i, <1>2 DEF CheckRename
    <2> DEFINE next == IF Has(executor.pair, "left", SourceName) /\ IsFree(DestinationName)
                         THEN "checked" ELSE "refused"
    <2>2. executor' = [executor EXCEPT !.result = DestinationName, !.phase = next]
      BY <1>2 DEF CheckRename
    <2>3. next = "checked" =>
             Has(executor.pair, "left", SourceName) /\ IsFree(DestinationName)
      OBVIOUS
    <2> HIDE DEF next
    <2>4. /\ executor'.phase = next /\ executor'.plan = executor.plan /\ executor'.pair = executor.pair
          /\ executor'.at = executor.at /\ executor'.results = executor.results
          /\ executor'.result = DestinationName
      BY <2>1, <2>2 DEF ExecutorState
    <2>5. SourceName' = SourceName
      BY <2>4, SourceStays
    <2> QED
      BY <2>1, <2>3, <2>4, <2>5 DEF CheckedIsSo, Has, IsFree
  <1>3. CASE DoRename \/ StepAnswered \/ StepEnds
    <2>1. executor \in ExecutorState
      BY <1>i, <1>3 DEF DoRename, StepAnswered, StepEnds
    <2>2. CASE DoRename
      BY <1>0, <2>1, <2>2 DEF DoRename, ExecutorState
    <2>3. CASE StepAnswered
      BY <1>0, <2>1, <2>3 DEF StepAnswered, ExecutorState
    <2>4. CASE StepEnds
      BY <1>0, <2>1, <2>4 DEF StepEnds, ExecutorState
    <2> QED
      BY <1>3, <2>2, <2>3, <2>4
  <1>4. CASE StepRefused \/ AnswerIsLost
    BY <1>0, <1>4 DEF StepRefused, AnswerIsLost
  <1>5. ASSUME NEW all \in BOOLEAN, BeginSteps(all) PROVE CheckedIsSo'
    <2>1. executor'.phase = "asked"
      BY <1>5 DEF BeginSteps
    <2> QED
      BY <1>0, <2>1
  <1> QED
    BY <1>1, <1>2, <1>3, <1>4, <1>5, Writers DEF ExecutorStep

\* A file moved to a free name leaves as many files of each content as there were.
LEMMA MovedFiles ==
    ASSUME NEW left \in Files, NEW source \in AllNames, NEW free \in AllNames,
           left[source] # 0, left[free] = 0, NEW content \in Contents
    PROVE  LET moved == [left EXCEPT ![source] = 0, ![free] = left[source]]
           IN  Cardinality({ name \in AllNames : left[name] = content })
                 = Cardinality({ name \in AllNames : moved[name] = content })
  <1> DEFINE moved == [left EXCEPT ![source] = 0, ![free] = left[source]]
             before == { name \in AllNames : left[name] = content }
             after == { name \in AllNames : moved[name] = content }
  <1>1. source # free /\ content # 0
    BY NamesAreNumbers
  <1>2. /\ moved[free] = left[source] /\ moved[source] = 0
        /\ \A name \in AllNames \ { source, free } : moved[name] = left[name]
    BY <1>1 DEF Files
  <1>3. IsFiniteSet(before) /\ before \subseteq AllNames
    BY NumberedNames, FS_Subset
  <1> HIDE DEF moved
  <1>4. CASE left[source] # content
    <2>1. before = after
      BY <1>1, <1>2, <1>4
    <2> QED
      BY <2>1 DEF moved
  <1>5. CASE left[source] = content
    <2>1. source \in before /\ free \notin before /\ after = (before \ { source }) \cup { free }
      BY <1>1, <1>2, <1>5
    <2> HIDE DEF before, after
    <2>2. /\ IsFiniteSet(before \ { source }) /\ Cardinality(before) \in Nat
          /\ Cardinality(before \ { source }) = Cardinality(before) - 1
      BY <1>3, <2>1, FS_RemoveElement, FS_CardinalityType
    <2>3. Cardinality(after) = Cardinality(before \ { source }) + 1
      BY <2>1, <2>2, FS_AddElement
    <2> QED
      BY <2>2, <2>3 DEF before, after, moved
  <1> QED
    BY <1>4, <1>5

LEMMA NoStepLosesAFile ==
    ASSUME Typed, CheckedIsSo, [Next]_vars, faults' = faults,
           NEW pair \in Pairs, NEW content \in Contents
    PROVE  Cardinality({ name \in AllNames : disk[pair].left[name] = content })
             = Cardinality({ name \in AllNames : disk'[pair].left[name] = content })
  <1>1. CASE UNCHANGED disk
    BY <1>1
  <1>2. CASE DoRename
    <2>1. /\ executor \in ExecutorState /\ executor.phase = "checked" /\ SourceName \in AllNames
          /\ disk \in [Pairs -> DirectoryPair]
      BY <1>2 DEF DoRename, Typed, Idle, HasSource
    <2>2. executor.pair \in Pairs /\ executor.result \in AllNames
      BY <2>1 DEF ExecutorState
    <2> DEFINE left == disk[executor.pair].left
               files == [left EXCEPT ![SourceName] = 0, ![executor.result] = left[SourceName]]
    <2>3. left \in Files
      BY <2>1, <2>2 DEF DirectoryPair
    <2>4. left[SourceName] # 0 /\ left[executor.result] = 0
      BY <2>1, <2>2, NumberedNames DEF CheckedIsSo, Has, IsFree
    <2>5. disk' = [disk EXCEPT ![executor.pair].left = files]
      BY <1>2, <2>1, <2>2, <2>4 DEF DoRename, DirectoryPair
    <2>6. \/ pair = executor.pair /\ disk'[pair].left = files
          \/ disk'[pair] = disk[pair]
      <3> HIDE DEF files
      <3> QED
        BY <2>1, <2>2, <2>5 DEF DirectoryPair
    <2>7. Cardinality({ name \in AllNames : left[name] = content })
            = Cardinality({ name \in AllNames : files[name] = content })
      <3> HIDE DEF left
      <3> QED
        BY <2>1, <2>2, <2>3, <2>4, MovedFiles
    <2> QED
      BY <2>6, <2>7
  <1>3. ASSUME NEW p \in Pairs, NEW name \in MayCreate, NEW c \in Contents \cup { 0 },
               Meddle(p, name, c)
        PROVE  FALSE
    BY <1>3 DEF Meddle, AFault, Typed
  <1> QED
    BY <1>1, <1>2, <1>3, Writers

\* No rename and no backup loses a file or a content (rename-adapter.ts,
\* backup-entry.ts), as long as no other program writes between the checks and the
\* rename: rename(2) replaces what came into its way meanwhile.
THEOREM NothingIsLostHolds ==
    ASSUME Races = FALSE
    PROVE  Spec => NothingIsLost
  <1>1. Init => Typed /\ CheckedIsSo
    <2> SUFFICES ASSUME Init PROVE CheckedIsSo
      BY TypedAtFirst
    <2>1. executor.phase = "none"
      BY DEF Init, Idle
    <2> QED
      BY <2>1 DEF CheckedIsSo
  <1>2. Typed /\ CheckedIsSo /\ [Next]_vars => Typed' /\ CheckedIsSo'
    BY TypedStays, CheckedStays
  <1>3. Typed /\ CheckedIsSo /\ [Next]_vars =>
           [ faults' = faults =>
                \A pair \in Pairs : \A content \in Contents :
                    Cardinality({ name \in AllNames : disk[pair].left[name] = content })
                      = Cardinality({ name \in AllNames : disk'[pair].left[name] = content }) ]_vars
    BY NoStepLosesAFile
  <1> QED
    BY <1>1, <1>2, <1>3, PTL DEF Spec, NothingIsLost

-----------------------------------------------------------------------------
(* The trails of one-to-one renames *)

\* No two files are renamed alike.
OneToOne(renames) ==
    Renaming(renames) /\ \A a, b \in DOMAIN renames : renames[a] = renames[b] => a = b

\* The names a trail goes through.
Met(renames, head) == { Trail(renames, head)[i] : i \in 1..Len(Trail(renames, head)) }

IsHead(renames, head) == head \in PureSources(renames) \cup CycleHeads(renames)

\* A sequence of names each of which is renamed to the next, and no further.
IsTrail(renames, head, t) ==
    /\ t \in Seq(AllNames) /\ Len(t) > 0 /\ t[1] = head
    /\ \A i \in 1..(Len(t) - 1) : t[i] \in DOMAIN renames /\ t[i + 1] = renames[t[i]]
    /\ \A i, j \in 1..Len(t) : t[i] = t[j] => i = j
    /\ t[Len(t)] \in DOMAIN renames => \E i \in 1..Len(t) : renames[t[Len(t)]] = t[i]

LEMMA TrailIsTrail ==
    ASSUME NEW renames, Renaming(renames), NEW head \in DOMAIN renames
    PROVE  IsTrail(renames, head, Trail(renames, head))
  BY TrailFacts DEF IsTrail

\* A set that no rename leaves.
Onward(renames, names) == \A name \in names \cap DOMAIN renames : renames[name] \in names

\* A trail begins at its head and stays within a set that no rename leaves.
LEMMA TrailStaysWithin ==
    ASSUME NEW renames, Renaming(renames), NEW head \in DOMAIN renames,
           NEW names, Onward(renames, names), head \in names
    PROVE  Met(renames, head) \subseteq names
  <1> DEFINE t == Trail(renames, head)
             bad == { i \in 1..Len(t) : t[i] \notin names }
  <1>1. /\ t \in Seq(AllNames) /\ Len(t) > 0 /\ t[1] = head
        /\ \A i \in 1..(Len(t) - 1) : t[i] \in DOMAIN renames /\ t[i + 1] = renames[t[i]]
    BY TrailFacts
  <1> HIDE DEF t
  <1>2. ASSUME bad # {} PROVE FALSE
    <2>1. PICK i \in bad : \A other \in bad : i <= other
      <3>1. bad \in SUBSET Nat
        OBVIOUS
      <3> HIDE DEF bad
      <3> QED
        BY <1>2, <3>1, LeastNatural
    <2>2. i \in 1..Len(t) /\ i # 1
      BY <1>1, <2>1
    <2>3. i - 1 \in 1..(Len(t) - 1) /\ i - 1 \in 1..Len(t) /\ (i - 1) + 1 = i
      BY <1>1, <2>2
    <2>4. i - 1 \notin bad
      <3>1. ~(i <= i - 1)
        BY <2>2
      <3> HIDE DEF bad
      <3> QED
        BY <2>1, <3>1
    <2>5. t[i - 1] \in names
      BY <2>3, <2>4
    <2>6. t[i] = renames[t[i - 1]] /\ t[i - 1] \in DOMAIN renames
      BY <1>1, <2>3
    <2>7. t[i] \in names
      BY <2>5, <2>6 DEF Onward
    <2> QED
      BY <2>1, <2>7
  <1> QED
    BY <1>2 DEF Met, t

\* A set that whatever was renamed into comes from within holds, with a name of a
\* trail, the trail's head.
LEMMA HeadIsWithin ==
    ASSUME NEW renames, Renaming(renames), NEW head \in DOMAIN renames, NEW names,
           \A name \in DOMAIN renames : renames[name] \in names => name \in names,
           NEW met \in Met(renames, head), met \in names
    PROVE  head \in names
  <1> DEFINE t == Trail(renames, head)
             good == { i \in 1..Len(t) : t[i] \in names }
  <1>0. IsTrail(renames, head, t)
    BY TrailIsTrail
  <1>2. good # {}
    BY DEF Met
  <1> HIDE DEF t
  <1>1. /\ t \in Seq(AllNames) /\ Len(t) > 0 /\ t[1] = head
        /\ \A i \in 1..(Len(t) - 1) : t[i] \in DOMAIN renames /\ t[i + 1] = renames[t[i]]
    BY <1>0 DEF IsTrail
  <1>3. PICK i \in good : \A other \in good : i <= other
    <2>1. good \in SUBSET Nat
      OBVIOUS
    <2> HIDE DEF good
    <2> QED
      BY <1>2, <2>1, LeastNatural
  <1>4. CASE i = 1
    BY <1>1, <1>3, <1>4
  <1>5. CASE i # 1
    <2>1. i \in 1..Len(t) /\ t[i] \in names
      BY <1>3
    <2>2. i - 1 \in 1..(Len(t) - 1) /\ i - 1 \in 1..Len(t) /\ (i - 1) + 1 = i
      BY <1>1, <1>5, <2>1
    <2>3. t[i - 1] \in names
      BY <1>1, <2>1, <2>2
    <2>4. i - 1 \in good /\ ~(i <= i - 1)
      BY <2>1, <2>2, <2>3
    <2> HIDE DEF good
    <2> QED
      BY <1>3, <2>4
  <1> QED
    BY <1>4, <1>5

\* Where a trail of one-to-one renames ends: at a name that is not renamed, or back
\* at its head.
LEMMA TrailEnds ==
    ASSUME NEW renames, OneToOne(renames), NEW head \in DOMAIN renames
    PROVE  LET t == Trail(renames, head)
           IN  t[Len(t)] \in DOMAIN renames => renames[t[Len(t)]] = head
  <1> DEFINE t == Trail(renames, head)
             n == Len(t)
  <1>1. /\ t \in Seq(AllNames) /\ n > 0 /\ t[1] = head
        /\ \A i \in 1..(n - 1) : t[i] \in DOMAIN renames /\ t[i + 1] = renames[t[i]]
        /\ \A i, j \in 1..n : t[i] = t[j] => i = j
        /\ t[n] \in DOMAIN renames => \E i \in 1..n : renames[t[n]] = t[i]
    BY TrailFacts DEF OneToOne
  <1> HIDE DEF t
  <1> SUFFICES ASSUME t[n] \in DOMAIN renames PROVE renames[t[n]] = head
    BY DEF t
  <1>2. PICK i \in 1..n : renames[t[n]] = t[i]
    BY <1>1
  <1>3. CASE i = 1
    BY <1>1, <1>2, <1>3
  <1>4. CASE i # 1
    <2>1. n \in Nat /\ i - 1 \in 1..(n - 1) /\ (i - 1) + 1 = i
      BY <1>1, <1>4
    <2>2. t[i - 1] \in DOMAIN renames /\ renames[t[i - 1]] = renames[t[n]]
      BY <1>1, <1>2, <2>1
    <2>3. t[i - 1] = t[n]
      BY <2>2 DEF OneToOne
    <2>4. i - 1 = n
      BY <1>1, <2>1, <2>3
    <2> QED
      BY <2>1, <2>4
  <1> QED
    BY <1>3, <1>4

\* A trail that is closed at its end, or whose head nothing is renamed to, is left
\* and entered by no rename.
Closed(renames, names) ==
    \A name \in DOMAIN renames : name \in names <=> renames[name] \in names

LEMMA TrailIsClosed ==
    ASSUME NEW renames, OneToOne(renames), NEW head \in DOMAIN renames,
           LET t == Trail(renames, head)
           IN  \/ head \in PureSources(renames)
               \/ t[Len(t)] \in DOMAIN renames
    PROVE  /\ Closed(renames, Met(renames, head)) /\ head \in Met(renames, head)
           /\ Met(renames, head) \subseteq AllNames
           /\ LET t == Trail(renames, head)
              IN  head \in PureSources(renames) => t[Len(t)] \notin DOMAIN renames
  <1> DEFINE t == Trail(renames, head)
             n == Len(t)
  <1>1. /\ t \in Seq(AllNames) /\ n > 0 /\ t[1] = head
        /\ \A i \in 1..(n - 1) : t[i] \in DOMAIN renames /\ t[i + 1] = renames[t[i]]
    BY TrailFacts DEF OneToOne
  <1>2. t[n] \in DOMAIN renames => renames[t[n]] = head
    BY TrailEnds
  <1>3. Met(renames, head) = { t[i] : i \in 1..n }
    BY DEF Met
  <1>i. head \in PureSources(renames) \/ t[n] \in DOMAIN renames
    OBVIOUS
  <1> HIDE DEF t
  <1>4. head \in PureSources(renames) => t[n] \notin DOMAIN renames
    BY <1>2 DEF PureSources, Range
  <1>5. n \in Nat /\ 1 \in 1..n /\ n \in 1..n
    BY <1>1
  <1>6. ASSUME NEW i \in 1..n, t[i] \in DOMAIN renames PROVE \E j \in 1..n : renames[t[i]] = t[j]
    <2>1. CASE i = n
      BY <1>1, <1>2, <1>5, <1>6, <2>1
    <2>2. CASE i # n
      <3>1. i \in 1..(n - 1) /\ i + 1 \in 1..n
        BY <1>5, <2>2
      <3> QED
        BY <1>1, <3>1
    <2> QED
      BY <2>1, <2>2
  <1>7. ASSUME NEW name \in DOMAIN renames, NEW j \in 1..n, renames[name] = t[j]
        PROVE  \E i \in 1..n : name = t[i]
    <2>1. CASE j = 1
      <3>1. head \notin PureSources(renames)
        BY <1>1, <1>7, <2>1 DEF PureSources, Range
      <3>2. t[n] \in DOMAIN renames /\ renames[t[n]] = renames[name]
        BY <1>1, <1>2, <1>7, <1>i, <2>1, <3>1
      <3> QED
        BY <1>5, <3>2 DEF OneToOne
    <2>2. CASE j # 1
      <3>1. j - 1 \in 1..(n - 1) /\ j - 1 \in 1..n /\ (j - 1) + 1 = j
        BY <1>5, <2>2
      <3>2. t[j - 1] \in DOMAIN renames /\ renames[t[j - 1]] = renames[name]
        BY <1>1, <1>7, <3>1
      <3> QED
        BY <3>1, <3>2 DEF OneToOne
    <2> QED
      BY <2>1, <2>2
  <1>8. Closed(renames, { t[i] : i \in 1..n })
    BY <1>6, <1>7 DEF Closed
  <1> QED
    BY <1>1, <1>3, <1>4, <1>5, <1>8 DEF t

-----------------------------------------------------------------------------
(* What a plan does, whatever trails it is made of *)

\* Under which name a step finds its file if no step has been done.
Origin(plan, i) == IF plan[i].back = 0 THEN plan[i].from ELSE plan[i - plan[i].back].from

\* A step that goes back goes back to a backup, and to one of its own.
GoesBack(plan) ==
    /\ \A i \in 1..Len(plan) : plan[i].back # 0 =>
          /\ ~plan[i].isBackup /\ plan[i].back \in 1..(i - 1)
          /\ plan[i - plan[i].back].isBackup /\ plan[i - plan[i].back].back = 0
    /\ \A i, j \in 1..Len(plan) :
          plan[i].back # 0 /\ plan[j].back # 0 /\ i - plan[i].back = j - plan[j].back => i = j

\* No name is left twice, none is given twice.
NamedOnce(plan) ==
    /\ \A i, j \in 1..Len(plan) :
          plan[i].back = 0 /\ plan[j].back = 0 /\ plan[i].from = plan[j].from => i = j
    /\ \A i, j \in 1..Len(plan) :
          ~plan[i].isBackup /\ ~plan[j].isBackup /\ plan[i].to = plan[j].to => i = j

\* The name a step gives is free, or left by a step before it.
GivesWhatIsFree(plan, existing) ==
    \A i \in 1..Len(plan) : ~plan[i].isBackup =>
        \/ plan[i].to \notin existing
        \/ \E l \in 1..(i - 1) : plan[l].back = 0 /\ plan[l].from = plan[i].to

\* The steps are those of the renames of `names`, and backups of what there is.
CarriesOut(plan, renames, existing, names) ==
    /\ \A i \in 1..Len(plan) :
          /\ Origin(plan, i) \in names
          /\ IF plan[i].isBackup THEN Origin(plan, i) \in existing \cup DOMAIN renames
             ELSE /\ Origin(plan, i) \in DOMAIN renames /\ plan[i].to \in names
                  /\ plan[i].to = renames[Origin(plan, i)]
    /\ \A name \in names \cap DOMAIN renames :
          \E i \in 1..Len(plan) : ~plan[i].isBackup /\ Origin(plan, i) = name

Works(plan, renames, existing, names) ==
    /\ plan \in Seq(PlanStep)
    /\ GoesBack(plan) /\ NamedOnce(plan)
    /\ GivesWhatIsFree(plan, existing) /\ CarriesOut(plan, renames, existing, names)

\* The renames of a trail, from its end, after o steps.
HoldsTail(plan, o, t) ==
    \A i \in 1..(Len(t) - 1) : plan[o + i] = Rename(t[Len(t) - i], t[Len(t) - i + 1])

LEMMA ChainWorks ==
    ASSUME NEW renames, OneToOne(renames), NEW existing, NEW head \in PureSources(renames)
    PROVE  Works(ChainSteps(Trail(renames, head), existing), renames, existing, Met(renames, head))
  <1> DEFINE t == Trail(renames, head)
             n == Len(t)
             names == Met(renames, head)
             o == IF t[n] \in existing THEN 1 ELSE 0
             p == ChainSteps(t, existing)
  <1>0. head \in DOMAIN renames /\ Renaming(renames)
    BY DEF PureSources, OneToOne
  <1>1. IsTrail(renames, head, t)
    BY <1>0, TrailIsTrail
  <1>2. /\ t[n] \notin DOMAIN renames /\ names \subseteq AllNames
        /\ names = { t[i] : i \in 1..n }
    BY <1>0, TrailIsClosed DEF Met
  <1> HIDE DEF t, names
  <1>3. /\ t \in Seq(AllNames) /\ n \in Nat /\ n > 0 /\ t[1] = head
        /\ \A i \in 1..(n - 1) : t[i] \in DOMAIN renames /\ t[i + 1] = renames[t[i]]
        /\ \A i, j \in 1..n : t[i] = t[j] => i = j
    BY <1>1 DEF IsTrail
  <1>4. /\ TailFirst(t) \in Seq(PlanStep) /\ Len(TailFirst(t)) = n - 1
        /\ \A i \in 1..(n - 1) : TailFirst(t)[i] = Rename(t[n - i], t[n - i + 1])
    BY <1>3, TailFirstFacts
  <1>5. Backup(t[n]) \in PlanStep
    <2>1. t[n] \in AllNames
      BY <1>3
    <2> QED
      BY <2>1 DEF Backup, PlanStep
  <1>6. /\ p \in Seq(PlanStep) /\ Len(p) = o + n - 1
        /\ HoldsTail(p, o, t) /\ (o = 1 => p[1] = Backup(t[n]))
    <2>1. CASE t[n] \in existing
      <3>1. p = << Backup(t[n]) >> \o TailFirst(t) /\ o = 1
        BY <2>1 DEF ChainSteps
      <3> HIDE DEF p, o
      <3>2. p \in Seq(PlanStep) /\ Len(p) = n /\ p[1] = Backup(t[n])
        BY <1>3, <1>4, <1>5, <3>1
      <3>3. \A i \in 1..(n - 1) : p[1 + i] = TailFirst(t)[i]
        BY <1>3, <1>4, <1>5, <3>1
      <3> QED
        BY <1>3, <1>4, <3>1, <3>2, <3>3 DEF HoldsTail
    <2>2. CASE t[n] \notin existing
      <3>1. p = << >> \o TailFirst(t) /\ o = 0
        BY <2>2 DEF ChainSteps
      <3> HIDE DEF p, o
      <3>2. p = TailFirst(t)
        BY <1>4, <3>1
      <3>3. \A i \in 1..(n - 1) : o + i = i
        BY <3>1
      <3> QED
        BY <1>3, <1>4, <3>1, <3>2, <3>3 DEF HoldsTail
    <2> QED
      BY <2>1, <2>2
  <1>7. o \in 0..1 /\ (o = 0 => t[n] \notin existing) /\ (o = 1 => t[n] \in existing)
    OBVIOUS
  <1> HIDE DEF p, o
  \* Each step, with the place of its names on the trail.
  <1>8. ASSUME NEW i \in 1..Len(p)
        PROVE  /\ p[i].back = 0 /\ Origin(p, i) = p[i].from
               /\ p[i].from = t[n - (i - o)] /\ n - (i - o) \in 1..n
               /\ p[i].isBackup <=> i = o
               /\ i # o => /\ n - (i - o) \in 1..(n - 1) /\ i - o \in 1..(n - 1)
                           /\ p[i].to = t[n - (i - o) + 1]
    <2>1. CASE i = o
      <3>1. i = 1 /\ p[i] = Backup(t[n]) /\ n - (i - o) = n
        BY <1>3, <1>6, <1>7, <2>1
      <3> QED
        BY <1>3, <2>1, <3>1 DEF Backup, Origin
    <2>2. CASE i # o
      <3>1. i - o \in 1..(n - 1) /\ o + (i - o) = i
        BY <1>3, <1>6, <1>7, <2>2
      <3>2. p[i] = Rename(t[n - (i - o)], t[n - (i - o) + 1])
        BY <1>6, <3>1 DEF HoldsTail
      <3>3. n - (i - o) \in 1..(n - 1)
        BY <1>3, <3>1
      <3> QED
        BY <1>3, <2>2, <3>1, <3>2, <3>3 DEF Rename, Origin
    <2> QED
      BY <2>1, <2>2
  <1>9. GoesBack(p)
    BY <1>8 DEF GoesBack
  <1>10. NamedOnce(p)
    <2>1. ASSUME NEW i \in 1..Len(p), NEW j \in 1..Len(p), p[i].from = p[j].from PROVE i = j
      <3>1. n - (i - o) = n - (j - o)
        BY <1>3, <1>8, <2>1
      <3> QED
        BY <1>3, <1>6, <1>7, <3>1
    <2>2. ASSUME NEW i \in 1..Len(p), NEW j \in 1..Len(p), ~p[i].isBackup, ~p[j].isBackup,
                 p[i].to = p[j].to
          PROVE  i = j
      <3>1. i # o /\ j # o
        BY <1>8, <2>2
      <3>2. /\ n - (i - o) \in 1..(n - 1) /\ p[i].to = t[n - (i - o) + 1]
            /\ n - (j - o) \in 1..(n - 1) /\ p[j].to = t[n - (j - o) + 1]
        BY <1>8, <3>1
      <3>3. n - (i - o) + 1 \in 1..n /\ n - (j - o) + 1 \in 1..n
        BY <1>3, <3>2
      <3>4. n - (i - o) + 1 = n - (j - o) + 1
        BY <1>3, <2>2, <3>2, <3>3
      <3> QED
        BY <1>3, <1>6, <1>7, <3>4
    <2> QED
      BY <2>1, <2>2 DEF NamedOnce
  <1>11. ASSUME NEW i \in 1..Len(p), ~p[i].isBackup
         PROVE  \/ p[i].to \notin existing
                \/ \E l \in 1..(i - 1) : p[l].back = 0 /\ p[l].from = p[i].to
    <2>1. i # o /\ p[i].to = t[n - (i - o) + 1]
      BY <1>8, <1>11
    <2>2. CASE i - o = 1 /\ o = 0
      <3>1. n - (i - o) + 1 = n
        BY <1>3, <2>2
      <3> QED
        BY <1>7, <2>1, <2>2, <3>1
    <2>3. CASE i > 1
      <3>1. i - 1 \in 1..Len(p) /\ i - 1 \in 1..(i - 1) /\ n - ((i - 1) - o) = n - (i - o) + 1
        BY <1>3, <1>6, <1>7, <2>3
      <3>2. p[i - 1].back = 0 /\ p[i - 1].from = t[n - ((i - 1) - o)]
        BY <1>8, <3>1
      <3> QED
        BY <2>1, <3>1, <3>2
    <2> QED
      BY <1>3, <1>6, <1>7, <2>1, <2>2, <2>3
  <1>12. CarriesOut(p, renames, existing, names)
    <2>1. ASSUME NEW i \in 1..Len(p)
          PROVE  /\ Origin(p, i) \in names
                 /\ IF p[i].isBackup THEN Origin(p, i) \in existing \cup DOMAIN renames
                    ELSE /\ Origin(p, i) \in DOMAIN renames /\ p[i].to \in names
                         /\ p[i].to = renames[Origin(p, i)]
      <3>1. Origin(p, i) \in names
        <4>1. Origin(p, i) = t[n - (i - o)] /\ n - (i - o) \in 1..n
          BY <1>8
        <4> QED
          BY <1>2, <4>1
      <3>2. CASE p[i].isBackup
        <4>1. i = o /\ n - (i - o) = n
          BY <1>3, <1>7, <1>8, <3>2
        <4>2. o = 1
          BY <1>7, <4>1
        <4> QED
          BY <1>7, <1>8, <3>1, <3>2, <4>1, <4>2
      <3>3. CASE ~p[i].isBackup
        <4>1. /\ n - (i - o) \in 1..(n - 1) /\ p[i].to = t[n - (i - o) + 1]
              /\ Origin(p, i) = t[n - (i - o)]
          BY <1>8, <3>3
        <4>2. n - (i - o) + 1 \in 1..n
          BY <1>3, <4>1
        <4> QED
          BY <1>2, <1>3, <3>1, <3>3, <4>1, <4>2
      <3> QED
        BY <3>1, <3>2, <3>3
    <2>2. ASSUME NEW name \in names \cap DOMAIN renames
          PROVE  \E i \in 1..Len(p) : ~p[i].isBackup /\ Origin(p, i) = name
      <3>1. PICK k \in 1..n : name = t[k]
        BY <1>2
      <3>2. k \in 1..(n - 1)
        BY <1>2, <1>3, <2>2, <3>1
      <3>3. o + (n - k) \in 1..Len(p) /\ o + (n - k) # o /\ n - ((o + (n - k)) - o) = k
        BY <1>3, <1>6, <1>7, <3>2
      <3> QED
        BY <1>8, <3>1, <3>3
    <2> QED
      BY <2>1, <2>2 DEF CarriesOut
  <1> QED
    BY <1>6, <1>9, <1>10, <1>11, <1>12 DEF Works, GivesWhatIsFree, p, t, names

LEMMA CycleWorks ==
    ASSUME NEW renames, OneToOne(renames), NEW existing, NEW head \in CycleHeads(renames)
    PROVE  Works(CycleSteps(Trail(renames, head)), renames, existing, Met(renames, head))
  <1> DEFINE t == Trail(renames, head)
             n == Len(t)
             names == Met(renames, head)
             p == CycleSteps(t)
  <1>0. /\ head \in DOMAIN renames /\ Renaming(renames)
        /\ t[n] \in DOMAIN renames /\ renames[t[n]] = head
    BY DEF CycleHeads, OneToOne
  <1>1. IsTrail(renames, head, t)
    BY <1>0, TrailIsTrail
  <1>2. names \subseteq AllNames /\ names = { t[i] : i \in 1..n }
    BY <1>0, TrailIsClosed DEF Met
  <1> HIDE DEF t, names
  <1>3. /\ t \in Seq(AllNames) /\ n \in Nat /\ n > 0 /\ t[1] = head
        /\ \A i \in 1..(n - 1) : t[i] \in DOMAIN renames /\ t[i + 1] = renames[t[i]]
        /\ \A i, j \in 1..n : t[i] = t[j] => i = j
    BY <1>1 DEF IsTrail
  <1>4. /\ TailFirst(t) \in Seq(PlanStep) /\ Len(TailFirst(t)) = n - 1
        /\ \A i \in 1..(n - 1) : TailFirst(t)[i] = Rename(t[n - i], t[n - i + 1])
    BY <1>3, TailFirstFacts
  <1>5. Backup(t[n]) \in PlanStep /\ RenameBackup(n, t[1]) \in PlanStep
    <2>1. t[n] \in AllNames /\ t[1] \in AllNames
      BY <1>3
    <2> QED
      BY <1>3, <2>1, StepTypes
  <1>6. /\ p \in Seq(PlanStep) /\ Len(p) = n + 1
        /\ p[1] = Backup(t[n]) /\ HoldsTail(p, 1, t) /\ p[n + 1] = RenameBackup(n, t[1])
    <2>1. p = << Backup(t[n]) >> \o TailFirst(t) \o << RenameBackup(n, t[1]) >>
      BY DEF CycleSteps
    <2> HIDE DEF p
    <2>2. /\ p \in Seq(PlanStep) /\ Len(p) = n + 1
          /\ p[1] = Backup(t[n]) /\ p[n + 1] = RenameBackup(n, t[1])
      BY <1>3, <1>4, <1>5, <2>1
    <2>3. \A i \in 1..(n - 1) : p[1 + i] = TailFirst(t)[i]
      BY <1>3, <1>4, <1>5, <2>1
    <2> QED
      BY <1>3, <1>4, <2>2, <2>3 DEF HoldsTail
  <1> HIDE DEF p
  <1>7. p[1] = [from |-> t[n], back |-> 0, to |-> NoName, isBackup |-> TRUE] /\ Origin(p, 1) = t[n]
    BY <1>6 DEF Backup, Origin
  <1>8. ASSUME NEW i \in 2..n
        PROVE  /\ p[i].back = 0 /\ ~p[i].isBackup /\ Origin(p, i) = p[i].from
               /\ n - i + 1 \in 1..(n - 1) /\ n - i + 2 \in 2..n
               /\ p[i].from = t[n - i + 1] /\ p[i].to = t[n - i + 2]
    <2>1. /\ i - 1 \in 1..(n - 1) /\ 1 + (i - 1) = i
          /\ n - (i - 1) = n - i + 1 /\ n - (i - 1) + 1 = n - i + 2
      BY <1>3
    <2>2. p[i] = Rename(t[n - i + 1], t[n - i + 2])
      BY <1>6, <2>1 DEF HoldsTail
    <2>3. n - i + 1 \in 1..(n - 1) /\ n - i + 2 \in 2..n
      BY <1>3
    <2> QED
      BY <2>2, <2>3 DEF Rename, Origin
  <1>9. /\ p[n + 1].back = n /\ ~p[n + 1].isBackup /\ p[n + 1].to = t[1]
        /\ Origin(p, n + 1) = t[n]
    <2>1. /\ p[n + 1].back = n /\ ~p[n + 1].isBackup /\ p[n + 1].to = t[1] /\ n # 0
          /\ (n + 1) - n = 1
      BY <1>3, <1>6 DEF RenameBackup
    <2> QED
      BY <1>7, <2>1 DEF Origin
  <1>10. 1..Len(p) = { 1, n + 1 } \cup 2..n
    BY <1>3, <1>6
  \* The places of the two names of a step on the trail.
  <1> DEFINE at(i) == IF i = 1 THEN n ELSE n - i + 1
             into(i) == IF i = n + 1 THEN 1 ELSE n - i + 2
  <1>11. ASSUME NEW i \in 1..Len(p)
         PROVE  /\ p[i].back = 0 <=> i # n + 1
                /\ p[i].isBackup <=> i = 1
                /\ i # n + 1 => p[i].from = t[at(i)] /\ at(i) \in 1..n /\ Origin(p, i) = t[at(i)]
                /\ i # 1 => p[i].to = t[into(i)] /\ into(i) \in 1..n
    <2>1. CASE i = 1
      BY <1>3, <1>7, <2>1
    <2>2. CASE i = n + 1
      BY <1>3, <1>9, <2>2
    <2>3. CASE i \in 2..n
      BY <1>3, <1>8, <2>3
    <2> QED
      BY <1>10, <2>1, <2>2, <2>3
  <1>12. GoesBack(p)
    <2>1. ASSUME NEW i \in 1..Len(p), p[i].back # 0 PROVE i = n + 1
      BY <1>11, <2>1
    <2>2. n + 1 - n = 1 /\ n \in 1..((n + 1) - 1)
      BY <1>3
    <2> QED
      BY <1>7, <1>9, <2>1, <2>2 DEF GoesBack
  <1>13. NamedOnce(p)
    <2>1. ASSUME NEW i \in 1..Len(p), NEW j \in 1..Len(p), p[i].back = 0, p[j].back = 0,
                 p[i].from = p[j].from
          PROVE  i = j
      <3>1. i # n + 1 /\ j # n + 1 /\ t[at(i)] = t[at(j)] /\ at(i) \in 1..n /\ at(j) \in 1..n
        BY <1>11, <2>1
      <3>2. at(i) = at(j)
        <4> HIDE DEF at
        <4> QED
          BY <1>3, <3>1
      <3> QED
        BY <1>3, <1>6, <3>1, <3>2
    <2>2. ASSUME NEW i \in 1..Len(p), NEW j \in 1..Len(p), ~p[i].isBackup, ~p[j].isBackup,
                 p[i].to = p[j].to
          PROVE  i = j
      <3>1. i # 1 /\ j # 1 /\ t[into(i)] = t[into(j)] /\ into(i) \in 1..n /\ into(j) \in 1..n
        BY <1>11, <2>2
      <3>2. into(i) = into(j)
        <4> HIDE DEF into
        <4> QED
          BY <1>3, <3>1
      <3> QED
        BY <1>3, <1>6, <3>1, <3>2
    <2> QED
      BY <2>1, <2>2 DEF NamedOnce
  <1>14. ASSUME NEW i \in 1..Len(p), ~p[i].isBackup
         PROVE  \E l \in 1..(i - 1) : p[l].back = 0 /\ p[l].from = p[i].to
    <2>1. i # 1 /\ p[i].to = t[into(i)]
      BY <1>11, <1>14
    <2>2. i - 1 \in 1..Len(p) /\ i - 1 \in 1..(i - 1) /\ i - 1 # n + 1 /\ at(i - 1) = into(i)
      BY <1>3, <1>6, <2>1
    <2>3. p[i - 1].back = 0 /\ p[i - 1].from = t[at(i - 1)]
      BY <1>11, <2>2
    <2> QED
      BY <2>1, <2>2, <2>3
  <1>15. CarriesOut(p, renames, existing, names)
    <2>1. ASSUME NEW i \in 1..Len(p)
          PROVE  /\ Origin(p, i) \in names
                 /\ IF p[i].isBackup THEN Origin(p, i) \in existing \cup DOMAIN renames
                    ELSE /\ Origin(p, i) \in DOMAIN renames /\ p[i].to \in names
                         /\ p[i].to = renames[Origin(p, i)]
      <3>0. n \in 1..n /\ 1 \in 1..n
        BY <1>3
      <3>1. CASE i = 1
        BY <1>0, <1>2, <1>7, <3>0, <3>1
      <3>2. CASE i = n + 1
        BY <1>0, <1>2, <1>3, <1>9, <3>0, <3>2
      <3>3. CASE i \in 2..n
        <4>i. /\ ~p[i].isBackup /\ Origin(p, i) = t[n - i + 1] /\ p[i].to = t[n - i + 2]
              /\ n - i + 1 \in 1..(n - 1) /\ n - i + 2 \in 2..n
          BY <1>8, <3>3
        <4>1. n - i + 1 \in 1..n /\ n - i + 2 \in 1..n /\ (n - i + 1) + 1 = n - i + 2
          BY <1>3, <4>i
        <4>2. t[n - i + 1] \in DOMAIN renames /\ t[n - i + 2] = renames[t[n - i + 1]]
          BY <1>3, <4>i, <4>1
        <4> QED
          BY <1>2, <4>i, <4>1, <4>2
      <3> QED
        BY <1>10, <3>1, <3>2, <3>3
    <2>2. ASSUME NEW name \in names \cap DOMAIN renames
          PROVE  \E i \in 1..Len(p) : ~p[i].isBackup /\ Origin(p, i) = name
      <3>1. PICK k \in 1..n : name = t[k]
        BY <1>2
      <3>2. CASE k = n
        BY <1>9, <1>10, <3>1, <3>2
      <3>3. CASE k # n
        <4> DEFINE i == n - k + 1
        <4>1. i \in 2..n /\ n - i + 1 = k
          BY <1>3, <3>3
        <4> HIDE DEF i
        <4>2. ~p[i].isBackup /\ Origin(p, i) = p[i].from /\ p[i].from = t[k]
          BY <1>8, <4>1
        <4> QED
          BY <1>10, <3>1, <4>1, <4>2
      <3> QED
        BY <3>2, <3>3
    <2> QED
      BY <2>1, <2>2 DEF CarriesOut
  <1> QED
    BY <1>6, <1>12, <1>13, <1>14, <1>15 DEF Works, GivesWhatIsFree, p, t, names

LEMMA JoinedWork ==
    ASSUME NEW renames, NEW existing, NEW V, NEW W, V \cap W = {}, NEW p, NEW s,
           Works(p, renames, existing, V), Works(s, renames, existing, W)
    PROVE  Works(p \o s, renames, existing, V \cup W)
  <1> DEFINE q == p \o s
             m == Len(p)
  <1>1. /\ p \in Seq(PlanStep) /\ s \in Seq(PlanStep)
        /\ GoesBack(p) /\ NamedOnce(p) /\ GivesWhatIsFree(p, existing)
        /\ CarriesOut(p, renames, existing, V)
        /\ GoesBack(s) /\ NamedOnce(s) /\ GivesWhatIsFree(s, existing)
        /\ CarriesOut(s, renames, existing, W)
    BY DEF Works
  <1>2. /\ q \in Seq(PlanStep) /\ m \in Nat /\ Len(s) \in Nat /\ Len(q) = m + Len(s)
        /\ \A i \in 1..m : q[i] = p[i]
        /\ \A i \in 1..Len(s) : q[m + i] = s[i]
    BY <1>1
  <1>3. \A i \in 1..m : p[i].back \in Nat
    <2> TAKE i \in 1..m
    <2>1. p[i] \in PlanStep
      BY <1>1
    <2> QED
      BY <2>1 DEF PlanStep
  <1>4. \A i \in 1..Len(s) : s[i].back \in Nat
    <2> TAKE i \in 1..Len(s)
    <2>1. s[i] \in PlanStep
      BY <1>1
    <2> QED
      BY <2>1 DEF PlanStep
  <1> HIDE DEF q, m
  <1>5. ASSUME NEW i \in 1..m
        PROVE  /\ i \in 1..Len(q) /\ q[i] = p[i] /\ Origin(q, i) = Origin(p, i)
               /\ p[i].back # 0 => i - p[i].back \in 1..m /\ q[i - p[i].back] = p[i - p[i].back]
    <2>1. i \in 1..Len(q) /\ q[i] = p[i]
      BY <1>2
    <2>2. ASSUME p[i].back # 0
          PROVE  i - p[i].back \in 1..m /\ q[i - p[i].back] = p[i - p[i].back]
      <3>1. p[i].back \in 1..(i - 1)
        BY <1>1, <2>2 DEF GoesBack, m
      <3>2. i - p[i].back \in 1..m
        BY <1>2, <3>1
      <3> QED
        BY <1>2, <3>2
    <2> QED
      BY <2>1, <2>2 DEF Origin
  <1>6. ASSUME NEW i \in 1..Len(q), i > m
        PROVE  /\ i - m \in 1..Len(s) /\ q[i] = s[i - m] /\ Origin(q, i) = Origin(s, i - m)
               /\ s[i - m].back # 0 =>
                     /\ (i - m) - s[i - m].back \in 1..Len(s)
                     /\ i - s[i - m].back = m + ((i - m) - s[i - m].back)
                     /\ q[i - s[i - m].back] = s[(i - m) - s[i - m].back]
    <2>1. i - m \in 1..Len(s) /\ m + (i - m) = i
      BY <1>2, <1>6
    <2>2. q[i] = s[i - m]
      BY <1>2, <2>1
    <2> DEFINE k == i - m
               b == s[k].back
    <2>3. ASSUME b # 0
          PROVE  k - b \in 1..Len(s) /\ i - b = m + (k - b) /\ q[i - b] = s[k - b]
      <3>1. b \in Nat /\ b \in 1..(k - 1)
        BY <1>1, <1>4, <2>1, <2>3 DEF GoesBack
      <3> HIDE DEF b
      <3>2. k - b \in 1..Len(s) /\ i - b = m + (k - b)
        BY <1>2, <2>1, <3>1
      <3> QED
        BY <1>2, <3>2
    <2> QED
      BY <2>1, <2>2, <2>3 DEF Origin
  <1>7. \A i \in 1..Len(q) : i \in 1..m \/ i > m
    BY <1>2
  <1>8. GoesBack(q)
    <2>1. ASSUME NEW i \in 1..Len(q), q[i].back # 0
          PROVE  /\ ~q[i].isBackup /\ q[i].back \in 1..(i - 1)
                 /\ q[i - q[i].back].isBackup /\ q[i - q[i].back].back = 0
      <3>1. CASE i \in 1..m
        BY <1>1, <1>5, <2>1, <3>1 DEF GoesBack, m
      <3>2. CASE i > m
        <4> DEFINE k == i - m
                   b == s[k].back
        <4>1. k \in 1..Len(s) /\ q[i] = s[k] /\ b # 0 /\ q[i - b] = s[k - b]
          BY <1>6, <2>1, <3>2
        <4>2. ~s[k].isBackup /\ b \in 1..(k - 1) /\ s[k - b].isBackup /\ s[k - b].back = 0
          BY <1>1, <4>1 DEF GoesBack
        <4>3. b \in 1..(i - 1)
          BY <1>2, <3>2, <4>1, <4>2
        <4> HIDE DEF k, b
        <4> QED
          BY <4>1, <4>2, <4>3 DEF b
      <3> QED
        BY <1>7, <3>1, <3>2
    <2>2. ASSUME NEW i \in 1..Len(q), NEW j \in 1..Len(q), q[i].back # 0, q[j].back # 0,
                 i - q[i].back = j - q[j].back
          PROVE  i = j
      <3>1. CASE i \in 1..m /\ j \in 1..m
        <4>1. q[i] = p[i] /\ q[j] = p[j]
          BY <1>5, <3>1
        <4> QED
          BY <1>1, <2>2, <3>1, <4>1 DEF GoesBack, m
      <3>2. CASE i > m /\ j > m
        <4> DEFINE k == i - m
                   l == j - m
        <4>1. /\ k \in 1..Len(s) /\ q[i] = s[k] /\ i - s[k].back = m + (k - s[k].back)
              /\ l \in 1..Len(s) /\ q[j] = s[l] /\ j - s[l].back = m + (l - s[l].back)
              /\ k - s[k].back \in 1..Len(s) /\ l - s[l].back \in 1..Len(s)
          BY <1>6, <2>2, <3>2
        <4>2. k - s[k].back = l - s[l].back
          BY <1>2, <2>2, <4>1
        <4>3. k = l
          BY <1>1, <2>2, <4>1, <4>2 DEF GoesBack
        <4> QED
          BY <1>2, <4>3
      <3>3. CASE i \in 1..m /\ j > m
        <4>1. i - q[i].back \in 1..m
          BY <1>5, <2>2, <3>3
        <4>2. \E c \in 1..Len(s) : j - q[j].back = m + c
          BY <1>6, <2>2, <3>3
        <4> QED
          BY <1>2, <2>2, <4>1, <4>2
      <3>4. CASE i > m /\ j \in 1..m
        <4>1. j - q[j].back \in 1..m
          BY <1>5, <2>2, <3>4
        <4>2. \E c \in 1..Len(s) : i - q[i].back = m + c
          BY <1>6, <2>2, <3>4
        <4> QED
          BY <1>2, <2>2, <4>1, <4>2
      <3> QED
        BY <1>7, <3>1, <3>2, <3>3, <3>4
    <2> QED
      BY <2>1, <2>2 DEF GoesBack
  <1>9. ASSUME NEW i \in 1..Len(q)
        PROVE  /\ IF i \in 1..m THEN Origin(q, i) \in V ELSE Origin(q, i) \in W
               /\ IF q[i].isBackup THEN Origin(q, i) \in existing \cup DOMAIN renames
                  ELSE /\ Origin(q, i) \in DOMAIN renames
                       /\ IF i \in 1..m THEN q[i].to \in V ELSE q[i].to \in W
                       /\ q[i].to = renames[Origin(q, i)]
               /\ q[i].back = 0 => Origin(q, i) = q[i].from
    <2>1. CASE i \in 1..m
      <3>1. q[i] = p[i] /\ Origin(q, i) = Origin(p, i)
        BY <1>5, <2>1
      <3> QED
        BY <1>1, <2>1, <3>1 DEF CarriesOut, m, Origin
    <2>2. CASE i > m
      <3>1. q[i] = s[i - m] /\ Origin(q, i) = Origin(s, i - m) /\ i - m \in 1..Len(s) /\ i \notin 1..m
        BY <1>2, <1>6, <2>2
      <3> QED
        BY <1>1, <2>2, <3>1 DEF CarriesOut, Origin
    <2> QED
      BY <1>7, <2>1, <2>2
  <1>10. NamedOnce(q)
    <2>1. ASSUME NEW i \in 1..Len(q), NEW j \in 1..Len(q), q[i].back = 0, q[j].back = 0,
                 q[i].from = q[j].from
          PROVE  i = j
      <3>1. Origin(q, i) = Origin(q, j)
        BY <1>9, <2>1
      <3>2. CASE i \in 1..m /\ j \in 1..m
        <4>1. q[i] = p[i] /\ q[j] = p[j]
          BY <1>5, <3>2
        <4> QED
          BY <1>1, <2>1, <3>2, <4>1 DEF NamedOnce, m
      <3>3. CASE i > m /\ j > m
        <4>1. q[i] = s[i - m] /\ q[j] = s[j - m] /\ i - m \in 1..Len(s) /\ j - m \in 1..Len(s)
          BY <1>6, <3>3
        <4>2. i - m = j - m
          BY <1>1, <2>1, <4>1 DEF NamedOnce
        <4> QED
          BY <1>2, <4>2
      <3>4. i \in 1..m <=> j \in 1..m
        BY <1>9, <3>1
      <3> QED
        BY <1>7, <3>2, <3>3, <3>4
    <2>2. ASSUME NEW i \in 1..Len(q), NEW j \in 1..Len(q), ~q[i].isBackup, ~q[j].isBackup,
                 q[i].to = q[j].to
          PROVE  i = j
      <3>2. CASE i \in 1..m /\ j \in 1..m
        <4>1. q[i] = p[i] /\ q[j] = p[j]
          BY <1>5, <3>2
        <4> QED
          BY <1>1, <2>2, <3>2, <4>1 DEF NamedOnce, m
      <3>3. CASE i > m /\ j > m
        <4>1. q[i] = s[i - m] /\ q[j] = s[j - m] /\ i - m \in 1..Len(s) /\ j - m \in 1..Len(s)
          BY <1>6, <3>3
        <4>2. i - m = j - m
          BY <1>1, <2>2, <4>1 DEF NamedOnce
        <4> QED
          BY <1>2, <4>2
      <3>4. i \in 1..m <=> j \in 1..m
        BY <1>9, <2>2
      <3> QED
        BY <1>7, <3>2, <3>3, <3>4
    <2> QED
      BY <2>1, <2>2 DEF NamedOnce
  <1>11. ASSUME NEW i \in 1..Len(q), ~q[i].isBackup
         PROVE  \/ q[i].to \notin existing
                \/ \E l \in 1..(i - 1) : q[l].back = 0 /\ q[l].from = q[i].to
    <2>1. CASE i \in 1..m
      <3>1. q[i] = p[i]
        BY <1>5, <2>1
      <3>2. \/ p[i].to \notin existing
            \/ \E l \in 1..(i - 1) : p[l].back = 0 /\ p[l].from = p[i].to
        BY <1>1, <1>11, <2>1, <3>1 DEF GivesWhatIsFree, m
      <3>3. \A l \in 1..(i - 1) : q[l] = p[l]
        BY <1>2, <2>1
      <3> QED
        BY <3>1, <3>2, <3>3
    <2>2. CASE i > m
      <3> DEFINE k == i - m
      <3>1. q[i] = s[k] /\ k \in 1..Len(s)
        BY <1>6, <2>2
      <3>2. \/ s[k].to \notin existing
            \/ \E l \in 1..(k - 1) : s[l].back = 0 /\ s[l].from = s[k].to
        BY <1>1, <1>11, <3>1 DEF GivesWhatIsFree
      <3>3. \A l \in 1..(k - 1) : m + l \in 1..(i - 1) /\ q[m + l] = s[l]
        BY <1>2, <2>2, <3>1
      <3> HIDE DEF k
      <3> QED
        BY <3>1, <3>2, <3>3
    <2> QED
      BY <1>7, <2>1, <2>2
  <1>12. CarriesOut(q, renames, existing, V \cup W)
    <2>1. ASSUME NEW name \in (V \cup W) \cap DOMAIN renames
          PROVE  \E i \in 1..Len(q) : ~q[i].isBackup /\ Origin(q, i) = name
      <3>1. CASE name \in V
        <4>1. PICK i \in 1..m : ~p[i].isBackup /\ Origin(p, i) = name
          BY <1>1, <2>1, <3>1 DEF CarriesOut, m
        <4> QED
          BY <1>5, <4>1
      <3>2. CASE name \in W
        <4>1. PICK k \in 1..Len(s) : ~s[k].isBackup /\ Origin(s, k) = name
          BY <1>1, <2>1, <3>2 DEF CarriesOut
        <4>2. m + k \in 1..Len(q) /\ m + k > m /\ (m + k) - m = k
          BY <1>2
        <4>3. q[m + k] = s[k] /\ Origin(q, m + k) = Origin(s, k)
          BY <1>6, <4>2
        <4> QED
          BY <4>1, <4>2, <4>3
      <3> QED
        BY <2>1, <3>1, <3>2
    <2>2. \A i \in 1..Len(q) :
            /\ Origin(q, i) \in V \cup W
            /\ IF q[i].isBackup THEN Origin(q, i) \in existing \cup DOMAIN renames
               ELSE /\ Origin(q, i) \in DOMAIN renames /\ q[i].to \in V \cup W
                    /\ q[i].to = renames[Origin(q, i)]
      BY <1>9
    <2> QED
      BY <2>1, <2>2 DEF CarriesOut
  <1> QED
    BY <1>2, <1>8, <1>10, <1>11, <1>12 DEF Works, GivesWhatIsFree, q

-----------------------------------------------------------------------------
(* The trails of a plan share no name and leave out none *)

LEMMA HeadFacts ==
    ASSUME NEW renames, OneToOne(renames), NEW head, IsHead(renames, head)
    PROVE  /\ head \in DOMAIN renames /\ head \in Met(renames, head)
           /\ Closed(renames, Met(renames, head)) /\ Met(renames, head) \subseteq AllNames
           /\ head \in PureSources(renames) \/
                 /\ head \in Range(renames)
                 /\ head \in CycleHeads(renames) /\ head = Earliest(Met(renames, head))
           /\ \A name \in Met(renames, head) : name = head \/ name \in Range(renames)
  <1> DEFINE t == Trail(renames, head)
             n == Len(t)
  <1>1. head \in DOMAIN renames /\ Renaming(renames)
    BY DEF IsHead, PureSources, CycleHeads, OneToOne
  <1>2. IsTrail(renames, head, t)
    BY <1>1, TrailIsTrail
  <1>3. ASSUME head \notin PureSources(renames)
        PROVE  /\ t[n] \in DOMAIN renames /\ renames[t[n]] = head
               /\ head \in CycleHeads(renames) /\ head = Earliest(Range(t))
    BY <1>3 DEF IsHead, CycleHeads
  <1>4. /\ Closed(renames, Met(renames, head)) /\ head \in Met(renames, head)
        /\ Met(renames, head) \subseteq AllNames
    BY <1>1, <1>3, TrailIsClosed
  <1>5. Met(renames, head) = { t[i] : i \in 1..n }
    BY DEF Met
  <1> HIDE DEF t
  <1>6. /\ t \in Seq(AllNames) /\ n \in Nat /\ n > 0 /\ t[1] = head
        /\ \A i \in 1..(n - 1) : t[i] \in DOMAIN renames /\ t[i + 1] = renames[t[i]]
    BY <1>2 DEF IsTrail
  <1>7. Range(t) = Met(renames, head)
    BY <1>5, <1>6 DEF Range
  <1>8. ASSUME NEW name \in Met(renames, head) PROVE name = head \/ name \in Range(renames)
    <2>1. PICK i \in 1..n : name = t[i]
      BY <1>5
    <2>2. CASE i = 1
      BY <1>6, <2>1, <2>2
    <2>3. CASE i # 1
      <3>1. i - 1 \in 1..(n - 1) /\ (i - 1) + 1 = i
        BY <1>6, <2>3
      <3>2. t[i - 1] \in DOMAIN renames /\ name = renames[t[i - 1]]
        BY <1>6, <2>1, <3>1
      <3> QED
        BY <3>2 DEF Range
    <2> QED
      BY <2>2, <2>3
  <1>9. head \in PureSources(renames) \/
           /\ head \in Range(renames)
           /\ head \in CycleHeads(renames) /\ head = Earliest(Met(renames, head))
    BY <1>3, <1>7 DEF Range
  <1> QED
    BY <1>1, <1>4, <1>8, <1>9

LEMMA TrailsShareNothing ==
    ASSUME NEW renames, OneToOne(renames),
           NEW one, IsHead(renames, one), NEW other, IsHead(renames, other), one # other
    PROVE  Met(renames, one) \cap Met(renames, other) = {}
  <1> SUFFICES ASSUME NEW met, met \in Met(renames, one), met \in Met(renames, other)
               PROVE  FALSE
    OBVIOUS
  <1>0. Renaming(renames)
    BY DEF OneToOne
  <1>1. /\ one \in DOMAIN renames
        /\ Closed(renames, Met(renames, one)) /\ Met(renames, one) \subseteq AllNames
        /\ one \in PureSources(renames) \/ one = Earliest(Met(renames, one))
        /\ \A name \in Met(renames, one) : name = one \/ name \in Range(renames)
    BY HeadFacts
  <1>2. /\ other \in DOMAIN renames
        /\ Closed(renames, Met(renames, other)) /\ Met(renames, other) \subseteq AllNames
        /\ other \in PureSources(renames) \/ other = Earliest(Met(renames, other))
        /\ \A name \in Met(renames, other) : name = other \/ name \in Range(renames)
    BY HeadFacts
  <1>3. other \in Met(renames, one)
    <2>1. \A name \in DOMAIN renames :
             renames[name] \in Met(renames, one) => name \in Met(renames, one)
      BY <1>1 DEF Closed
    <2> QED
      BY <1>0, <1>2, <2>1, HeadIsWithin
  <1>4. one \in Met(renames, other)
    <2>1. \A name \in DOMAIN renames :
             renames[name] \in Met(renames, other) => name \in Met(renames, other)
      BY <1>2 DEF Closed
    <2> QED
      BY <1>0, <1>1, <2>1, HeadIsWithin
  <1>5. one \notin PureSources(renames) /\ other \notin PureSources(renames)
    BY <1>1, <1>2, <1>3, <1>4 DEF PureSources
  <1>6. Met(renames, one) \in SUBSET Nat /\ Met(renames, other) \in SUBSET Nat
    BY <1>1, <1>2, NumberedNames
  <1>7. one <= other
    BY <1>1, <1>3, <1>5, <1>6, EarliestIsLeast
  <1>8. other <= one
    BY <1>2, <1>4, <1>5, <1>6, EarliestIsLeast
  <1> QED
    BY <1>3, <1>4, <1>6, <1>7, <1>8

\* On a cycle, the earliest name has the same trail.
LEMMA LoopHasAHead ==
    ASSUME NEW renames, OneToOne(renames), NEW name \in DOMAIN renames,
           LET t == Trail(renames, name) IN t[Len(t)] \in DOMAIN renames
    PROVE  \E head \in CycleHeads(renames) : name \in Met(renames, head)
  <1> DEFINE t == Trail(renames, name)
             head == Earliest(Met(renames, name))
             u == Trail(renames, head)
  <1>0. Renaming(renames)
    BY DEF OneToOne
  <1>1. /\ Closed(renames, Met(renames, name)) /\ name \in Met(renames, name)
        /\ Met(renames, name) \subseteq AllNames
    BY TrailIsClosed
  <1>2. Met(renames, name) \subseteq DOMAIN renames
    <2>1. IsTrail(renames, name, t) /\ t[Len(t)] \in DOMAIN renames
      BY <1>0, TrailIsTrail
    <2>2. Met(renames, name) = { t[i] : i \in 1..Len(t) }
      BY DEF Met
    <2> HIDE DEF t
    <2>3. \A i \in 1..Len(t) : i = Len(t) \/ i \in 1..(Len(t) - 1)
      BY <2>1 DEF IsTrail
    <2> QED
      BY <2>1, <2>2, <2>3 DEF IsTrail
  <1>3. /\ head \in Met(renames, name) /\ \A m \in Met(renames, name) : head <= m
    <2>1. Met(renames, name) \in SUBSET Nat
      BY <1>1, NumberedNames
    <2> QED
      BY <1>1, <2>1, EarliestIsLeast
  <1> HIDE DEF head
  <1>4. head \in DOMAIN renames
    BY <1>2, <1>3
  <1>5. Met(renames, head) \subseteq Met(renames, name)
    <2>1. Onward(renames, Met(renames, name))
      BY <1>1 DEF Closed, Onward
    <2> QED
      BY <1>0, <1>3, <1>4, <2>1, TrailStaysWithin
  <1>6. /\ IsTrail(renames, head, u) /\ Met(renames, head) = { u[i] : i \in 1..Len(u) }
        /\ u[Len(u)] \in DOMAIN renames => renames[u[Len(u)]] = head
    BY <1>0, <1>4, TrailIsTrail, TrailEnds DEF Met
  <1>7. u[Len(u)] \in DOMAIN renames
    <2> HIDE DEF u
    <2>1. Len(u) \in 1..Len(u)
      BY <1>6 DEF IsTrail
    <2> QED
      BY <1>2, <1>5, <1>6, <2>1
  <1>8. Closed(renames, Met(renames, head)) /\ head \in Met(renames, head)
    BY <1>4, <1>7, TrailIsClosed
  <1>9. name \in Met(renames, head)
    <2>1. \A m \in DOMAIN renames :
             renames[m] \in Met(renames, head) => m \in Met(renames, head)
      BY <1>8 DEF Closed
    <2> QED
      BY <1>0, <1>3, <1>8, <2>1, HeadIsWithin
  <1>10. head = Earliest(Met(renames, head))
    <2>1. Met(renames, head) \in SUBSET Nat
      BY <1>1, <1>5, NumberedNames
    <2>2. \A m \in Met(renames, head) : head <= m
      BY <1>3, <1>5
    <2> QED
      BY <1>8, <2>1, <2>2, EarliestIsLeast
  <1>11. Range(u) = Met(renames, head)
    <2> HIDE DEF u
    <2> QED
      BY <1>6 DEF IsTrail, Range
  <1>12. head \in CycleHeads(renames)
    BY <1>4, <1>6, <1>7, <1>10, <1>11 DEF CycleHeads
  <1> QED
    BY <1>9, <1>12

\* A name that is on no chain is on a cycle: among the names on no chain, finitely
\* many and one-to-one, each is renamed to one of them.
LEMMA EveryNameHasAHead ==
    ASSUME NEW renames, OneToOne(renames), NEW name \in DOMAIN renames
    PROVE  \E head : IsHead(renames, head) /\ name \in Met(renames, head)
  <1> DEFINE rest == { n \in DOMAIN renames :
                         \A head \in PureSources(renames) : n \notin Met(renames, head) }
             into == { renames[n] : n \in rest }
             t == Trail(renames, name)
  <1>0. Renaming(renames)
    BY DEF OneToOne
  <1>1. CASE name \notin rest
    BY <1>1 DEF IsHead
  <1>2. CASE name \in rest
    <2>1. ASSUME NEW n \in rest PROVE n \in into
      <3>1. n \in DOMAIN renames /\ n \notin PureSources(renames)
        <4>1. n \in PureSources(renames) => n \in Met(renames, n)
          BY HeadFacts DEF IsHead
        <4> QED
          BY <4>1
      <3>2. PICK m \in DOMAIN renames : renames[m] = n
        BY <3>1 DEF PureSources, Range
      <3>3. ASSUME NEW head \in PureSources(renames), m \in Met(renames, head) PROVE FALSE
        <4>1. Closed(renames, Met(renames, head))
          BY HeadFacts DEF IsHead
        <4>2. n \in Met(renames, head)
          BY <3>2, <3>3, <4>1 DEF Closed
        <4> QED
          BY <4>2
      <3>4. m \in rest
        BY <3>2, <3>3
      <3> QED
        BY <3>2, <3>4
    <2>2. IsFiniteSet(rest) /\ rest \subseteq DOMAIN renames
      <3>1. rest \subseteq AllNames
        BY <1>0 DEF Renaming
      <3> HIDE DEF rest
      <3>2. IsFiniteSet(rest)
        BY <3>1, NumberedNames, FS_Subset
      <3> QED
        BY <3>2 DEF rest
    <2>3. IsFiniteSet(into) /\ Cardinality(into) = Cardinality(rest)
      <3> DEFINE f == [n \in rest |-> renames[n]]
      <3>1. f \in Bijection(rest, into)
        <4>1. f \in [rest -> into]
          OBVIOUS
        <4>2. \A a, b \in rest : f[a] = f[b] => a = b
          BY <2>2 DEF OneToOne
        <4>3. \A v \in into : \E a \in rest : f[a] = v
          OBVIOUS
        <4> HIDE DEF f, into, rest
        <4> QED
          BY <4>1, <4>2, <4>3 DEF Bijection, Injection, Surjection, IsInjective
      <3>2. ExistsBijection(rest, into)
        BY <3>1 DEF ExistsBijection
      <3> HIDE DEF f, into, rest
      <3> QED
        BY <2>2, <3>2, FS_Bijection
    <2>4. rest = into
      <3>1. rest \in SUBSET into
        BY <2>1
      <3> HIDE DEF rest, into
      <3> QED
        BY <2>3, <3>1, FS_Subset
    <2>5. Onward(renames, rest)
      <3>1. \A n \in rest : renames[n] \in into
        OBVIOUS
      <3> QED
        BY <2>4, <3>1 DEF Onward
    <2>6. Met(renames, name) \subseteq rest
      <3> HIDE DEF rest
      <3> QED
        BY <1>0, <1>2, <2>5, TrailStaysWithin
    <2>7. t[Len(t)] \in Met(renames, name)
      <3>1. IsTrail(renames, name, t) /\ Met(renames, name) = { t[i] : i \in 1..Len(t) }
        BY <1>0, TrailIsTrail DEF Met
      <3> HIDE DEF t
      <3>2. Len(t) \in 1..Len(t)
        BY <3>1 DEF IsTrail
      <3> QED
        BY <3>1, <3>2
    <2>8. t[Len(t)] \in DOMAIN renames
      BY <2>2, <2>6, <2>7
    <2>9. \E head \in CycleHeads(renames) : name \in Met(renames, head)
      BY <2>8, LoopHasAHead
    <2> QED
      BY <2>9 DEF IsHead
  <1> QED
    BY <1>1, <1>2

LEMMA HeadsOnce ==
    ASSUME NEW renames, OneToOne(renames)
    PROVE  LET heads == Heads(renames)
           IN  /\ Len(heads) \in Nat
               /\ \A i \in 1..Len(heads) : IsHead(renames, heads[i])
               /\ \A i, j \in 1..Len(heads) : heads[i] = heads[j] => i = j
               /\ \A head : IsHead(renames, head) => \E i \in 1..Len(heads) : heads[i] = head
  <1> DEFINE sources == InOrder(PureSources(renames))
             cycles == InOrder(CycleHeads(renames))
             heads == sources \o cycles
             m == Len(sources)
             n == Len(cycles)
  <1>1. PureSources(renames) \in SUBSET AllNames /\ CycleHeads(renames) \in SUBSET AllNames
    BY DEF PureSources, CycleHeads, OneToOne, Renaming
  <1>2. /\ sources \in Seq(PureSources(renames))
        /\ \A name \in PureSources(renames) : \E i \in 1..m : sources[i] = name
        /\ \A i, j \in 1..m : sources[i] = sources[j] => i = j
    BY <1>1, InOrderFacts
  <1>3. /\ cycles \in Seq(CycleHeads(renames))
        /\ \A name \in CycleHeads(renames) : \E i \in 1..n : cycles[i] = name
        /\ \A i, j \in 1..n : cycles[i] = cycles[j] => i = j
    BY <1>1, InOrderFacts
  <1>4. ASSUME NEW name \in PureSources(renames), name \in CycleHeads(renames) PROVE FALSE
    <2> DEFINE t == Trail(renames, name)
    <2>1. t[Len(t)] \in DOMAIN renames /\ renames[t[Len(t)]] = name
      BY <1>4 DEF CycleHeads
    <2> QED
      BY <2>1 DEF PureSources, Range
  <1> HIDE DEF sources, cycles
  <1>5. /\ m \in Nat /\ n \in Nat /\ Len(heads) = m + n
        /\ \A i \in 1..m : heads[i] = sources[i] /\ heads[i] \in PureSources(renames)
        /\ \A i \in 1..n : heads[m + i] = cycles[i] /\ cycles[i] \in CycleHeads(renames)
    BY <1>2, <1>3
  <1> HIDE DEF heads, m, n
  <1>6. \A i \in 1..(m + n) : i \in 1..m \/ (i - m \in 1..n /\ m + (i - m) = i)
    BY <1>5
  <1>7. ASSUME NEW i \in 1..(m + n), NEW j \in 1..(m + n), heads[i] = heads[j] PROVE i = j
    <2>1. CASE i \in 1..m /\ j \in 1..m
      BY <1>2, <1>5, <1>7, <2>1 DEF m
    <2>2. CASE i - m \in 1..n /\ m + (i - m) = i /\ j - m \in 1..n /\ m + (j - m) = j
      <3>1. cycles[i - m] = cycles[j - m]
        BY <1>5, <1>7, <2>2
      <3>2. i - m = j - m
        BY <1>3, <2>2, <3>1 DEF n
      <3> QED
        BY <1>5, <3>2
    <2>3. CASE i \in 1..m /\ j - m \in 1..n /\ m + (j - m) = j
      BY <1>4, <1>5, <1>7, <2>3
    <2>4. CASE j \in 1..m /\ i - m \in 1..n /\ m + (i - m) = i
      BY <1>4, <1>5, <1>7, <2>4
    <2> QED
      BY <1>6, <2>1, <2>2, <2>3, <2>4
  <1>8. ASSUME NEW head, IsHead(renames, head) PROVE \E i \in 1..(m + n) : heads[i] = head
    <2>1. CASE head \in PureSources(renames)
      <3>1. PICK i \in 1..m : sources[i] = head
        BY <1>2, <2>1 DEF m
      <3> QED
        BY <1>5, <3>1
    <2>2. CASE head \in CycleHeads(renames)
      <3>1. PICK i \in 1..n : cycles[i] = head
        BY <1>3, <2>2 DEF n
      <3>2. m + i \in 1..(m + n)
        BY <1>5
      <3> QED
        BY <1>5, <3>1, <3>2
    <2> QED
      BY <1>8, <2>1, <2>2 DEF IsHead
  <1>9. \A i \in 1..(m + n) : IsHead(renames, heads[i])
    BY <1>5, <1>6 DEF IsHead
  <1>10. Heads(renames) = heads
    BY DEF Heads, heads, sources, cycles
  <1> QED
    BY <1>5, <1>7, <1>8, <1>9, <1>10

\* The plan of one-to-one renames carries out each of them, in an order in which
\* each step finds its destination free.
LEMMA PlanOfAllWorks ==
    ASSUME NEW renames, OneToOne(renames), NEW existing
    PROVE  Works(BuildRenamePlan(renames, existing), renames, existing, AllNames)
  <1> DEFINE heads == Heads(renames)
             n == Len(heads)
             before(i) == { name \in AllNames : \E j \in 1..i : name \in Met(renames, heads[j]) }
  <1>0. Renaming(renames)
    BY DEF OneToOne
  <1>1. /\ n \in Nat
        /\ \A i \in 1..n : IsHead(renames, heads[i])
        /\ \A i, j \in 1..n : heads[i] = heads[j] => i = j
        /\ \A head : IsHead(renames, head) => \E i \in 1..n : heads[i] = head
    BY HeadsOnce
  <1>2. PICK so : Planned(so, renames, existing) /\ BuildRenamePlan(renames, existing) = so[n]
    BY <1>0, PlanIsPlanned
  <1>3. /\ so[0] = << >>
        /\ \A i \in 1..n : so[i] = so[i - 1] \o StepsFor(renames, existing, heads[i])
    BY <1>2 DEF Planned
  <1> HIDE DEF heads, n
  <1>4. ASSUME NEW head, IsHead(renames, head)
        PROVE  Works(StepsFor(renames, existing, head), renames, existing, Met(renames, head))
    <2>1. CASE head \in PureSources(renames)
      BY <2>1, ChainWorks DEF StepsFor
    <2>2. CASE head \notin PureSources(renames)
      <3>1. head \in CycleHeads(renames)
        BY <1>4, <2>2 DEF IsHead
      <3> QED
        BY <2>2, <3>1, CycleWorks DEF StepsFor
    <2> QED
      BY <2>1, <2>2
  <1> DEFINE bad == { i \in 0..n : ~Works(so[i], renames, existing, before(i)) }
  <1>5. bad = {}
    <2> SUFFICES ASSUME bad # {} PROVE FALSE
      OBVIOUS
    <2>1. PICK i \in bad : \A other \in bad : i <= other
      <3>1. bad \in SUBSET Nat
        OBVIOUS
      <3> HIDE DEF bad
      <3> QED
        BY <3>1, LeastNatural
    <2>2. i # 0
      <3>1. before(0) = {}
        OBVIOUS
      <3> HIDE DEF before
      <3>2. Works(<< >>, renames, existing, {})
        BY DEF Works, GoesBack, NamedOnce, GivesWhatIsFree, CarriesOut
      <3> QED
        BY <1>3, <2>1, <3>1, <3>2
    <2>3. i \in 1..n /\ i - 1 \in 0..n /\ ~(i <= i - 1)
      BY <1>1, <2>1, <2>2
    <2>4. Works(so[i - 1], renames, existing, before(i - 1))
      <3>1. i - 1 \notin bad
        <4> HIDE DEF bad
        <4> QED
          BY <2>1, <2>3
      <3> QED
        BY <2>3, <3>1
    <2>5. before(i - 1) \cap Met(renames, heads[i]) = {}
      <3> SUFFICES ASSUME NEW j \in 1..(i - 1),
                          Met(renames, heads[j]) \cap Met(renames, heads[i]) # {}
                   PROVE  FALSE
        OBVIOUS
      <3>1. j \in 1..n /\ j # i
        BY <1>1, <2>3
      <3>2. heads[j] # heads[i]
        BY <1>1, <2>3, <3>1
      <3> QED
        BY <1>1, <2>3, <3>1, <3>2, TrailsShareNothing
    <2>6. before(i) = before(i - 1) \cup Met(renames, heads[i])
      <3>1. Met(renames, heads[i]) \subseteq AllNames
        BY <1>1, <2>3, HeadFacts
      <3>2. 1..i = (1..(i - 1)) \cup { i }
        BY <2>3
      <3> QED
        BY <3>1, <3>2
    <2>7. Works(StepsFor(renames, existing, heads[i]), renames, existing, Met(renames, heads[i]))
      BY <1>1, <1>4, <2>3
    <2> HIDE DEF before
    <2>8. Works(so[i - 1] \o StepsFor(renames, existing, heads[i]), renames, existing,
                before(i - 1) \cup Met(renames, heads[i]))
      BY <2>4, <2>5, <2>7, JoinedWork
    <2>9. so[i] = so[i - 1] \o StepsFor(renames, existing, heads[i])
      BY <1>3, <2>3
    <2>10. Works(so[i], renames, existing, before(i))
      BY <2>6, <2>8, <2>9
    <2> QED
      BY <2>1, <2>10
  <1>6. Works(so[n], renames, existing, before(n))
    <2>1. n \in 0..n
      BY <1>1
    <2> HIDE DEF before
    <2> QED
      BY <1>5, <2>1
  <1>7. DOMAIN renames \subseteq before(n)
    <2> SUFFICES ASSUME NEW name \in DOMAIN renames PROVE name \in before(n)
      OBVIOUS
    <2>1. PICK head : IsHead(renames, head) /\ name \in Met(renames, head)
      BY EveryNameHasAHead
    <2>2. PICK i \in 1..n : heads[i] = head
      BY <1>1, <2>1
    <2>3. name \in AllNames
      BY <1>0 DEF Renaming
    <2> QED
      BY <2>1, <2>2, <2>3
  <1>8. before(n) \subseteq AllNames
    OBVIOUS
  <1> HIDE DEF before
  <1>9. CarriesOut(so[n], renames, existing, AllNames)
    <2>1. CarriesOut(so[n], renames, existing, before(n))
      BY <1>6 DEF Works
    <2> QED
      BY <1>7, <1>8, <2>1 DEF CarriesOut
  <1> QED
    BY <1>2, <1>6, <1>9 DEF Works

-----------------------------------------------------------------------------
(* A plan and the disk it is carried out on *)

\* The name under which step i finds its file once the first `done` are done.
Where(plan, results, done, i) ==
    IF plan[i].back = 0 THEN plan[i].from
    ELSE IF i - plan[i].back > done THEN plan[i - plan[i].back].from
    ELSE ResultOf(results, i - plan[i].back)

\* A step that is yet to be done, before i, takes away the name that i gives.
Vacated(plan, done, i) ==
    \E l \in (done + 1)..(i - 1) : plan[l].back = 0 /\ plan[l].from = plan[i].to

\* Each step ahead has its file, and the name it gives is or will be free.
ReadyAhead(left, right, plan, results, done) ==
    \A i \in (done + 1)..Len(plan) :
        LET at == Where(plan, results, done, i)
        IN  /\ at \in AllNames /\ left[at] # 0
            /\ ~plan[i].isBackup =>
                  /\ left[at] = right[plan[i].to]
                  /\ left[plan[i].to] = 0 \/ Vacated(plan, done, i)

\* No two steps ahead take one file, except a backup and the step that goes back to it.
ApartAhead(plan, results, done) ==
    \A i, j \in (done + 1)..Len(plan) :
        Where(plan, results, done, i) = Where(plan, results, done, j) =>
            \/ i = j
            \/ plan[j].back # 0 /\ i = j - plan[j].back
            \/ plan[i].back # 0 /\ j = i - plan[i].back

\* What was renamed stays: no step ahead takes it away.
DoneBehind(left, right, plan, results, done) ==
    \A i \in 1..done : ~plan[i].isBackup =>
        /\ left[plan[i].to] = right[plan[i].to] /\ right[plan[i].to] # 0
        /\ \A j \in (done + 1)..Len(plan) : Where(plan, results, done, j) # plan[i].to

Fits(left, right, plan, results, done) ==
    /\ done \in 0..Len(plan)
    /\ ReadyAhead(left, right, plan, results, done)
    /\ ApartAhead(plan, results, done)
    /\ DoneBehind(left, right, plan, results, done)

\* A plan that works fits the disk its renames are of.
LEMMA FitsAtFirst ==
    ASSUME NEW left \in Files, NEW right \in Files, NEW renames, NEW existing, NEW plan,
           Works(plan, renames, existing, AllNames),
           \A name \in DOMAIN renames : left[name] = right[renames[name]] /\ left[name] # 0,
           existing = { name \in AllNames : left[name] # 0 }
    PROVE  Fits(left, right, plan, NoResults, 0)
  <1> DEFINE n == Len(plan)
  <1>1. n \in Nat /\ plan \in Seq(PlanStep)
    BY DEF Works
  <1>2. \A i \in 1..n : plan[i] \in PlanStep /\ plan[i].back \in Nat
    BY <1>1 DEF PlanStep
  <1>3. \A i \in 1..n : plan[i].back # 0 =>
           /\ i - plan[i].back \in 1..n /\ i - plan[i].back > 0
           /\ plan[i - plan[i].back].back = 0
    BY <1>1, <1>2 DEF Works, GoesBack
  <1>4. \A i \in 1..n : Where(plan, NoResults, 0, i) = Origin(plan, i)
    BY <1>3 DEF Where, Origin
  <1>5. ReadyAhead(left, right, plan, NoResults, 0)
    <2> SUFFICES ASSUME NEW i \in 1..n
                 PROVE  LET at == Origin(plan, i)
                        IN  /\ at \in AllNames /\ left[at] # 0
                            /\ ~plan[i].isBackup =>
                                  /\ left[at] = right[plan[i].to]
                                  /\ left[plan[i].to] = 0 \/ Vacated(plan, 0, i)
      BY <1>4 DEF ReadyAhead
    <2>1. /\ Origin(plan, i) \in AllNames
          /\ IF plan[i].isBackup THEN Origin(plan, i) \in existing \cup DOMAIN renames
             ELSE /\ Origin(plan, i) \in DOMAIN renames /\ plan[i].to \in AllNames
                  /\ plan[i].to = renames[Origin(plan, i)]
      BY DEF Works, CarriesOut
    <2>2. left[Origin(plan, i)] # 0
      BY <2>1
    <2>3. ASSUME ~plan[i].isBackup PROVE left[plan[i].to] = 0 \/ Vacated(plan, 0, i)
      <3>1. \/ plan[i].to \notin existing
            \/ \E l \in 1..(i - 1) : plan[l].back = 0 /\ plan[l].from = plan[i].to
        BY <2>3 DEF Works, GivesWhatIsFree
      <3> QED
        BY <2>1, <2>3, <3>1 DEF Vacated
    <2> QED
      BY <2>1, <2>2, <2>3
  <1>6. ApartAhead(plan, NoResults, 0)
    <2> SUFFICES ASSUME NEW i \in 1..n, NEW j \in 1..n, Origin(plan, i) = Origin(plan, j)
                 PROVE  \/ i = j
                        \/ plan[j].back # 0 /\ i = j - plan[j].back
                        \/ plan[i].back # 0 /\ j = i - plan[i].back
      BY <1>4 DEF ApartAhead
    <2>1. \A a, b \in 1..n :
             plan[a].back = 0 /\ plan[b].back = 0 /\ plan[a].from = plan[b].from => a = b
      BY DEF Works, NamedOnce
    <2>2. \A a, b \in 1..n : plan[a].back # 0 /\ plan[b].back # 0
             /\ a - plan[a].back = b - plan[b].back => a = b
      BY DEF Works, GoesBack
    <2>3. CASE plan[i].back = 0 /\ plan[j].back = 0
      BY <2>1, <2>3 DEF Origin
    <2>4. CASE plan[i].back = 0 /\ plan[j].back # 0
      <3>1. plan[i].from = plan[j - plan[j].back].from
        BY <2>4 DEF Origin
      <3> QED
        BY <1>3, <2>1, <2>4, <3>1
    <2>5. CASE plan[i].back # 0 /\ plan[j].back = 0
      <3>1. plan[j].from = plan[i - plan[i].back].from
        BY <2>5 DEF Origin
      <3> QED
        BY <1>3, <2>1, <2>5, <3>1
    <2>6. CASE plan[i].back # 0 /\ plan[j].back # 0
      <3>1. plan[i - plan[i].back].from = plan[j - plan[j].back].from
        BY <2>6 DEF Origin
      <3>2. i - plan[i].back = j - plan[j].back
        BY <1>3, <2>1, <2>6, <3>1
      <3> QED
        BY <2>2, <2>6, <3>2
    <2> QED
      BY <2>3, <2>4, <2>5, <2>6
  <1>7. DoneBehind(left, right, plan, NoResults, 0)
    BY DEF DoneBehind
  <1> QED
    BY <1>1, <1>5, <1>6, <1>7 DEF Fits

\* The next step finds its file, and the name it gives free.
LEMMA NextIsReady ==
    ASSUME NEW left \in Files, NEW right \in Files, NEW plan \in Seq(PlanStep), NEW results,
           NEW done \in Nat, Fits(left, right, plan, results, done), done < Len(plan)
    PROVE  LET at == Where(plan, results, done, done + 1)
           IN  /\ at \in AllNames /\ left[at] # 0
               /\ ~plan[done + 1].isBackup =>
                     left[at] = right[plan[done + 1].to] /\ left[plan[done + 1].to] = 0
  <1>1. done + 1 \in (done + 1)..Len(plan)
    OBVIOUS
  <1>2. ~Vacated(plan, done, done + 1)
    BY DEF Vacated
  <1> QED
    BY <1>1, <1>2 DEF Fits, ReadyAhead

\* Once it has been done, the plan fits the disk as it is then.
LEMMA StepFits ==
    ASSUME NEW left \in Files, NEW right \in Files, NEW plan \in Seq(PlanStep), NEW results,
           NEW done \in Nat, Fits(left, right, plan, results, done),
           NEW k \in 1..Len(plan), k = done + 1, GoesBack(plan), NamedOnce(plan),
           NEW d \in AllNames, left[d] = 0,
           IF plan[k].isBackup THEN d \in Spare ELSE d = plan[k].to,
           \A name \in Spare : right[name] = 0,
           NEW s, s = Where(plan, results, done, k)
    PROVE  Fits([left EXCEPT ![s] = 0, ![d] = left[s]], right, plan, Noted(results, k, d), k)
  <1> DEFINE n == Len(plan)
             moved == [left EXCEPT ![s] = 0, ![d] = left[s]]
             W(j) == Where(plan, results, done, j)
             V(j) == Where(plan, Noted(results, k, d), k, j)
             User(j) == plan[j].back # 0 /\ j - plan[j].back = k
  <1>0. /\ n \in Nat /\ \A i \in 1..n : plan[i].back \in Nat
        /\ \A i \in (done + 1)..n : i \in 1..n
        /\ \A i \in (k + 1)..n : i \in (done + 1)..n /\ i \in 1..n /\ i # k /\ ~(i < k)
        /\ k \in (done + 1)..n
    BY DEF PlanStep
  <1>1. \A i \in (done + 1)..n : W(i) \in AllNames /\ left[W(i)] # 0 /\ W(i) # d
    BY DEF Fits, ReadyAhead
  <1>2. s \in AllNames /\ left[s] # 0 /\ s # d
    BY <1>0, <1>1
  <1>3. \A name \in AllNames :
           moved[name] = IF name = d THEN left[s] ELSE IF name = s THEN 0 ELSE left[name]
    BY <1>2 DEF Files
  <1>4. ASSUME NEW j \in (k + 1)..n PROVE V(j) = IF User(j) THEN d ELSE W(j)
    <2>1. ResultOf(Noted(results, k, d), k) = d
      BY DEF ResultOf, Noted
    <2>2. \A b : b # k => ResultOf(Noted(results, k, d), b) = ResultOf(results, b)
      BY DEF ResultOf, Noted
    <2>3. CASE plan[j].back = 0
      BY <2>3 DEF Where
    <2>4. CASE User(j)
      <3>1. V(j) = ResultOf(Noted(results, k, d), k)
        BY <2>4 DEF Where
      <3> QED
        BY <2>1, <2>4, <3>1
    <2>5. CASE plan[j].back # 0 /\ j - plan[j].back # k
      <3>1. j - plan[j].back > k <=> j - plan[j].back > done
        BY <1>0, <2>5
      <3> QED
        BY <2>2, <2>5, <3>1 DEF Where
    <2> QED
      BY <2>3, <2>4, <2>5
  <1>5. \A j \in (k + 1)..n : User(j) => /\ plan[k].isBackup /\ plan[k].back = 0
                                         /\ s = plan[k].from /\ W(j) = s
    <2> TAKE j \in (k + 1)..n
    <2> HAVE User(j)
    <2>1. plan[k].isBackup /\ plan[k].back = 0
      BY <1>0 DEF GoesBack
    <2>2. s = plan[k].from
      BY <2>1 DEF Where
    <2>3. k > done
      OBVIOUS
    <2> QED
      BY <2>1, <2>2, <2>3 DEF Where
  <1>6. \A j \in (k + 1)..n : ~User(j) => W(j) # s
    <2> SUFFICES ASSUME NEW j \in (k + 1)..n, ~User(j), W(k) = W(j) PROVE FALSE
      OBVIOUS
    <2>1. \/ k = j
          \/ plan[j].back # 0 /\ k = j - plan[j].back
          \/ plan[k].back # 0 /\ j = k - plan[k].back
      BY <1>0 DEF Fits, ApartAhead
    <2>2. j = k - plan[k].back => FALSE
      BY <1>0
    <2> QED
      BY <1>0, <2>1, <2>2
  <1>7. \A j \in (k + 1)..n : ~plan[j].isBackup => plan[j].to # d /\ plan[j].to \in AllNames
    <2> TAKE j \in (k + 1)..n
    <2> HAVE ~plan[j].isBackup
    <2>1. left[W(j)] = right[plan[j].to] /\ left[W(j)] # 0
      BY <1>0 DEF Fits, ReadyAhead
    <2>2. plan[j].to # d
      BY <1>0, <2>1 DEF NamedOnce
    <2>3. plan[j] \in PlanStep
      BY <1>0
    <2> QED
      BY <2>2, <2>3 DEF PlanStep
  <1> HIDE DEF moved, W, V, User
  <1>8. ReadyAhead(moved, right, plan, Noted(results, k, d), k)
    <2> SUFFICES ASSUME NEW j \in (k + 1)..n
                 PROVE  /\ V(j) \in AllNames /\ moved[V(j)] # 0
                        /\ ~plan[j].isBackup =>
                              /\ moved[V(j)] = right[plan[j].to]
                              /\ moved[plan[j].to] = 0 \/ Vacated(plan, k, j)
      BY DEF ReadyAhead, V
    <2>1. V(j) \in AllNames /\ moved[V(j)] = left[W(j)]
      <3>1. CASE User(j)
        BY <1>2, <1>3, <1>4, <1>5, <3>1
      <3>2. CASE ~User(j)
        BY <1>0, <1>1, <1>3, <1>4, <1>6, <3>2
      <3> QED
        BY <3>1, <3>2
    <2>2. ASSUME ~plan[j].isBackup
          PROVE  /\ left[W(j)] = right[plan[j].to]
                 /\ left[plan[j].to] = 0 \/ Vacated(plan, done, j)
      BY <1>0, <2>2 DEF Fits, ReadyAhead, W
    <2>3. ASSUME ~plan[j].isBackup PROVE moved[plan[j].to] = 0 \/ Vacated(plan, k, j)
      <3>1. plan[j].to # d /\ plan[j].to \in AllNames
        BY <1>7, <2>3
      <3>2. CASE left[plan[j].to] = 0
        BY <1>3, <3>1, <3>2
      <3>3. CASE Vacated(plan, done, j)
        <4>1. PICK l \in (done + 1)..(j - 1) : plan[l].back = 0 /\ plan[l].from = plan[j].to
          BY <3>3 DEF Vacated
        <4>2. CASE l = k
          <5>1. s = plan[j].to
            BY <4>1, <4>2 DEF Where
          <5> QED
            BY <1>3, <3>1, <5>1
        <4>3. CASE l # k
          <5>1. l \in (k + 1)..(j - 1)
            BY <4>3
          <5> QED
            BY <4>1, <5>1 DEF Vacated
        <4> QED
          BY <4>2, <4>3
      <3> QED
        BY <2>2, <2>3, <3>2, <3>3
    <2> QED
      BY <1>0, <1>1, <2>1, <2>2, <2>3
  <1>9. ApartAhead(plan, Noted(results, k, d), k)
    <2> SUFFICES ASSUME NEW i \in (k + 1)..n, NEW j \in (k + 1)..n, V(i) = V(j)
                 PROVE  \/ i = j
                        \/ plan[j].back # 0 /\ i = j - plan[j].back
                        \/ plan[i].back # 0 /\ j = i - plan[i].back
      BY DEF ApartAhead, V
    <2>1. CASE User(i) /\ User(j)
      <3>1. /\ plan[i].back # 0 /\ plan[j].back # 0 /\ i \in 1..n /\ j \in 1..n
            /\ i - plan[i].back = j - plan[j].back
        BY <1>0, <2>1 DEF User
      <3> QED
        BY <3>1 DEF GoesBack
    <2>2. CASE (User(i) /\ ~User(j)) \/ (User(j) /\ ~User(i))
      BY <1>0, <1>1, <1>4, <2>2
    <2>3. CASE ~User(i) /\ ~User(j)
      <3>1. W(i) = W(j)
        BY <1>4, <2>3
      <3> QED
        BY <1>0, <3>1 DEF Fits, ApartAhead, W
    <2> QED
      BY <2>1, <2>2, <2>3 DEF User
  <1>10. DoneBehind(moved, right, plan, Noted(results, k, d), k)
    <2> SUFFICES ASSUME NEW i \in 1..k, ~plan[i].isBackup
                 PROVE  /\ moved[plan[i].to] = right[plan[i].to] /\ right[plan[i].to] # 0
                        /\ \A j \in (k + 1)..n : V(j) # plan[i].to
      BY DEF DoneBehind, V
    <2>0. plan[i].to \in AllNames
      <3>1. plan[i] \in PlanStep
        BY <1>0
      <3> QED
        BY <3>1 DEF PlanStep
    <2>1. CASE i = k
      <3>1. left[s] = right[plan[k].to] /\ d = plan[k].to
        BY <1>0, <2>1 DEF Fits, ReadyAhead
      <3>2. \A j \in (k + 1)..n : ~User(j)
        BY <1>5, <2>1
      <3> QED
        BY <1>0, <1>1, <1>2, <1>3, <1>4, <2>0, <2>1, <3>1, <3>2
    <2>2. CASE i # k
      <3>1. i \in 1..done
        BY <2>2
      <3>2. /\ left[plan[i].to] = right[plan[i].to] /\ right[plan[i].to] # 0
            /\ \A j \in (done + 1)..n : W(j) # plan[i].to
        BY <3>1 DEF Fits, DoneBehind, W
      <3>3. plan[i].to # d /\ plan[i].to # s
        BY <1>0, <3>2 DEF W
      <3> QED
        BY <1>0, <1>3, <1>4, <2>0, <3>2, <3>3
    <2> QED
      BY <2>1, <2>2
  <1> QED
    BY <1>0, <1>8, <1>9, <1>10 DEF Fits, moved

-----------------------------------------------------------------------------
(* What a search finds *)

\* The four things a step of the system can do to the search.
KeepsSearch ==
    /\ search'.of = search.of /\ search'.running = search.running
    /\ search'.todo = search.todo /\ search'.existing = search.existing
    /\ search'.sums = search.sums /\ search'.matches = search.matches
    /\ search'.plan = search.plan

EndsSearch ==
    /\ search'.of = search.of /\ ~search'.running /\ AllHashed
    /\ search'.todo = search.todo /\ search'.existing = search.existing
    /\ search'.sums = search.sums /\ search'.matches = search.matches
    /\ search'.plan = BuildRenamePlan(Renames(search.matches), search.existing)

BeginsSearch(loop) ==
    /\ StartRequest(loop)
    /\ search'.of = loops[loop].pair /\ search'.running
    /\ search'.todo = Candidates(loops[loop].pair)
    /\ search'.existing = ExistingLeft(loops[loop].pair)
    /\ search'.sums = NoSums /\ search'.matches = [content \in Contents |-> NoMatch]
    /\ search'.plan = << >>

HashesName(side) ==
    LET name == Earliest(search.todo[side])
        content == disk[search.of][side][name]
    IN  /\ search.running /\ name \in search.todo[side]
        /\ search'.of = search.of /\ search'.running = search.running
        /\ search'.existing = search.existing /\ search'.plan = search.plan
        /\ search'.todo = [search.todo EXCEPT ![side] = @ \ { name }]
        /\ \/ search'.sums = search.sums
           \/ /\ content \in Contents
              /\ search'.sums = [search.sums EXCEPT ![side][content] = @ \cup { name }]

LEMMA StartBegins ==
    ASSUME Typed, NEW loop \in Loops, StartRequest(loop)
    PROVE  loops[loop].pair \in Pairs /\ BeginsSearch(loop)
  <1> DEFINE pair == loops[loop].pair
             candidates == Candidates(pair)
             existing == ExistingLeft(pair)
  <1>1. pair \in Pairs
    <2>1. loops[loop].phase = "posted" /\ loops[loop] \in LoopState
      BY DEF StartRequest, Typed
    <2> QED
      BY <2>1 DEF LoopState, Idle
  <1>2. search' = [NoSearch(pair) EXCEPT
                      !.running = TRUE, !.todo = candidates, !.existing = existing,
                      !.total = Cardinality(candidates.left) + Cardinality(candidates.right)]
    BY DEF StartRequest, StartSearch
  <1> HIDE DEF candidates, existing, pair
  <1>3. /\ search'.of = pair /\ search'.running
        /\ search'.todo = candidates /\ search'.existing = existing
        /\ search'.sums = NoSums /\ search'.matches = [content \in Contents |-> NoMatch]
        /\ search'.plan = << >>
    BY <1>2 DEF NoSearch
  <1> QED
    BY <1>1, <1>3 DEF BeginsSearch, pair, candidates, existing

LEMMA SearchWrites ==
    ASSUME Typed, [Next]_vars
    PROVE  \/ KeepsSearch \/ EndsSearch
           \/ \E loop \in Loops : loops[loop].pair \in Pairs /\ BeginsSearch(loop)
           \/ \E side \in Sides : HashesName(side)
  <1>1. search \in SearchState
    BY DEF Typed
  <1>2. CASE UNCHANGED << search, leftovers >>
    BY <1>2 DEF KeepsSearch
  <1>3. CASE SearchEnds
    <2> DEFINE plan == BuildRenamePlan(Renames(search.matches), search.existing)
    <2>1. search' = [search EXCEPT !.running = FALSE, !.plan = plan] /\ AllHashed
      BY <1>3 DEF SearchEnds
    <2> HIDE DEF plan
    <2>2. /\ search'.of = search.of /\ ~search'.running
          /\ search'.todo = search.todo /\ search'.existing = search.existing
          /\ search'.sums = search.sums /\ search'.matches = search.matches
          /\ search'.plan = plan
      BY <1>1, <2>1 DEF SearchState
    <2> QED
      BY <2>1, <2>2 DEF EndsSearch, plan
  <1>4. CASE AbortedReadEnds
    <2>1. search' \in { search, [search EXCEPT !.hashed = @ + 1] }
      BY <1>4 DEF AbortedReadEnds
    <2> QED
      BY <1>1, <2>1 DEF SearchState, KeepsSearch
  <1>5. ASSUME NEW loop \in Loops, StartRequest(loop)
        PROVE  loops[loop].pair \in Pairs /\ BeginsSearch(loop)
    BY <1>5, StartBegins
  <1>6. ASSUME NEW side \in Sides, HashNext(side) PROVE HashesName(side)
    <2> DEFINE name == Earliest(search.todo[side])
               content == disk[search.of][side][name]
               Counted(found) == [found EXCEPT !.todo[side] = @ \ { name }, !.hashed = @ + 1]
               recorded == RecordHashedName(side, name, content)
               sums == [search.sums EXCEPT ![side][content] = @ \cup { name }]
    <2>1. /\ name \in AllNames
          /\ \/ content \in Contents /\ search' = Counted(recorded)
             \/ search' = Counted(search)
      BY <1>6, HashNextFacts
    <2>2. search.running /\ name \in search.todo[side]
      <3>1. search.running /\ search.todo[side] # {}
        BY <1>6 DEF HashNext
      <3>2. search.todo[side] \in SUBSET Nat
        BY <1>1, NumberedNames DEF SearchState
      <3> QED
        BY <3>1, <3>2, EarliestIsLeast
    <2>3. ASSUME NEW found \in SearchState, search' = Counted(found), found.of = search.of,
                 found.running = search.running, found.existing = search.existing,
                 found.plan = search.plan, found.todo = search.todo
          PROVE  /\ search'.of = search.of /\ search'.running = search.running
                 /\ search'.existing = search.existing /\ search'.plan = search.plan
                 /\ search'.todo = [search.todo EXCEPT ![side] = @ \ { name }]
                 /\ search'.sums = found.sums
      <3> DEFINE todo == [found.todo EXCEPT ![side] = @ \ { name }]
                 hashed == found.hashed + 1
      <3>1. search' = [found EXCEPT !.todo = todo, !.hashed = hashed]
        BY <2>3 DEF SearchState
      <3>2. todo = [search.todo EXCEPT ![side] = @ \ { name }]
        BY <2>3
      <3> HIDE DEF todo, hashed, Counted
      <3>3. /\ search'.of = found.of /\ search'.running = found.running
            /\ search'.existing = found.existing /\ search'.plan = found.plan
            /\ search'.todo = todo /\ search'.sums = found.sums
        BY <3>1 DEF SearchState
      <3> QED
        BY <2>3, <3>2, <3>3
    <2>4. CASE search' = Counted(search)
      BY <1>1, <2>2, <2>3, <2>4 DEF HashesName
    <2>5. CASE content \in Contents /\ search' = Counted(recorded)
      <3> HIDE DEF name, content
      <3>1. recorded \in SearchState
        BY <1>1, <2>1, <2>5, RecordedSums
      <3>2. /\ recorded.of = search.of /\ recorded.running = search.running
            /\ recorded.existing = search.existing /\ recorded.plan = search.plan
            /\ recorded.todo = search.todo /\ recorded.sums = sums
        <4> DEFINE matches == [search.matches EXCEPT ![content] =
                     IF \A other \in Sides : sums[other][content] # {}
                       THEN BestMatch(sums, content) ELSE @]
        <4>1. recorded = [search EXCEPT !.sums = sums, !.matches = matches]
          BY <1>1 DEF RecordHashedName, SearchState
        <4> HIDE DEF sums, matches, recorded
        <4> QED
          BY <1>1, <4>1 DEF SearchState
      <3> HIDE DEF recorded, sums, Counted
      <3>3. /\ search'.of = search.of /\ search'.running = search.running
            /\ search'.existing = search.existing /\ search'.plan = search.plan
            /\ search'.todo = [search.todo EXCEPT ![side] = @ \ { name }]
            /\ search'.sums = recorded.sums
        BY <2>3, <2>5, <3>1, <3>2
      <3> QED
        BY <2>2, <2>5, <3>2, <3>3 DEF HashesName, name, content, sums
    <2> QED
      BY <2>1, <2>4, <2>5
  <1> QED
    BY <1>2, <1>3, <1>4, <1>5, <1>6, Writers

\* A name is hashed once: it is among the names of one content, and no longer to do.
SumsApart ==
    \A side \in Sides, content \in Contents :
        /\ search.sums[side][content] \cap search.todo[side] = {}
        /\ \A other \in Contents \ { content } :
              search.sums[side][content] \cap search.sums[side][other] = {}

LEMMA SumsStayApart ==
    ASSUME Typed, SumsApart, [Next]_vars
    PROVE  SumsApart'
  <1>1. search \in SearchState
    BY DEF Typed
  <1>2. CASE KeepsSearch \/ EndsSearch
    BY <1>2 DEF SumsApart, KeepsSearch, EndsSearch
  <1>3. ASSUME NEW loop \in Loops, BeginsSearch(loop) PROVE SumsApart'
    <2>1. search'.sums = NoSums
      BY <1>3 DEF BeginsSearch
    <2> QED
      BY <2>1 DEF SumsApart, NoSums
  <1>4. ASSUME NEW side \in Sides, HashesName(side) PROVE SumsApart'
    <2> DEFINE name == Earliest(search.todo[side])
               content == disk[search.of][side][name]
    <2>1. /\ name \in search.todo[side]
          /\ search'.todo = [search.todo EXCEPT ![side] = @ \ { name }]
          /\ \/ search'.sums = search.sums
             \/ /\ content \in Contents
                /\ search'.sums = [search.sums EXCEPT ![side][content] = @ \cup { name }]
      BY <1>4 DEF HashesName
    <2> HIDE DEF name, content
    <2>2. /\ search.todo \in [Sides -> SUBSET AllNames]
          /\ search.sums \in [Sides -> [Contents -> SUBSET AllNames]]
      BY <1>1 DEF SearchState
    <2>3. ASSUME NEW s \in Sides
          PROVE search'.todo[s] = IF s = side THEN search.todo[s] \ { name } ELSE search.todo[s]
      BY <2>1, <2>2
    <2>4. ASSUME NEW s \in Sides, NEW c \in Contents
          PROVE  \/ search'.sums[s][c] = search.sums[s][c]
                 \/ /\ s = side /\ c = content
                    /\ search'.sums[s][c] = search.sums[s][c] \cup { name }
      BY <2>1, <2>2
    <2> SUFFICES ASSUME NEW s \in Sides, NEW c \in Contents
                 PROVE  /\ search'.sums[s][c] \cap search'.todo[s] = {}
                        /\ \A other \in Contents \ { c } :
                              search'.sums[s][c] \cap search'.sums[s][other] = {}
      BY DEF SumsApart
    <2>5. search.sums[s][c] \cap search.todo[s] = {}
      BY DEF SumsApart
    <2>6. search'.sums[s][c] \cap search'.todo[s] = {}
      BY <2>3, <2>4, <2>5
    <2>7. ASSUME NEW other \in Contents \ { c }
          PROVE  search'.sums[s][c] \cap search'.sums[s][other] = {}
      <3>1. /\ search.sums[s][other] \cap search.todo[s] = {}
            /\ search.sums[s][c] \cap search.sums[s][other] = {}
        BY DEF SumsApart
      <3> QED
        BY <2>1, <2>4, <2>5, <3>1
    <2> QED
      BY <2>6, <2>7
  <1> QED
    BY <1>2, <1>3, <1>4, SearchWrites

LEMMA ApartAtFirst == Init => SumsApart
  <1> SUFFICES ASSUME Init PROVE SumsApart
    OBVIOUS
  <1>1. PICK begin \in Initial : search = NoSearch(begin.pair)
    BY DEF Init
  <1>2. search.sums = NoSums
    BY <1>1 DEF NoSearch
  <1> QED
    BY <1>2 DEF SumsApart, NoSums

\* Each match is of a left and a right name of its content.
MatchesSay(matches, sums) ==
    \A content \in Contents : matches[content] # NoMatch =>
        /\ matches[content] \in AllNames \X AllNames
        /\ matches[content][1] \in sums["left"][content]
        /\ matches[content][2] \in sums["right"][content]

LEMMA MatchesAreOfSums ==
    ASSUME Typed, MatchesFollow
    PROVE  MatchesSay(search.matches, search.sums)
  <1> SUFFICES ASSUME NEW content \in Contents, search.matches[content] # NoMatch
               PROVE  /\ search.matches[content] \in AllNames \X AllNames
                      /\ search.matches[content][1] \in search.sums["left"][content]
                      /\ search.matches[content][2] \in search.sums["right"][content]
    BY DEF MatchesSay
  <1> DEFINE l == search.sums["left"][content]
             r == search.sums["right"][content]
  <1>1. "left" \in Sides /\ "right" \in Sides
    BY DEF Sides
  <1>2. /\ \A side \in Sides : search.sums[side][content] # {}
        /\ search.matches[content] = BestMatch(search.sums, content)
    BY DEF MatchesFollow
  <1>3. l \in SUBSET AllNames /\ l # {} /\ r \in SUBSET AllNames /\ r # {}
    BY <1>1, <1>2 DEF Typed, SearchState
  <1>4. \A names \in SUBSET AllNames : names # {} => Earliest(names) \in names
    <2> TAKE names \in SUBSET AllNames
    <2>1. names \in SUBSET Nat
      BY NumberedNames
    <2> QED
      BY <2>1, EarliestIsLeast
  <1>5. Earliest(l) \in l /\ Earliest(r) \in r
    BY <1>3, <1>4
  <1>6. search.matches[content] = << Earliest(l), Earliest(r) >>
    BY <1>2 DEF BestMatch
  <1> HIDE DEF l, r
  <1>7. /\ search.matches[content] \in AllNames \X AllNames
        /\ search.matches[content][1] \in l /\ search.matches[content][2] \in r
    BY <1>3, <1>5, <1>6
  <1> QED
    BY <1>7 DEF l, r

\* The renames are those of the matches, one-to-one.
LEMMA RenamesFacts ==
    ASSUME Typed, SumsApart, MatchesFollow
    PROVE  LET renames == Renames(search.matches)
           IN  /\ OneToOne(renames)
               /\ \A content \in Contents : search.matches[content] # NoMatch =>
                     /\ search.matches[content][1] \in DOMAIN renames
                     /\ renames[search.matches[content][1]] = search.matches[content][2]
               /\ \A name \in DOMAIN renames : \E content \in Contents :
                     /\ search.matches[content] # NoMatch
                     /\ search.matches[content][1] = name
                     /\ search.matches[content][2] = renames[name]
  <1> DEFINE matches == search.matches
             found == { matches[content] : content \in Contents } \ { NoMatch }
             sources == { match[1] : match \in found }
             Of(name) == CHOOSE match \in found : match[1] = name
             renames == Renames(matches)
  <1>1. MatchesSay(matches, search.sums) /\ matches \in [Contents -> Match]
    BY MatchesAreOfSums DEF Typed, SearchState
  <1>2. Renaming(renames)
    BY <1>1, RenamesAreRenaming
  <1>3. renames = [name \in sources |-> Of(name)[2]]
    BY DEF Renames
  <1>4. "left" \in Sides /\ "right" \in Sides
    BY DEF Sides
  <1>5. ASSUME NEW a \in Contents, NEW b \in Contents, matches[a] # NoMatch, matches[b] # NoMatch,
               matches[a][1] = matches[b][1] \/ matches[a][2] = matches[b][2]
        PROVE  a = b
    <2>1. /\ matches[a][1] \in search.sums["left"][a] /\ matches[a][2] \in search.sums["right"][a]
          /\ matches[b][1] \in search.sums["left"][b] /\ matches[b][2] \in search.sums["right"][b]
      BY <1>1, <1>5 DEF MatchesSay
    <2>2. a # b => /\ search.sums["left"][a] \cap search.sums["left"][b] = {}
                   /\ search.sums["right"][a] \cap search.sums["right"][b] = {}
      BY <1>4 DEF SumsApart
    <2> QED
      BY <1>5, <2>1, <2>2
  <1> HIDE DEF NoMatch
  <1>6. ASSUME NEW name \in sources
        PROVE  \E content \in Contents : /\ matches[content] # NoMatch
                                         /\ matches[content] = Of(name) /\ Of(name)[1] = name
    <2>1. \E match \in found : match[1] = name
      OBVIOUS
    <2>2. Of(name) \in found /\ Of(name)[1] = name
      <3> HIDE DEF found
      <3> QED
        BY <2>1
    <2> QED
      BY <2>2
  <1>7. ASSUME NEW content \in Contents, matches[content] # NoMatch
        PROVE  /\ matches[content][1] \in sources
               /\ Of(matches[content][1])[2] = matches[content][2]
    <2>1. matches[content] \in found
      BY <1>7
    <2>2. matches[content][1] \in sources
      BY <2>1
    <2>3. PICK c \in Contents : /\ matches[c] # NoMatch
                                /\ matches[c] = Of(matches[content][1])
                                /\ Of(matches[content][1])[1] = matches[content][1]
      BY <1>6, <2>2
    <2> HIDE DEF Of, found, matches
    <2>4. c = content
      BY <1>5, <1>7, <2>3
    <2> QED
      BY <2>2, <2>3, <2>4
  <1> HIDE DEF Of, sources, found, matches, renames
  <1>8. \A name \in DOMAIN renames : \E content \in Contents :
           /\ matches[content] # NoMatch
           /\ matches[content][1] = name /\ matches[content][2] = renames[name]
    BY <1>3, <1>6
  <1>9. \A content \in Contents : matches[content] # NoMatch =>
           /\ matches[content][1] \in DOMAIN renames
           /\ renames[matches[content][1]] = matches[content][2]
    BY <1>3, <1>7
  <1>10. \A a, b \in DOMAIN renames : renames[a] = renames[b] => a = b
    BY <1>5, <1>8
  <1> QED
    BY <1>2, <1>8, <1>9, <1>10 DEF OneToOne, matches, renames

\* An ended search shows the plan of what it found.
PlanOfMatches ==
    ~search.running =>
        \/ search.plan = BuildRenamePlan(Renames(search.matches), search.existing)
        \/ search.plan = << >> /\ \A content \in Contents : search.matches[content] = NoMatch

LEMMA PlanOfMatchesStays ==
    ASSUME Typed, PlanOfMatches, [Next]_vars
    PROVE  PlanOfMatches'
  <1>1. CASE KeepsSearch
    BY <1>1 DEF PlanOfMatches, KeepsSearch
  <1>2. CASE EndsSearch
    BY <1>2 DEF PlanOfMatches, EndsSearch
  <1>3. ASSUME NEW loop \in Loops, BeginsSearch(loop) PROVE PlanOfMatches'
    BY <1>3 DEF PlanOfMatches, BeginsSearch
  <1>4. ASSUME NEW side \in Sides, HashesName(side) PROVE PlanOfMatches'
    BY <1>4 DEF PlanOfMatches, HashesName
  <1> QED
    BY <1>1, <1>2, <1>3, <1>4, SearchWrites

LEMMA PlanOfMatchesAtFirst == Init => PlanOfMatches
  <1> SUFFICES ASSUME Init PROVE PlanOfMatches
    OBVIOUS
  <1>1. PICK begin \in Initial : search = NoSearch(begin.pair)
    BY DEF Init
  <1> QED
    BY <1>1 DEF PlanOfMatches, NoSearch

\* What is known of the search in every state.
SearchIsSound == Typed /\ MatchesFollow /\ SumsApart /\ PlanOfMatches

LEMMA SearchStaysSound == SearchIsSound /\ [Next]_vars => SearchIsSound'
  BY TypedStays, FollowStays, SumsStayApart, PlanOfMatchesStays DEF SearchIsSound

LEMMA SearchSoundAtFirst == Init => SearchIsSound
  BY TypedAtFirst, FollowAtFirst, ApartAtFirst, PlanOfMatchesAtFirst DEF SearchIsSound

\* The plan of an ended search carries out its matches and works.
LEMMA SearchesPlan ==
    ASSUME SearchIsSound, ~search.running
    PROVE  \/ Works(search.plan, Renames(search.matches), search.existing, AllNames)
           \/ search.plan = << >> /\ \A content \in Contents : search.matches[content] = NoMatch
  <1>1. OneToOne(Renames(search.matches))
    BY RenamesFacts DEF SearchIsSound
  <1>2. Works(BuildRenamePlan(Renames(search.matches), search.existing),
              Renames(search.matches), search.existing, AllNames)
    BY <1>1, PlanOfAllWorks
  <1> QED
    BY <1>2 DEF SearchIsSound, PlanOfMatches

LEMMA MatchesArePlanned == SearchIsSound => EveryMatchIsPlanned
  <1> SUFFICES ASSUME SearchIsSound, ~search.running,
                      NEW content \in Contents, search.matches[content] # NoMatch
               PROVE  \E i \in DOMAIN search.plan :
                        LET step == search.plan[i]
                            first == IF step.back = 0 THEN step ELSE search.plan[i - step.back]
                        IN  << first.from, step.to >> = search.matches[content]
    BY DEF EveryMatchIsPlanned
  <1> DEFINE renames == Renames(search.matches)
             match == search.matches[content]
  <1>1. match \in AllNames \X AllNames
    BY MatchesAreOfSums DEF SearchIsSound, MatchesSay
  <1>2. match[1] \in DOMAIN renames /\ renames[match[1]] = match[2]
    BY RenamesFacts DEF SearchIsSound
  <1>3. Works(search.plan, renames, search.existing, AllNames)
    BY SearchesPlan
  <1> HIDE DEF renames, match
  <1>4. PICK i \in 1..Len(search.plan) :
           ~search.plan[i].isBackup /\ Origin(search.plan, i) = match[1]
    BY <1>1, <1>2, <1>3 DEF Works, CarriesOut
  <1>5. search.plan[i].to = match[2]
    BY <1>2, <1>3, <1>4 DEF Works, CarriesOut
  <1>6. DOMAIN search.plan = 1..Len(search.plan)
    BY <1>3 DEF Works
  <1>7. match = << match[1], match[2] >>
    BY <1>1
  <1> QED
    BY <1>4, <1>5, <1>6, <1>7 DEF Origin, match

\* EveryMatchIsPlanned: buildRenamePlan leaves out no match the search found.
THEOREM EveryMatchIsPlannedHolds == Spec => []EveryMatchIsPlanned
  BY SearchSoundAtFirst, SearchStaysSound, MatchesArePlanned, PTL DEF Spec

-----------------------------------------------------------------------------
(* The plans the page shows are those of searches *)

\* A plan that goes back to its own backups and names nothing twice.
PlanIsSound(plan) == GoesBack(plan) /\ NamedOnce(plan)

PlansAreSound ==
    /\ PlanIsSound(search.plan) /\ PlanIsSound(page.plan)
    /\ \A loop \in Loops :
          loops[loop].phase = "answered" => PlanIsSound(loops[loop].status.plan)

LEMMA NoPlanIsSound == PlanIsSound(<< >>)
  BY DEF PlanIsSound, GoesBack, NamedOnce

LEMMA PlansStaySound ==
    ASSUME SearchIsSound, PlansAreSound, [Next]_vars
    PROVE  PlansAreSound'
  <1>0. Typed
    BY DEF SearchIsSound
  <1>1. PlanIsSound(search'.plan)
    <2>1. CASE EndsSearch
      <3>1. OneToOne(Renames(search.matches))
        BY RenamesFacts DEF SearchIsSound
      <3>2. Works(search'.plan, Renames(search.matches), search.existing, AllNames)
        BY <2>1, <3>1, PlanOfAllWorks DEF EndsSearch
      <3> QED
        BY <3>2 DEF Works, PlanIsSound
    <2>2. ASSUME search'.plan = search.plan PROVE PlanIsSound(search'.plan)
      BY <2>2 DEF PlansAreSound
    <2>3. ASSUME search'.plan = << >> PROVE PlanIsSound(search'.plan)
      BY <2>3, NoPlanIsSound
    <2> QED
      BY <1>0, <2>1, <2>2, <2>3, SearchWrites DEF KeepsSearch, BeginsSearch, HashesName
  <1>2. PlanIsSound(page'.plan)
    <2>1. page \in PageState
      BY <1>0 DEF Typed
    <2>2. ASSUME page'.plan = page.plan PROVE PlanIsSound(page'.plan)
      BY <2>2 DEF PlansAreSound
    <2>3. ASSUME page'.plan = << >> PROVE PlanIsSound(page'.plan)
      BY <2>3, NoPlanIsSound
    <2>4. ASSUME NEW loop \in Loops, ApplyStatus(loop) PROVE PlanIsSound(page'.plan)
      <3>1. PlanIsSound(loops[loop].status.plan)
        BY <2>4 DEF ApplyStatus, PlansAreSound
      <3>2. page'.plan = page.plan \/ page'.plan = loops[loop].status.plan
        BY <2>1, <2>4 DEF ApplyStatus, PageState
      <3> QED
        BY <2>2, <3>1, <3>2
    <2>5. ASSUME NEW loop \in Loops,
                 FindChecksumMatches(loop) \/ StartFails(loop) \/ StatusFails(loop)
          PROVE  PlanIsSound(page'.plan)
      <3>1. page'.plan = page.plan \/ page'.plan = << >>
        BY <2>1, <2>5 DEF FindChecksumMatches, Emptied, StartFails, StatusFails, PageState
      <3> QED
        BY <2>2, <2>3, <3>1
    <2>6. CASE Close \/ StepAnswered \/ \E pair \in Pairs : Navigate(pair)
      BY <2>1, <2>2, <2>6 DEF Close, StepAnswered, Navigate, PageState
    <2> QED
      BY <2>2, <2>4, <2>5, <2>6, Writers
  <1>3. ASSUME NEW loop \in Loops, loops'[loop].phase = "answered"
        PROVE  PlanIsSound(loops'[loop].status.plan)
    <2>1. loops \in [Loops -> LoopState] /\ Idle.phase = "none"
      BY <1>0 DEF Typed, Idle
    <2>2. ASSUME loops'[loop] = loops[loop] PROVE PlanIsSound(loops'[loop].status.plan)
      BY <1>3, <2>2 DEF PlansAreSound
    <2>3. ASSUME NEW l \in Loops,
                 FindChecksumMatches(l) \/ LoopStep(l) \/ StartFails(l) \/ StatusFails(l),
                 loops'[loop] # loops[loop]
          PROVE  PlanIsSound(loops'[loop].status.plan)
      <3>1. ASSUME NEW state, loops' = [loops EXCEPT ![l] = state] PROVE loops'[loop] = state
        BY <2>1, <2>3, <3>1
      <3>2. CASE StatusRequest(l)
        <4>1. loops'[loop] = [phase |-> "answered", status |-> Status]
          BY <3>1, <3>2 DEF StatusRequest
        <4> QED
          BY <4>1 DEF Status, PlansAreSound
      <3>3. CASE Continue(l)
        <4> DEFINE state == IF ~page.open THEN Idle
                            ELSE IF loops[l].phase = "started" THEN [phase |-> "asleep"]
                            ELSE [phase |-> "asking"]
        <4>1. loops' = [loops EXCEPT ![l] = state]
          BY <2>1, <3>3 DEF Continue
        <4>2. loops'[loop] = state
          BY <3>1, <4>1
        <4> QED
          BY <1>3, <2>1, <4>2
      <3>4. CASE FindChecksumMatches(l) \/ StartRequest(l) \/ ApplyStatus(l) \/ StartFails(l)
                   \/ StatusFails(l)
        <4>1. \/ loops' = [loops EXCEPT ![l] = [phase |-> "posted", pair |-> page.pair]]
              \/ loops' = [loops EXCEPT ![l] = [phase |-> "started"]]
              \/ loops' = [loops EXCEPT ![l] = Idle]
          BY <3>4 DEF FindChecksumMatches, StartRequest, ApplyStatus, StartFails, StatusFails
        <4> QED
          BY <1>3, <2>1, <3>1, <4>1
      <3> QED
        BY <2>3, <3>2, <3>3, <3>4 DEF LoopStep
    <2> QED
      BY <2>2, <2>3, Writers
  <1> QED
    BY <1>1, <1>2, <1>3 DEF PlansAreSound

LEMMA PlansSoundAtFirst == Init => PlansAreSound
  <1> SUFFICES ASSUME Init PROVE PlansAreSound
    OBVIOUS
  <1>1. search.plan = << >> /\ page.plan = << >> /\ \A loop \in Loops : loops[loop].phase = "none"
    BY DEF Init, NoSearch, Idle
  <1> QED
    BY <1>1, NoPlanIsSound DEF PlansAreSound

-----------------------------------------------------------------------------
(* One search at a time, and no rename beside it *)

OneSearch == \A a, b \in Loops : loops[a] # Idle /\ loops[b] # Idle => a = b

LoopsInStep ==
    \A loop \in Loops : loops[loop] # Idle =>
        /\ executor = Idle /\ page.searching
        /\ IF loops[loop].phase = "posted" THEN loops[loop].pair = page.pair
                                           ELSE search.of = page.pair
        /\ loops[loop].phase = "answered" =>
              /\ loops[loop].status.of = page.pair
              /\ ~loops[loop].status.running =>
                    ~search.running /\ loops[loop].status.plan = search.plan

PageInStep ==
    /\ page.open => page.planOf = page.pair
    /\ page.searching => page.plan = << >> /\ page.completed = 0

ExecutorInStep ==
    executor # Idle =>
        /\ ~page.searching /\ executor.plan = page.plan /\ executor.results = page.results
        /\ executor.pair = page.planOf
        /\ executor.at = IF executor.phase = "refetch" THEN page.completed ELSE page.completed + 1

InStep == OneSearch /\ LoopsInStep /\ PageInStep /\ ExecutorInStep

\* What a step that starts no search leaves of the search.
LEMMA SearchRests ==
    ASSUME Typed, [Next]_vars, \A loop \in Loops : ~StartRequest(loop)
    PROVE  /\ search'.of = search.of
           /\ ~search.running => ~search'.running /\ search'.plan = search.plan
  <1>1. KeepsSearch \/ EndsSearch \/ \E side \in Sides : HashesName(side)
    BY SearchWrites DEF BeginsSearch
  <1> QED
    BY <1>1 DEF KeepsSearch, EndsSearch, HashesName, AllHashed

LEMMA LoopPhases ==
    ASSUME Typed
    PROVE  \A loop \in Loops : loops[loop] = Idle <=> loops[loop].phase = "none"
  <1>1. \A loop \in Loops : loops[loop] \in LoopState
    BY DEF Typed
  <1> QED
    BY <1>1 DEF LoopState, Idle

LEMMA ExecutorPhases ==
    ASSUME Typed
    PROVE  /\ executor = Idle <=> executor.phase = "none"
           /\ executor # Idle => executor \in ExecutorState
  BY DEF Typed, ExecutorState, Idle

\* A step of the one loop that is under way.
LEMMA LoopStepsInStep ==
    ASSUME Typed, InStep, [Next]_vars, NEW loop \in Loops,
           LoopStep(loop) \/ StartFails(loop) \/ StatusFails(loop)
    PROVE  InStep'
  <1>0. /\ loops \in [Loops -> LoopState] /\ page \in PageState /\ Idle.phase = "none"
        /\ loops[loop] \in LoopState
    BY DEF Typed, Idle
  <1>1. loops[loop] # Idle
    BY <1>0 DEF LoopStep, StartFails, StatusFails, StartRequest, Continue, StatusRequest,
                ApplyStatus
  <1>2. /\ \A other \in Loops \ { loop } : loops[other] = Idle
        /\ executor = Idle /\ page.searching
        /\ page.plan = << >> /\ page.completed = 0
    BY <1>1 DEF InStep, OneSearch, LoopsInStep, PageInStep
  <1>3. executor' = Idle
    BY <1>2 DEF LoopStep, StartFails, StatusFails, StartRequest, Continue, StatusRequest,
                ApplyStatus
  <1>4. ExecutorInStep'
    BY <1>3 DEF ExecutorInStep, Idle
  <1>5. ASSUME NEW state, loops' = [loops EXCEPT ![loop] = state]
        PROVE  loops'[loop] = state /\ \A other \in Loops \ { loop } : loops'[other] = Idle
    BY <1>0, <1>2, <1>5
  <1>6. ASSUME loops' = [loops EXCEPT ![loop] = Idle] PROVE OneSearch' /\ LoopsInStep'
    <2>1. \A other \in Loops : loops'[other] = Idle
      BY <1>5, <1>6
    <2> QED
      BY <2>1 DEF OneSearch, LoopsInStep, Idle
  <1>7. ASSUME NEW state, loops' = [loops EXCEPT ![loop] = state], page' = page,
               IF state.phase = "posted" THEN state.pair = page.pair ELSE search'.of = page.pair,
               state.phase = "answered" =>
                  /\ state.status.of = page.pair
                  /\ ~state.status.running => ~search'.running /\ state.status.plan = search'.plan
        PROVE  InStep'
    <2>1. loops'[loop] = state /\ \A other \in Loops \ { loop } : loops'[other] = Idle
      BY <1>5, <1>7
    <2>2. OneSearch'
      <3>1. \A other \in Loops : loops'[other] # Idle => other = loop
        BY <2>1
      <3> QED
        BY <3>1 DEF OneSearch, Idle
    <2>3. LoopsInStep'
      <3>1. ASSUME NEW other \in Loops, loops'[other] # Idle PROVE loops'[other] = state
        BY <2>1, <3>1
      <3>2. \A other \in Loops : loops'[other] # Idle =>
              /\ executor' = Idle /\ page'.searching
              /\ IF loops'[other].phase = "posted" THEN loops'[other].pair = page'.pair
                                                   ELSE search'.of = page'.pair
              /\ loops'[other].phase = "answered" =>
                    /\ loops'[other].status.of = page'.pair
                    /\ ~loops'[other].status.running =>
                          ~search'.running /\ loops'[other].status.plan = search'.plan
        BY <1>2, <1>3, <1>7, <3>1
      <3> QED
        BY <3>2 DEF LoopsInStep, Idle
    <2>4. PageInStep'
      BY <1>7 DEF InStep, PageInStep
    <2> QED
      BY <1>4, <2>2, <2>3, <2>4 DEF InStep
  <1>8. CASE StartRequest(loop)
    <2>1. loops[loop].phase = "posted" /\ loops[loop].pair = page.pair
      BY <1>1, <1>8 DEF StartRequest, InStep, LoopsInStep
    <2>2. search'.of = page.pair
      BY <1>8, <2>1, StartBegins DEF BeginsSearch
    <2>3. loops' = [loops EXCEPT ![loop] = [phase |-> "started"]] /\ page' = page
      BY <1>8 DEF StartRequest
    <2> QED
      BY <1>7, <2>2, <2>3
  <1>9. ASSUME loops[loop].phase # "posted", search' = search
        PROVE  search'.of = page.pair
    BY <1>1, <1>9 DEF InStep, LoopsInStep
  <1>10. CASE Continue(loop)
    <2> DEFINE state == IF loops[loop].phase = "started" THEN [phase |-> "asleep"]
                        ELSE [phase |-> "asking"]
    <2>1. loops[loop].phase # "posted" /\ search' = search /\ page' = page
      BY <1>10 DEF Continue
    <2>2. CASE ~page.open
      <3>1. loops' = [loops EXCEPT ![loop] = Idle]
        BY <1>10, <2>2 DEF Continue
      <3>2. OneSearch' /\ LoopsInStep'
        BY <1>6, <3>1
      <3>3. PageInStep'
        BY <2>1 DEF InStep, PageInStep
      <3> QED
        BY <1>4, <3>2, <3>3 DEF InStep
    <2>3. CASE page.open
      <3>1. loops' = [loops EXCEPT ![loop] = state]
        BY <1>0, <1>10, <2>3 DEF Continue
      <3>2. state.phase \in { "asleep", "asking" }
        OBVIOUS
      <3> HIDE DEF state
      <3> QED
        BY <1>7, <1>9, <2>1, <3>1, <3>2
    <2> QED
      BY <2>2, <2>3
  <1>11. CASE StatusRequest(loop)
    <2>1. loops[loop].phase # "posted" /\ search' = search /\ page' = page
      BY <1>11 DEF StatusRequest
    <2>2. loops' = [loops EXCEPT ![loop] = [phase |-> "answered", status |-> Status]]
      BY <1>11 DEF StatusRequest
    <2>3. search'.of = page.pair
      BY <1>9, <2>1
    <2>4. /\ Status.of = search'.of
          /\ ~Status.running => ~search'.running /\ Status.plan = search'.plan
      BY <2>1 DEF Status
    <2> HIDE DEF Status
    <2> QED
      BY <1>7, <2>1, <2>2, <2>3, <2>4
  <1>12. CASE ApplyStatus(loop)
    <2> DEFINE status == loops[loop].status
    <2>1. loops[loop].phase = "answered" /\ search' = search
      BY <1>12 DEF ApplyStatus
    <2>2. search'.of = page.pair /\ status.of = page.pair
      BY <1>1, <1>9, <2>1 DEF InStep, LoopsInStep
    <2>3. CASE status.running
      <3>1. loops' = [loops EXCEPT ![loop] = [phase |-> "started"]] /\ page' = page
        BY <1>12, <2>3 DEF ApplyStatus
      <3> QED
        BY <1>7, <2>2, <3>1
    <2>4. CASE ~status.running
      <3>1. /\ loops' = [loops EXCEPT ![loop] = Idle]
            /\ page' = [page EXCEPT !.searching = FALSE, !.plan = status.plan,
                                !.planOf = status.of, !.results = NoResults]
        BY <1>12, <2>4 DEF ApplyStatus
      <3>2. PageInStep'
        BY <1>0, <2>2, <3>1 DEF PageInStep, PageState
      <3> QED
        BY <1>4, <1>6, <3>1, <3>2 DEF InStep
    <2> QED
      BY <2>3, <2>4
  <1>13. CASE StartFails(loop) \/ StatusFails(loop)
    <2>1. /\ loops' = [loops EXCEPT ![loop] = Idle]
          /\ \/ page' = [page EXCEPT !.open = FALSE, !.searching = FALSE]
             \/ page' = [page EXCEPT !.searching = FALSE]
      BY <1>13 DEF StartFails, StatusFails
    <2>2. PageInStep'
      BY <1>0, <2>1 DEF InStep, PageInStep, PageState
    <2> QED
      BY <1>4, <1>6, <2>1, <2>2 DEF InStep
  <1> QED
    BY <1>8, <1>10, <1>11, <1>12, <1>13 DEF LoopStep

\* A step that leaves the loops alone, and what they depend on.
LEMMA LoopsStayInStep ==
    ASSUME Typed, InStep, [Next]_vars, \A loop \in Loops : ~StartRequest(loop), loops' = loops,
           executor' = executor, page'.searching = page.searching, page'.pair = page.pair
    PROVE  OneSearch' /\ LoopsInStep'
  <1>1. /\ search'.of = search.of
        /\ ~search.running => ~search'.running /\ search'.plan = search.plan
    BY SearchRests
  <1>2. OneSearch'
    BY DEF InStep, OneSearch, Idle
  <1>3. ASSUME NEW loop \in Loops, loops'[loop] # Idle
        PROVE  /\ executor' = Idle /\ page'.searching
               /\ IF loops'[loop].phase = "posted" THEN loops'[loop].pair = page'.pair
                                                   ELSE search'.of = page'.pair
               /\ loops'[loop].phase = "answered" =>
                     /\ loops'[loop].status.of = page'.pair
                     /\ ~loops'[loop].status.running =>
                           ~search'.running /\ loops'[loop].status.plan = search'.plan
    BY <1>1, <1>3 DEF InStep, LoopsInStep
  <1>4. LoopsInStep'
    BY <1>3 DEF LoopsInStep, Idle
  <1> QED
    BY <1>2, <1>4

\* No loop is under way, and none begins.
LEMMA NoLoopInStep ==
    ASSUME loops' = loops, \A loop \in Loops : loops[loop] = Idle
    PROVE  OneSearch' /\ LoopsInStep'
  BY DEF OneSearch, LoopsInStep, Idle

\* While a step of the plan is carried out, or could be, no search goes on.
LEMMA NoLoopBesideSteps ==
    ASSUME InStep, executor # Idle \/ ~page.searching
    PROVE  \A loop \in Loops : loops[loop] = Idle
  BY DEF InStep, LoopsInStep

\* A step of the plan.
LEMMA ExecutorStepsInStep ==
    ASSUME Typed, InStep, [Next]_vars,
           ExecutorStep \/ AnswerIsLost \/ \E all \in BOOLEAN : BeginSteps(all)
    PROVE  InStep'
  <1>0. page \in PageState /\ (executor = Idle <=> executor.phase = "none")
    BY ExecutorPhases DEF Typed
  <1>1. loops' = loops /\ (executor # Idle \/ ~page.searching)
    <2>1. CASE ExecutorStep
      BY <1>0, <2>1 DEF ExecutorStep, CheckRename, DoRename, StepAnswered, StepEnds, StepRefused
    <2>2. CASE AnswerIsLost
      BY <1>0, <2>2 DEF AnswerIsLost
    <2>3. CASE \E all \in BOOLEAN : BeginSteps(all)
      BY <2>3 DEF BeginSteps, CanBegin
    <2> QED
      BY <2>1, <2>2, <2>3
  <1>2. OneSearch' /\ LoopsInStep'
    BY <1>1, NoLoopBesideSteps, NoLoopInStep
  <1>3. ASSUME page' = page PROVE PageInStep'
    BY <1>3 DEF InStep, PageInStep
  <1>4. ASSUME executor' = Idle PROVE ExecutorInStep'
    BY <1>4 DEF ExecutorInStep, Idle
  <1>5. ASSUME executor \in ExecutorState, page' = page, executor'.plan = executor.plan,
               executor'.results = executor.results, executor'.pair = executor.pair,
               executor'.at = IF executor'.phase = "refetch" THEN page.completed
                                                             ELSE page.completed + 1
        PROVE  ExecutorInStep'
    <2>1. executor # Idle
      BY <1>5 DEF ExecutorState, Idle
    <2> QED
      BY <1>5, <2>1 DEF InStep, ExecutorInStep
  <1>6. ASSUME NEW all \in BOOLEAN, BeginSteps(all) PROVE PageInStep' /\ ExecutorInStep'
    <2>1. /\ page.open /\ ~page.searching /\ page' = page
          /\ executor' = [phase |-> "asked", plan |-> page.plan, results |-> page.results,
                          pair |-> page.pair, at |-> page.completed + 1, all |-> all,
                          result |-> NoName]
      BY <1>6 DEF BeginSteps, CanBegin
    <2>2. page.planOf = page.pair
      BY <2>1 DEF InStep, PageInStep
    <2>3. ExecutorInStep'
      BY <2>1, <2>2 DEF ExecutorInStep
    <2> QED
      BY <1>3, <2>1, <2>3
  <1>7. CASE CheckRename \/ DoRename
    <2>1. executor \in ExecutorState /\ executor.phase \in { "asked", "checked" } /\ page' = page
      BY <1>7, ExecutorPhases DEF CheckRename, DoRename, Idle
    <2>2. \E phase \in { "checked", "renamed", "refused" } :
             \/ executor' = [executor EXCEPT !.phase = phase]
             \/ executor' = [executor EXCEPT !.result = DestinationName, !.phase = phase]
      <3>1. CASE CheckRename
        <4> DEFINE phase == IF Has(executor.pair, "left", SourceName) /\ IsFree(DestinationName)
                              THEN "checked" ELSE "refused"
        <4>1. executor' = [executor EXCEPT !.result = DestinationName, !.phase = phase]
          BY <3>1 DEF CheckRename
        <4>2. phase \in { "checked", "renamed", "refused" }
          OBVIOUS
        <4> HIDE DEF phase
        <4> QED
          BY <4>1, <4>2
      <3>2. CASE DoRename
        BY <3>2 DEF DoRename
      <3> QED
        BY <1>7, <3>1, <3>2
    <2>3. /\ executor'.plan = executor.plan /\ executor'.results = executor.results
          /\ executor'.pair = executor.pair /\ executor'.at = executor.at
          /\ executor'.phase # "refetch"
      BY <2>1, <2>2 DEF ExecutorState
    <2>4. executor.at = page.completed + 1
      BY <1>0, <2>1 DEF InStep, ExecutorInStep
    <2> QED
      BY <1>2, <1>3, <1>5, <2>1, <2>3, <2>4 DEF InStep
  <1>8. CASE StepAnswered
    <2>1. executor \in ExecutorState /\ executor.phase = "renamed" /\ executor # Idle
      BY <1>8, ExecutorPhases DEF StepAnswered, Idle
    <2> DEFINE noted == Noted(executor.results, executor.at, executor.result)
    <2>2. /\ ~page.searching /\ executor.plan = page.plan /\ executor.results = page.results
          /\ executor.pair = page.planOf
      BY <2>1 DEF InStep, ExecutorInStep
    <2>3. /\ executor' = [executor EXCEPT !.phase = "refetch", !.results = noted]
          /\ page' = [page EXCEPT !.results = noted, !.completed = executor.at]
      BY <1>0, <1>8, <2>1, <2>2 DEF StepAnswered, ExecutorState, PageState
    <2> HIDE DEF noted
    <2>4. /\ executor'.phase = "refetch" /\ executor'.results = noted
          /\ executor'.plan = executor.plan /\ executor'.pair = executor.pair
          /\ executor'.at = executor.at
      BY <2>1, <2>3 DEF ExecutorState
    <2>5. /\ page'.results = noted /\ page'.completed = executor.at /\ page'.plan = page.plan
          /\ page'.planOf = page.planOf /\ page'.pair = page.pair /\ page'.open = page.open
          /\ ~page'.searching
      BY <1>0, <2>2, <2>3 DEF PageState
    <2>6. PageInStep' /\ ExecutorInStep'
      BY <2>2, <2>4, <2>5 DEF InStep, PageInStep, ExecutorInStep
    <2> QED
      BY <1>2, <2>6 DEF InStep
  <1>9. CASE StepEnds
    <2>1. executor \in ExecutorState /\ executor.phase = "refetch" /\ executor # Idle
          /\ page' = page
      BY <1>9, ExecutorPhases DEF StepEnds, Idle
    <2>2. executor.at = page.completed
      BY <2>1 DEF InStep, ExecutorInStep
    <2>3. CASE executor' = [executor EXCEPT !.phase = "asked", !.at = executor.at + 1]
      <3>1. /\ executor'.plan = executor.plan /\ executor'.results = executor.results
            /\ executor'.pair = executor.pair /\ executor'.at = executor.at + 1
            /\ executor'.phase = "asked"
        BY <2>1, <2>3 DEF ExecutorState
      <3> QED
        BY <1>2, <1>3, <1>5, <2>1, <2>2, <3>1 DEF InStep
    <2>4. CASE executor' = Idle
      BY <1>2, <1>3, <1>4, <2>1, <2>4 DEF InStep
    <2> QED
      BY <1>9, <2>1, <2>3, <2>4 DEF StepEnds, ExecutorState
  <1>10. CASE StepRefused \/ AnswerIsLost
    <2>1. executor' = Idle /\ page' = page
      BY <1>10 DEF StepRefused, AnswerIsLost
    <2> QED
      BY <1>2, <1>3, <1>4, <2>1 DEF InStep
  <1> QED
    BY <1>2, <1>6, <1>7, <1>8, <1>9, <1>10 DEF ExecutorStep, InStep

\* What the user does to the page.
LEMMA PageStepsInStep ==
    ASSUME Patient = TRUE, Typed, InStep, [Next]_vars,
           \/ Close \/ \E pair \in Pairs : Navigate(pair)
           \/ \E loop \in Loops : FindChecksumMatches(loop)
    PROVE  InStep'
  <1>0. page \in PageState /\ loops \in [Loops -> LoopState]
    BY DEF Typed
  <1>1. CASE Close
    <2>1. /\ page' = [page EXCEPT !.open = FALSE]
          /\ executor' = executor /\ loops' = loops /\ search' = search
      BY <1>1 DEF Close
    <2>2. OneSearch' /\ LoopsInStep'
      <3>1. OneSearch'
        BY <2>1 DEF InStep, OneSearch, Idle
      <3>2. page'.searching = page.searching /\ page'.pair = page.pair
        BY <1>0, <2>1 DEF PageState
      <3>3. LoopsInStep'
        BY <2>1, <3>2 DEF InStep, LoopsInStep, Idle
      <3> QED
        BY <3>1, <3>3
    <2>3. PageInStep' /\ ExecutorInStep'
      BY <1>0, <2>1 DEF InStep, PageInStep, ExecutorInStep, PageState, Idle
    <2> QED
      BY <2>2, <2>3 DEF InStep
  <1>2. ASSUME NEW pair \in Pairs, Navigate(pair) PROVE InStep'
    <2>1. /\ page' = [page EXCEPT !.pair = pair] /\ ~page.open
          /\ executor' = Idle /\ loops' = loops /\ \A loop \in Loops : loops[loop] = Idle
      BY <1>2 DEF Navigate, HasEnded
    <2>2. OneSearch' /\ LoopsInStep'
      BY <2>1, NoLoopInStep
    <2>3. PageInStep' /\ ExecutorInStep'
      BY <1>0, <2>1 DEF InStep, PageInStep, ExecutorInStep, PageState, Idle
    <2> QED
      BY <2>2, <2>3 DEF InStep
  <1>3. ASSUME NEW loop \in Loops, FindChecksumMatches(loop) PROVE InStep'
    <2> DEFINE state == [phase |-> "posted", pair |-> page.pair]
    <2>1. /\ page' = Emptied(page) /\ loops' = [loops EXCEPT ![loop] = state]
          /\ executor' = Idle /\ \A l \in Loops : loops[l] = Idle
      BY <1>3 DEF FindChecksumMatches, HasEnded
    <2>2. loops'[loop] = state /\ \A other \in Loops \ { loop } : loops'[other] = Idle
      BY <1>0, <2>1
    <2>3. /\ page'.searching /\ page'.plan = << >> /\ page'.completed = 0
          /\ page'.pair = page.pair /\ page'.planOf = page.pair
      BY <1>0, <2>1 DEF Emptied, PageState
    <2>4. OneSearch'
      <3>1. \A other \in Loops : loops'[other] # Idle => other = loop
        BY <2>2
      <3> QED
        BY <3>1 DEF OneSearch, Idle
    <2>5. LoopsInStep'
      <3>1. \A other \in Loops : loops'[other] # Idle =>
              /\ loops'[other].phase = "posted" /\ loops'[other].pair = page.pair
        BY <2>2
      <3> QED
        BY <2>1, <2>3, <3>1 DEF LoopsInStep, Idle
    <2>6. PageInStep' /\ ExecutorInStep'
      BY <2>1, <2>3 DEF PageInStep, ExecutorInStep, Idle
    <2> QED
      BY <2>4, <2>5, <2>6 DEF InStep
  <1> QED
    BY <1>1, <1>2, <1>3

LEMMA StaysInStep ==
    ASSUME Patient = TRUE
    PROVE  Typed /\ InStep /\ [Next]_vars => InStep'
  <1> SUFFICES ASSUME Typed, InStep, [Next]_vars PROVE InStep'
    OBVIOUS
  <1>1. ASSUME \A loop \in Loops : ~StartRequest(loop), UNCHANGED << page, loops, executor >>
        PROVE  InStep'
    <2>1. OneSearch' /\ LoopsInStep'
      BY <1>1, LoopsStayInStep
    <2>2. PageInStep' /\ ExecutorInStep'
      BY <1>1 DEF InStep, PageInStep, ExecutorInStep, Idle
    <2> QED
      BY <2>1, <2>2 DEF InStep
  <1>2. CASE \E loop \in Loops : LoopStep(loop) \/ StartFails(loop) \/ StatusFails(loop)
    BY <1>2, LoopStepsInStep
  <1>3. CASE ExecutorStep \/ AnswerIsLost \/ \E all \in BOOLEAN : BeginSteps(all)
    BY <1>3, ExecutorStepsInStep
  <1>4. CASE \/ Close \/ \E pair \in Pairs : Navigate(pair)
             \/ \E loop \in Loops : FindChecksumMatches(loop)
    BY <1>4, PageStepsInStep
  <1>5. ASSUME UNCHANGED vars \/ Worker \/ AbortedReadEnds
               \/ \E pair \in Pairs, name \in MayCreate, content \in Contents \cup { 0 } :
                     Meddle(pair, name, content)
        PROVE  UNCHANGED << page, loops, executor >>
    BY <1>5 DEF vars, Worker, SearchEnds, HashNext, AbortedReadEnds, Meddle
  <1>6. CASE \E loop \in Loops : StartRequest(loop)
    BY <1>6, LoopStepsInStep DEF LoopStep
  <1> QED
    BY <1>1, <1>2, <1>3, <1>4, <1>5, <1>6 DEF Next

LEMMA InStepAtFirst == Init => InStep
  <1> SUFFICES ASSUME Init PROVE InStep
    OBVIOUS
  <1>1. PICK begin \in Initial :
          page = [pair |-> begin.pair, open |-> FALSE, searching |-> FALSE, plan |-> << >>,
                  planOf |-> begin.pair, results |-> NoResults, completed |-> 0]
    BY DEF Init
  <1>2. executor = Idle /\ \A loop \in Loops : loops[loop] = Idle
    BY DEF Init
  <1> QED
    BY <1>1, <1>2 DEF InStep, OneSearch, LoopsInStep, PageInStep, ExecutorInStep

\* PlanIsOfPair: who searches again only when all has ended is shown the plan of
\* the directories in the panes.
THEOREM PlanIsOfPairHolds ==
    ASSUME Patient = TRUE
    PROVE  Spec => []PlanIsOfPair
  <1>1. Init => Typed /\ InStep
    BY TypedAtFirst, InStepAtFirst
  <1>2. Typed /\ InStep /\ [Next]_vars => Typed' /\ InStep'
    BY TypedStays, StaysInStep
  <1>3. InStep => PlanIsOfPair
    BY DEF InStep, PageInStep, PlanIsOfPair
  <1> QED
    BY <1>1, <1>2, <1>3, PTL DEF Spec

-----------------------------------------------------------------------------
(* What the search says of the disk *)

\* Nothing is ignored on the right, and no backup's name is found there.
RightIsPlain ==
    \A pair \in Pairs :
        disk[pair].ignored.right = {} /\ \A name \in Spare : disk[pair].right[name] = 0

\* A step of the system writes on the left only.
LEMMA RightStays ==
    ASSUME Typed, [Next]_vars
    PROVE  \A pair \in Pairs :
              disk'[pair].right = disk[pair].right /\ disk'[pair].ignored = disk[pair].ignored
  <1>1. disk \in [Pairs -> DirectoryPair]
    BY DEF Typed
  <1>2. ASSUME NEW p, NEW files, disk' = [disk EXCEPT ![p].left = files]
        PROVE  \A pair \in Pairs :
                  disk'[pair].right = disk[pair].right /\ disk'[pair].ignored = disk[pair].ignored
    BY <1>1, <1>2 DEF DirectoryPair
  <1>3. CASE UNCHANGED disk
    BY <1>3
  <1>4. CASE DoRename
    <2> DEFINE left == disk[executor.pair].left
               files == [left EXCEPT ![SourceName] = 0, ![executor.result] = left[SourceName]]
    <2>0. executor.pair \in Pairs
      BY <1>4 DEF DoRename, Typed, Idle, ExecutorState
    <2>1. disk' = disk \/ disk' = [disk EXCEPT ![executor.pair].left = files]
      BY <1>1, <1>4, <2>0 DEF DoRename, DirectoryPair
    <2> HIDE DEF files
    <2> QED
      BY <1>2, <2>1
  <1>5. ASSUME NEW p \in Pairs, NEW name \in MayCreate, NEW content \in Contents \cup { 0 },
               Meddle(p, name, content)
        PROVE  \E files : disk' = [disk EXCEPT ![p].left = files]
    <2>1. disk' = [disk EXCEPT ![p].left = [disk[p].left EXCEPT ![name] = content]]
      BY <1>1, <1>5 DEF Meddle, DirectoryPair
    <2> QED
      BY <2>1
  <1> QED
    BY <1>2, <1>3, <1>4, <1>5, Writers

LEMMA RightStaysPlain == Typed /\ RightIsPlain /\ [Next]_vars => RightIsPlain'
  BY RightStays DEF RightIsPlain

\* The left names that are taken, as the search is told of them, are those there are.
LEMMA ExistingIsSo ==
    ASSUME RightIsPlain, NEW pair \in Pairs
    PROVE  ExistingLeft(pair) = { name \in AllNames : disk[pair].left[name] # 0 }
  <1>1. disk[pair]["left"] = disk[pair].left /\ disk[pair]["right"] = disk[pair].right
    OBVIOUS
  <1>2. \A name \in AllNames : Has(pair, "left", name) <=> disk[pair].left[name] # 0
    BY NumberedNames DEF Has
  <1>3. \A name : name \in Entries(pair) <=>
           name \in AllNames /\ (Has(pair, "left", name) \/ Has(pair, "right", name))
    BY DEF Entries, Sides
  <1>4. ASSUME NEW name \in Entries(pair), ~Has(pair, "left", name)
        PROVE  name \in OnlyOn(pair, "right")
    <2>1. ~IsIgnoredEntry(pair, name)
      BY <1>4 DEF IsIgnoredEntry, Sides, RightIsPlain
    <2>2. Has(pair, "right", name)
      BY <1>3, <1>4
    <2> QED
      BY <1>4, <2>1, <2>2 DEF OnlyOn, Sides
  <1>5. ASSUME NEW name, Has(pair, "left", name) PROVE name \notin OnlyOn(pair, "right")
    BY <1>5 DEF OnlyOn, Sides
  <1> QED
    BY <1>2, <1>3, <1>4, <1>5 DEF ExistingLeft

Searching == { "started", "asleep", "asking", "answered" }

\* The checksums noted, and the names taken, are those of the disk as it is.
SearchIsTrue ==
    /\ \A side \in Sides, content \in Contents : \A name \in search.sums[side][content] :
          disk[search.of][side][name] = content
    /\ search.existing = { name \in AllNames : disk[search.of].left[name] # 0 }

\* As long as the search on show has not come to its end and nobody meddled.
TruthIsKept == (\E loop \in Loops : loops[loop].phase \in Searching) /\ ~meddled => SearchIsTrue

LEMMA SearchingStays ==
    ASSUME Typed, [Next]_vars, NEW loop \in Loops, loops'[loop].phase \in Searching
    PROVE  (\E l \in Loops : StartRequest(l)) \/ loops[loop].phase \in Searching
  <1>1. loops \in [Loops -> LoopState] /\ Idle.phase = "none"
    BY DEF Typed, Idle
  <1>2. ASSUME NEW l \in Loops,
               FindChecksumMatches(l) \/ LoopStep(l) \/ StartFails(l) \/ StatusFails(l),
               ~StartRequest(l), loops[loop].phase \notin Searching
        PROVE  FALSE
    <2>1. ASSUME NEW state, loops' = [loops EXCEPT ![l] = state]
          PROVE  loop = l /\ loops'[loop] = state
      BY <1>1, <1>2, <2>1
    <2>2. CASE FindChecksumMatches(l)
      <3>1. loops' = [loops EXCEPT ![l] = [phase |-> "posted", pair |-> page.pair]]
        BY <2>2 DEF FindChecksumMatches
      <3>2. loops'[loop].phase = "posted"
        BY <2>1, <3>1
      <3> QED
        BY <3>2 DEF Searching
    <2>3. CASE StartFails(l) \/ StatusFails(l)
      <3>1. loops' = [loops EXCEPT ![l] = Idle]
        BY <2>3 DEF StartFails, StatusFails
      <3> QED
        BY <1>1, <2>1, <3>1 DEF Searching
    <2>4. CASE Continue(l) \/ StatusRequest(l) \/ ApplyStatus(l)
      <3>1. loops[l].phase \in Searching
        BY <2>4 DEF Continue, StatusRequest, ApplyStatus, Searching
      <3>2. loop # l
        BY <1>2, <3>1
      <3>3. loops'[loop] = loops[loop]
        BY <1>1, <2>4, <3>2 DEF Continue, StatusRequest, ApplyStatus
      <3> QED
        BY <1>2, <3>3
    <2> QED
      BY <1>2, <2>2, <2>3, <2>4 DEF LoopStep
  <1>3. CASE UNCHANGED loops
    BY <1>3
  <1> QED
    BY <1>2, <1>3, Writers

\* As long as nobody meddles only the steps of a plan write.
LEMMA Unmeddled ==
    ASSUME [Next]_vars, ~meddled', \A loop \in Loops : ~StartRequest(loop)
    PROVE  ~meddled /\ ~AnswerIsLost /\ (disk' = disk \/ DoRename)
  <1>1. CASE UNCHANGED vars
    BY <1>1 DEF vars, AnswerIsLost
  <1>2. ~AnswerIsLost
    BY DEF AnswerIsLost
  <1>3. ASSUME NEW pair \in Pairs, NEW name \in MayCreate, NEW content \in Contents \cup { 0 }
        PROVE  ~Meddle(pair, name, content)
    BY DEF Meddle
  <1>4. CASE Worker \/ AbortedReadEnds \/ Close
    <2>1. \A side \in Sides : HashNext(side) => meddled' = meddled /\ disk' = disk
      BY DEF HashNext
    <2>2. SearchEnds \/ AbortedReadEnds \/ Close => meddled' = meddled /\ disk' = disk
      BY DEF SearchEnds, AbortedReadEnds, Close
    <2>3. meddled' = meddled /\ disk' = disk
      BY <1>4, <2>1, <2>2 DEF Worker
    <2> QED
      BY <1>2, <2>3
  <1>5. ASSUME NEW loop \in Loops,
               FindChecksumMatches(loop) \/ LoopStep(loop) \/ StartFails(loop) \/ StatusFails(loop)
        PROVE  meddled' = meddled /\ disk' = disk
    BY <1>5 DEF FindChecksumMatches, LoopStep, Continue, StatusRequest, ApplyStatus,
                StartFails, StatusFails
  <1>6. CASE \E pair \in Pairs : Navigate(pair)
    BY <1>2, <1>6 DEF Navigate
  <1>7. CASE \E all \in BOOLEAN : BeginSteps(all)
    BY <1>2, <1>7 DEF BeginSteps
  <1>8. CASE ExecutorStep
    BY <1>2, <1>8 DEF ExecutorStep, CheckRename, DoRename, StepAnswered, StepEnds, StepRefused
  <1>9. CASE \E loop \in Loops :
           FindChecksumMatches(loop) \/ LoopStep(loop) \/ StartFails(loop) \/ StatusFails(loop)
    <2>1. meddled' = meddled /\ disk' = disk
      BY <1>5, <1>9
    <2> QED
      BY <1>2, <2>1
  <1> QED
    BY <1>1, <1>3, <1>4, <1>6, <1>7, <1>8, <1>9, <1>2 DEF Next

LEMMA TruthStays ==
    ASSUME Typed, InStep, RightIsPlain, TruthIsKept, [Next]_vars
    PROVE  TruthIsKept'
  <1> SUFFICES ASSUME NEW loop \in Loops, loops'[loop].phase \in Searching, ~meddled'
               PROVE  SearchIsTrue'
    BY DEF TruthIsKept
  <1>0. search \in SearchState /\ disk \in [Pairs -> DirectoryPair]
    BY DEF Typed
  <1>1. CASE \E l \in Loops : StartRequest(l)
    <2>1. PICK l \in Loops : StartRequest(l)
      BY <1>1
    <2>2. loops[l].pair \in Pairs /\ BeginsSearch(l) /\ disk' = disk
      BY <2>1, StartBegins DEF StartRequest
    <2>3. /\ search'.of = loops[l].pair /\ search'.sums = NoSums
          /\ search'.existing = { name \in AllNames : disk[loops[l].pair].left[name] # 0 }
      BY <2>2, ExistingIsSo DEF BeginsSearch
    <2>4. \A side \in Sides, content \in Contents : NoSums[side][content] = {}
      BY DEF NoSums
    <2> QED
      BY <2>2, <2>3, <2>4 DEF SearchIsTrue
  <1>2. CASE \A l \in Loops : ~StartRequest(l)
    <2>1. loops[loop].phase \in Searching
      BY <1>2, SearchingStays
    <2>2. ~meddled /\ disk' = disk
      <3>1. executor = Idle
        BY <2>1 DEF InStep, LoopsInStep, Idle, Searching
      <3>2. ~DoRename
        BY <3>1 DEF DoRename, Idle
      <3> QED
        BY <1>2, <3>2, Unmeddled
    <2>3. SearchIsTrue
      BY <2>1, <2>2 DEF TruthIsKept
    <2>4. CASE KeepsSearch \/ EndsSearch
      BY <2>2, <2>3, <2>4 DEF SearchIsTrue, KeepsSearch, EndsSearch
    <2>5. ASSUME NEW side \in Sides, HashesName(side) PROVE SearchIsTrue'
      <3> DEFINE name == Earliest(search.todo[side])
                 content == disk[search.of][side][name]
      <3>1. /\ search'.of = search.of /\ search'.existing = search.existing
            /\ \/ search'.sums = search.sums
               \/ /\ content \in Contents
                  /\ search'.sums = [search.sums EXCEPT ![side][content] = @ \cup { name }]
        BY <2>5 DEF HashesName
      <3>2. disk[search.of][side][name] = content
        OBVIOUS
      <3> HIDE DEF name, content
      <3>3. ASSUME NEW s \in Sides, NEW c \in Contents, NEW n \in search'.sums[s][c]
            PROVE  disk[search.of][s][n] = c
        <4>1. n \in search.sums[s][c] \/ (n = name /\ s = side /\ c = content)
          BY <1>0, <3>1, <3>3 DEF SearchState
        <4> QED
          BY <2>3, <3>2, <4>1 DEF SearchIsTrue
      <3> QED
        BY <2>2, <2>3, <3>1, <3>3 DEF SearchIsTrue
    <2> QED
      BY <1>2, <2>4, <2>5, SearchWrites DEF BeginsSearch
  <1> QED
    BY <1>1, <1>2

\* The plan of a search that says the truth fits the disk.
LEMMA TruePlanFits ==
    ASSUME SearchIsSound, SearchIsTrue, ~search.running
    PROVE  Fits(disk[search.of].left, disk[search.of].right, search.plan, NoResults, 0)
  <1> DEFINE left == disk[search.of].left
             right == disk[search.of].right
             renames == Renames(search.matches)
  <1>0. Typed /\ "left" \in Sides /\ "right" \in Sides
    BY DEF SearchIsSound, Sides
  <1>1. /\ left \in Files /\ right \in Files
        /\ disk[search.of]["left"] = left /\ disk[search.of]["right"] = right
    <2>1. disk[search.of] \in DirectoryPair
      BY <1>0 DEF Typed, SearchState
    <2> QED
      BY <2>1 DEF DirectoryPair
  <1>2. CASE search.plan = << >>
    BY <1>2 DEF Fits, ReadyAhead, ApartAhead, DoneBehind
  <1>3. CASE Works(search.plan, renames, search.existing, AllNames)
    <2>1. ASSUME NEW name \in DOMAIN renames PROVE left[name] = right[renames[name]] /\ left[name] # 0
      <3>1. PICK content \in Contents :
               /\ search.matches[content] # NoMatch
               /\ search.matches[content][1] = name /\ search.matches[content][2] = renames[name]
        BY <2>1, RenamesFacts DEF SearchIsSound
      <3>2. /\ name \in search.sums["left"][content]
            /\ renames[name] \in search.sums["right"][content]
        BY <3>1, MatchesAreOfSums DEF SearchIsSound, MatchesSay
      <3>3. left[name] = content /\ right[renames[name]] = content
        BY <1>0, <1>1, <3>2 DEF SearchIsTrue
      <3> QED
        BY <3>3, NamesAreNumbers
    <2>2. search.existing = { name \in AllNames : left[name] # 0 }
      BY DEF SearchIsTrue
    <2> HIDE DEF left, right, renames
    <2>3. Fits(left, right, search.plan, NoResults, 0)
      BY <1>1, <1>3, <2>1, <2>2, FitsAtFirst
    <2> QED
      BY <2>3 DEF left, right
  <1> QED
    BY <1>2, <1>3, SearchesPlan

-----------------------------------------------------------------------------
(* The plan and the disk, while the plan is carried out *)

FilesOf(side) == disk[page.planOf][side]

\* The steps ticked off, and the one that is done but not yet ticked off, are
\* done; those ahead can be.
PlanFits ==
    IF executor.phase = "renamed"
      THEN Fits(FilesOf("left"), FilesOf("right"), page.plan,
                Noted(page.results, executor.at, executor.result), executor.at)
      ELSE Fits(FilesOf("left"), FilesOf("right"), page.plan, page.results, page.completed)

\* A step that has been checked can be carried out.
CheckedHolds ==
    executor.phase = "checked" =>
        /\ Has(executor.pair, "left", SourceName) /\ IsFree(executor.result)
        /\ IF Step.isBackup THEN executor.result \in Spare ELSE executor.result = Step.to

StepsHold == ~meddled => PlanFits /\ CheckedHolds /\ executor.phase # "refused"

LEMMA NothingToDoFits ==
    ASSUME NEW left, NEW right, NEW results
    PROVE  Fits(left, right, << >>, results, 0)
  BY DEF Fits, ReadyAhead, ApartAhead, DoneBehind

\* The files of the plan's directories.
LEMMA PlansFiles ==
    ASSUME Typed
    PROVE  /\ FilesOf("left") \in Files /\ FilesOf("right") \in Files
           /\ FilesOf("left") = disk[page.planOf].left
           /\ FilesOf("right") = disk[page.planOf].right
  <1>1. disk[page.planOf] \in DirectoryPair
    BY DEF Typed, PageState
  <1> QED
    BY <1>1 DEF DirectoryPair, FilesOf

\* The step under way is the next one of the plan on show, and finds its file
\* where the plan has it.
LEMMA StepOfPlan ==
    ASSUME Typed, InStep, PlansAreSound, executor.phase \in { "asked", "checked" }
    PROVE  /\ executor \in ExecutorState
           /\ executor.pair = page.planOf /\ executor.at = page.completed + 1
           /\ executor.at \in 1..Len(page.plan) /\ page.completed < Len(page.plan)
           /\ page.plan \in Seq(PlanStep) /\ page.completed \in Nat
           /\ Step = page.plan[executor.at]
           /\ SourceName = Where(page.plan, page.results, page.completed, executor.at)
  <1>1. executor \in ExecutorState /\ executor # Idle
    BY ExecutorPhases
  <1>2. /\ executor.plan = page.plan /\ executor.results = page.results
        /\ executor.pair = page.planOf /\ executor.at = page.completed + 1
    BY <1>1 DEF InStep, ExecutorInStep
  <1>3. /\ page.plan \in Seq(PlanStep) /\ page.completed \in Nat
        /\ executor.at \in 1..Len(page.plan)
    BY <1>1, <1>2 DEF ExecutorState, Typed, PageState
  <1>4. Step = page.plan[executor.at] /\ Step.back \in Nat
    BY <1>2, <1>3 DEF Step, PlanStep
  <1>5. SourceName = Where(page.plan, page.results, page.completed, executor.at)
    <2>1. CASE Step.back = 0
      BY <1>4, <2>1 DEF SourceName, Where
    <2>2. CASE Step.back # 0
      <3>1. ~(executor.at - Step.back > page.completed)
        BY <1>2, <1>3, <1>4, <2>2
      <3> QED
        BY <1>2, <1>4, <2>2, <3>1 DEF SourceName, Where
    <2> QED
      BY <2>1, <2>2
  <1> QED
    BY <1>1, <1>2, <1>3, <1>4, <1>5

\* The check of a step's rename finds what the plan promises.
LEMMA CheckSucceeds ==
    ASSUME Typed, InStep, PlansAreSound, PlanFits, CheckRename
    PROVE  /\ Has(executor.pair, "left", SourceName) /\ IsFree(DestinationName)
           /\ IF Step.isBackup THEN DestinationName \in Spare ELSE DestinationName = Step.to
  <1>1. executor.phase = "asked"
    BY DEF CheckRename
  <1>2. /\ executor.pair = page.planOf /\ executor.at = page.completed + 1
        /\ page.completed < Len(page.plan)
        /\ page.plan \in Seq(PlanStep) /\ page.completed \in Nat
        /\ Step = page.plan[executor.at]
        /\ SourceName = Where(page.plan, page.results, page.completed, executor.at)
    BY <1>1, StepOfPlan
  <1>3. Fits(FilesOf("left"), FilesOf("right"), page.plan, page.results, page.completed)
    BY <1>1 DEF PlanFits
  <1>4. /\ SourceName \in AllNames /\ FilesOf("left")[SourceName] # 0
        /\ ~Step.isBackup => FilesOf("left")[Step.to] = 0
    BY <1>2, <1>3, NextIsReady, PlansFiles
  <1>5. Has(executor.pair, "left", SourceName)
    BY <1>2, <1>4, NumberedNames DEF Has, FilesOf
  <1>6. CASE ~Step.isBackup
    <2>1. DestinationName = Step.to
      BY <1>6 DEF DestinationName
    <2> QED
      BY <1>2, <1>4, <1>5, <1>6, <2>1 DEF IsFree, Has, FilesOf
  <1>7. CASE Step.isBackup
    <2> DEFINE free == { name \in Spare : ~Has(executor.pair, "left", name) }
    <2>1. free # {} /\ free \in SUBSET Nat
      BY <1>7, NumberedNames DEF CheckRename, IsFree
    <2>2. DestinationName = Earliest(free)
      BY <1>7 DEF DestinationName
    <2>3. Earliest(free) \in free
      <3> HIDE DEF free
      <3> QED
        BY <2>1, EarliestIsLeast
    <2> QED
      BY <1>5, <1>7, <2>2, <2>3 DEF IsFree
  <1> QED
    BY <1>6, <1>7, <1>5

\* The rename of a checked step succeeds, and the plan fits what it leaves.
LEMMA RenameSucceeds ==
    ASSUME Typed, InStep, PlansAreSound, RightIsPlain, PlanFits, CheckedHolds, DoRename
    PROVE  /\ executor'.phase = "renamed" /\ executor'.at = executor.at
           /\ executor'.result = executor.result
           /\ Fits(disk'[page.planOf].left, disk'[page.planOf].right, page.plan,
                   Noted(page.results, executor.at, executor.result), executor.at)
  <1> DEFINE left == disk[page.planOf].left
             right == disk[page.planOf].right
             source == SourceName
             d == executor.result
             k == executor.at
  <1>1. executor.phase = "checked"
    BY DEF DoRename
  <1>2. /\ executor \in ExecutorState
        /\ executor.pair = page.planOf /\ k = page.completed + 1
        /\ k \in 1..Len(page.plan) /\ page.completed < Len(page.plan)
        /\ page.plan \in Seq(PlanStep) /\ page.completed \in Nat
        /\ Step = page.plan[k]
        /\ source = Where(page.plan, page.results, page.completed, k)
    BY <1>1, StepOfPlan
  <1>3. left \in Files /\ right \in Files /\ d \in AllNames /\ page.planOf \in Pairs
        /\ disk \in [Pairs -> DirectoryPair]
    BY <1>1, <1>2, PlansFiles DEF ExecutorState, Typed, PageState
  <1>4. Fits(left, right, page.plan, page.results, page.completed)
    BY <1>1, PlansFiles DEF PlanFits
  <1>5. /\ source \in AllNames /\ left[source] # 0
    BY <1>2, <1>3, <1>4, NextIsReady
  <1>6. left[d] = 0 /\ IF page.plan[k].isBackup THEN d \in Spare ELSE d = page.plan[k].to
    BY <1>1, <1>2, <1>3, NumberedNames DEF CheckedHolds, IsFree, Has
  <1>7. \A name \in Spare : right[name] = 0
    BY <1>3 DEF RightIsPlain
  <1> DEFINE files == [left EXCEPT ![source] = 0, ![d] = left[source]]
  <1>8. /\ executor' = [executor EXCEPT !.phase = "renamed"]
        /\ disk' = [disk EXCEPT ![page.planOf].left = files]
    BY <1>2, <1>5 DEF DoRename
  <1>9. Fits(files, right, page.plan, Noted(page.results, k, d), k)
    <2>1. GoesBack(page.plan) /\ NamedOnce(page.plan)
      BY DEF PlansAreSound, PlanIsSound
    <2> HIDE DEF left, right, source, d, k
    <2> QED
      BY <1>2, <1>3, <1>4, <1>6, <1>7, <2>1, StepFits
  <1> HIDE DEF files
  <1>10. disk'[page.planOf].left = files /\ disk'[page.planOf].right = right
    BY <1>3, <1>8 DEF DirectoryPair
  <1>11. /\ executor'.phase = "renamed" /\ executor'.at = executor.at
         /\ executor'.result = executor.result
    BY <1>2, <1>8 DEF ExecutorState
  <1> QED
    BY <1>9, <1>10, <1>11

\* The step under way, if any, is not changed by what happens elsewhere.
LEMMA StepsHoldBeside ==
    ASSUME PlanFits, CheckedHolds, executor.phase # "refused", disk' = disk,
           executor' = executor,
           page'.plan = page.plan, page'.planOf = page.planOf, page'.results = page.results,
           page'.completed = page.completed
    PROVE  StepsHold'
  <1>1. PlanFits'
    BY DEF PlanFits, FilesOf
  <1>2. CheckedHolds'
    BY DEF CheckedHolds, Has, IsFree, SourceName, Step
  <1> QED
    BY <1>1, <1>2 DEF StepsHold

\* The same with nothing to be done.
LEMMA StepsHoldEmpty ==
    ASSUME executor' = Idle, page'.plan = << >>, page'.completed = 0
    PROVE  StepsHold'
  <1>1. PlanFits'
    BY NothingToDoFits DEF PlanFits, Idle
  <1> QED
    BY <1>1 DEF StepsHold, CheckedHolds, Idle

LEMMA HoldsAfterExecutor ==
    ASSUME Typed, InStep, PlansAreSound, RightIsPlain,
           PlanFits, CheckedHolds, executor.phase # "refused",
           ExecutorStep \/ \E all \in BOOLEAN : BeginSteps(all)
    PROVE  StepsHold'
  <1>0. page \in PageState /\ (executor # Idle => executor \in ExecutorState)
        /\ Idle.phase = "none"
    BY ExecutorPhases DEF Typed, Idle
  <1>1. ASSUME page' = page, disk' = disk, executor.phase # "renamed",
               executor'.phase \notin { "renamed", "checked", "refused" }
        PROVE  StepsHold'
    <2>1. PlanFits'
      BY <1>1 DEF PlanFits, FilesOf
    <2> QED
      BY <1>1, <2>1 DEF StepsHold, CheckedHolds
  <1>2. CASE CheckRename
    <2>1. /\ executor \in ExecutorState /\ executor.phase = "asked" /\ page' = page /\ disk' = disk
      BY <1>0, <1>2 DEF CheckRename
    <2>2. /\ Has(executor.pair, "left", SourceName) /\ IsFree(DestinationName)
          /\ IF Step.isBackup THEN DestinationName \in Spare ELSE DestinationName = Step.to
      BY <1>2, CheckSucceeds
    <2>3. executor' = [executor EXCEPT !.result = DestinationName, !.phase = "checked"]
      BY <1>2, <2>2 DEF CheckRename
    <2> DEFINE d == DestinationName
    <2> HIDE DEF d
    <2>4. /\ executor'.phase = "checked" /\ executor'.result = d
          /\ executor'.plan = executor.plan /\ executor'.at = executor.at
          /\ executor'.results = executor.results /\ executor'.pair = executor.pair
      BY <2>1, <2>3 DEF ExecutorState, d
    <2>5. PlanFits'
      BY <2>1, <2>4 DEF PlanFits, FilesOf
    <2>6. SourceName' = SourceName /\ Step' = Step
      BY <2>4, SourceStays DEF Step
    <2>7. CheckedHolds'
      BY <2>1, <2>2, <2>4, <2>6 DEF CheckedHolds, Has, IsFree, d
    <2> QED
      BY <2>4, <2>5, <2>7 DEF StepsHold
  <1>3. CASE DoRename
    <2>1. /\ executor'.phase = "renamed" /\ executor'.at = executor.at
          /\ executor'.result = executor.result
          /\ Fits(disk'[page.planOf].left, disk'[page.planOf].right, page.plan,
                  Noted(page.results, executor.at, executor.result), executor.at)
      BY <1>3, RenameSucceeds
    <2>2. page' = page
      BY <1>3 DEF DoRename
    <2>3. /\ disk'[page.planOf]["left"] = disk'[page.planOf].left
          /\ disk'[page.planOf]["right"] = disk'[page.planOf].right
      OBVIOUS
    <2>4. PlanFits'
      BY <2>1, <2>2, <2>3 DEF PlanFits, FilesOf
    <2> QED
      BY <2>1, <2>4 DEF StepsHold, CheckedHolds
  <1>4. CASE StepAnswered
    <2> DEFINE noted == Noted(page.results, executor.at, executor.result)
    <2>1. executor \in ExecutorState /\ executor.phase = "renamed" /\ disk' = disk
      BY <1>0, <1>4 DEF StepAnswered
    <2>2. page' = [page EXCEPT !.results = noted, !.completed = executor.at]
      BY <1>0, <1>4 DEF StepAnswered, PageState
    <2>3. executor'.phase = "refetch"
      BY <1>4, <2>1 DEF StepAnswered, ExecutorState
    <2>4. Fits(FilesOf("left"), FilesOf("right"), page.plan, noted, executor.at)
      BY <2>1 DEF PlanFits
    <2> HIDE DEF noted
    <2>5. /\ page'.results = noted /\ page'.completed = executor.at
          /\ page'.plan = page.plan /\ page'.planOf = page.planOf
      BY <1>0, <2>2 DEF PageState
    <2>6. PlanFits'
      BY <2>1, <2>3, <2>4, <2>5 DEF PlanFits, FilesOf
    <2> QED
      BY <2>3, <2>6 DEF StepsHold, CheckedHolds
  <1>5. CASE StepEnds
    <2>1. executor \in ExecutorState /\ executor.phase = "refetch" /\ disk' = disk /\ page' = page
      BY <1>0, <1>5 DEF StepEnds
    <2>2. executor'.phase \in { "asked", "none" }
      BY <1>0, <1>5, <2>1 DEF StepEnds, ExecutorState
    <2> QED
      BY <1>1, <2>1, <2>2
  <1>6. CASE \E all \in BOOLEAN : BeginSteps(all)
    <2>1. executor = Idle /\ disk' = disk /\ page' = page /\ executor'.phase = "asked"
      BY <1>6 DEF BeginSteps, CanBegin
    <2> QED
      BY <1>0, <1>1, <2>1
  <1>7. ~StepRefused
    BY DEF StepRefused
  <1> QED
    BY <1>2, <1>3, <1>4, <1>5, <1>6, <1>7 DEF ExecutorStep

LEMMA HoldsAfterLoops ==
    ASSUME Patient = TRUE, SearchIsSound, InStep, TruthIsKept, ~meddled, [Next]_vars,
           PlanFits, CheckedHolds, executor.phase # "refused", NEW loop \in Loops,
           FindChecksumMatches(loop) \/ ApplyStatus(loop) \/ StartFails(loop) \/ StatusFails(loop)
    PROVE  StepsHold'
  <1>0. page \in PageState /\ Typed
    BY DEF SearchIsSound, Typed
  <1>1. executor' = executor /\ disk' = disk
    BY DEF FindChecksumMatches, ApplyStatus, StartFails, StatusFails
  <1>2. CASE FindChecksumMatches(loop)
    <2>1. page' = Emptied(page)
      BY <1>2 DEF FindChecksumMatches
    <2>2. page'.plan = << >> /\ page'.completed = 0
      BY <1>0, <2>1 DEF Emptied, PageState
    <2>3. executor = Idle
      BY <1>2 DEF FindChecksumMatches, HasEnded
    <2> QED
      BY <1>1, <2>2, <2>3, StepsHoldEmpty
  <1>3. CASE StartFails(loop) \/ StatusFails(loop)
    <2>1. /\ page'.plan = page.plan /\ page'.planOf = page.planOf
          /\ page'.results = page.results /\ page'.completed = page.completed
      BY <1>0, <1>3 DEF StartFails, StatusFails, PageState
    <2> QED
      BY <1>1, <2>1, StepsHoldBeside
  <1>4. CASE ApplyStatus(loop)
    <2> DEFINE status == loops[loop].status
    <2>1. loops[loop].phase = "answered" /\ loops[loop] # Idle
      BY <1>4 DEF ApplyStatus, Idle
    <2>2. /\ executor = Idle /\ page.searching /\ search.of = page.pair
          /\ status.of = page.pair
          /\ ~status.running => ~search.running /\ status.plan = search.plan
      BY <2>1 DEF InStep, LoopsInStep
    <2>3. page.completed = 0
      BY <2>2 DEF InStep, PageInStep
    <2>4. CASE status.running
      <3>1. page' = page
        BY <1>4, <2>4 DEF ApplyStatus
      <3> QED
        BY <1>1, <3>1, StepsHoldBeside
    <2>5. CASE ~status.running
      <3>1. page' = [page EXCEPT !.searching = FALSE, !.plan = status.plan,
                                !.planOf = status.of, !.results = NoResults]
        BY <1>4, <2>5 DEF ApplyStatus
      <3>2. /\ page'.plan = search.plan /\ page'.planOf = search.of
            /\ page'.results = NoResults /\ page'.completed = 0
        BY <1>0, <2>2, <2>3, <2>5, <3>1 DEF PageState
      <3>3. SearchIsTrue
        BY <2>1 DEF TruthIsKept, Searching
      <3>4. Fits(disk[search.of].left, disk[search.of].right, search.plan, NoResults, 0)
        BY <2>2, <2>5, <3>3, TruePlanFits
      <3>5. executor'.phase = "none"
        BY <1>1, <2>2 DEF Idle
      <3>6. /\ disk'[page'.planOf]["left"] = disk[search.of].left
            /\ disk'[page'.planOf]["right"] = disk[search.of].right
        BY <1>1, <3>2
      <3>7. PlanFits'
        BY <3>2, <3>4, <3>5, <3>6 DEF PlanFits, FilesOf
      <3> QED
        BY <3>5, <3>7 DEF StepsHold, CheckedHolds
    <2> QED
      BY <2>4, <2>5
  <1> QED
    BY <1>2, <1>3, <1>4

\* What is known in every state of one who waits for each search to end, with
\* nothing ignored and no backup's name on the right.
AllInStep ==
    SearchIsSound /\ PlansAreSound /\ InStep /\ RightIsPlain /\ TruthIsKept /\ StepsHold

LEMMA StepsStillHold ==
    ASSUME Patient = TRUE, AllInStep, [Next]_vars
    PROVE  StepsHold'
  <1> SUFFICES ASSUME ~meddled' PROVE StepsHold'
    BY DEF StepsHold
  <1>0. Typed /\ InStep /\ page \in PageState
    BY DEF AllInStep, SearchIsSound, Typed
  <1>1. ASSUME NEW loop \in Loops, StartRequest(loop) PROVE StepsHold'
    <2>1. loops[loop] # Idle
      BY <1>1 DEF StartRequest, Idle
    <2>2. executor = Idle /\ page.plan = << >> /\ page.completed = 0
      BY <1>0, <2>1 DEF InStep, LoopsInStep, PageInStep
    <2>3. executor' = executor /\ page' = page
      BY <1>1 DEF StartRequest
    <2> QED
      BY <2>2, <2>3, StepsHoldEmpty
  <1>2. CASE \A loop \in Loops : ~StartRequest(loop)
    <2>1. ~meddled /\ ~AnswerIsLost /\ (disk' = disk \/ DoRename)
      BY <1>2, Unmeddled
    <2>2. PlanFits /\ CheckedHolds /\ executor.phase # "refused"
      BY <2>1 DEF AllInStep, StepsHold
    <2>3. CASE ExecutorStep \/ \E all \in BOOLEAN : BeginSteps(all)
      BY <1>0, <2>2, <2>3, HoldsAfterExecutor DEF AllInStep
    <2>4. CASE ~(ExecutorStep \/ \E all \in BOOLEAN : BeginSteps(all))
      <3>1. executor' = executor /\ disk' = disk /\ ~StepAnswered
        BY <2>1, <2>4, Writers DEF ExecutorStep
      <3>2. ASSUME page'.plan = page.plan, page'.planOf = page.planOf,
                   page'.results = page.results, page'.completed = page.completed
            PROVE  StepsHold'
        BY <2>2, <3>1, <3>2, StepsHoldBeside
      <3>3. CASE UNCHANGED page
        BY <3>2, <3>3
      <3>4. CASE Close \/ \E pair \in Pairs : Navigate(pair)
        BY <1>0, <3>2, <3>4 DEF Close, Navigate, PageState
      <3>5. ASSUME NEW loop \in Loops,
                   FindChecksumMatches(loop) \/ ApplyStatus(loop) \/ StartFails(loop)
                     \/ StatusFails(loop)
            PROVE  StepsHold'
        BY <2>1, <2>2, <3>5, HoldsAfterLoops DEF AllInStep
      <3> QED
        BY <3>1, <3>3, <3>4, <3>5, Writers
    <2> QED
      BY <2>3, <2>4
  <1> QED
    BY <1>1, <1>2

LEMMA AllStaysInStep ==
    ASSUME Patient = TRUE
    PROVE  AllInStep /\ [Next]_vars => AllInStep'
  <1> SUFFICES ASSUME AllInStep, [Next]_vars PROVE AllInStep'
    OBVIOUS
  <1>1. SearchIsSound' /\ Typed
    BY SearchStaysSound DEF AllInStep, SearchIsSound
  <1>2. PlansAreSound' /\ InStep' /\ RightIsPlain' /\ TruthIsKept'
    BY <1>1, PlansStaySound, StaysInStep, RightStaysPlain, TruthStays DEF AllInStep
  <1> QED
    BY <1>1, <1>2, StepsStillHold DEF AllInStep

\* Nothing is ignored on the right, and nothing there has a backup's name: the
\* name carries the time of the backup.
PlainOnTheRight ==
    \A begin \in Initial, pair \in Pairs :
        /\ begin.disk[pair].ignored.right = {}
        /\ \A name \in Spare : begin.disk[pair].right[name] = 0

LEMMA AllInStepAtFirst ==
    ASSUME PlainOnTheRight
    PROVE  Init => AllInStep
  <1> SUFFICES ASSUME Init PROVE AllInStep
    OBVIOUS
  <1>1. SearchIsSound /\ PlansAreSound /\ InStep
    BY SearchSoundAtFirst, PlansSoundAtFirst, InStepAtFirst
  <1>2. RightIsPlain
    BY DEF Init, PlainOnTheRight, RightIsPlain
  <1>3. page.plan = << >> /\ page.completed = 0 /\ executor.phase = "none"
        /\ \A loop \in Loops : loops[loop].phase = "none"
    BY DEF Init, Idle
  <1>4. TruthIsKept
    BY <1>3 DEF TruthIsKept, Searching
  <1>5. StepsHold
    BY <1>3, NothingToDoFits DEF StepsHold, PlanFits, CheckedHolds
  <1> QED
    BY <1>1, <1>2, <1>4, <1>5 DEF AllInStep

LEMMA PlanDoesWork == AllInStep => PlanWorks
  BY MatchesArePlanned DEF AllInStep, StepsHold, PlanWorks, NoStepIsRefused

LEMMA ModalTellsTruth == AllInStep => ModalIsTrue
  <1> SUFFICES ASSUME AllInStep PROVE ModalIsTrue
    OBVIOUS
  <1>1. PlanIsOfPair /\ Typed
    BY DEF AllInStep, SearchIsSound, InStep, PageInStep, PlanIsOfPair
  <1>2. TickedOffIsDone
    <2> SUFFICES ASSUME page.open, ~page.searching, ~meddled, NEW i \in DOMAIN page.plan,
                        i <= page.completed, ~page.plan[i].isBackup
                 PROVE  disk[page.pair].left[page.plan[i].to] = disk[page.pair].right[page.plan[i].to]
      BY DEF TickedOffIsDone
    <2>1. page.planOf = page.pair
      BY <1>1 DEF PlanIsOfPair
    <2>2. page.plan \in Seq(PlanStep) /\ page.completed \in Nat
      BY <1>1 DEF Typed, PageState
    <2>3. i \in 1..Len(page.plan) /\ i \in 1..page.completed
      BY <2>2
    <2>4. PlanFits
      BY DEF AllInStep, StepsHold
    <2>5. CASE executor.phase = "renamed"
      <3>1. executor \in ExecutorState /\ executor # Idle
        BY <1>1, <2>5, ExecutorPhases
      <3>2. executor.at = page.completed + 1
        BY <2>5, <3>1 DEF AllInStep, InStep, ExecutorInStep
      <3>3. i \in 1..executor.at
        BY <2>2, <2>3, <3>2
      <3>4. FilesOf("left")[page.plan[i].to] = FilesOf("right")[page.plan[i].to]
        BY <2>4, <2>5, <3>3 DEF PlanFits, Fits, DoneBehind
      <3> QED
        BY <1>1, <2>1, <3>4, PlansFiles
    <2>6. CASE executor.phase # "renamed"
      <3>1. FilesOf("left")[page.plan[i].to] = FilesOf("right")[page.plan[i].to]
        BY <2>3, <2>4, <2>6 DEF PlanFits, Fits, DoneBehind
      <3> QED
        BY <1>1, <2>1, <3>1, PlansFiles
    <2> QED
      BY <2>5, <2>6
  <1> QED
    BY <1>1, <1>2 DEF ModalIsTrue

\* PlanWorks: the plan of a search carries out every match, and, as long as
\* nobody else writes and no answer is lost, each step finds its source there and
\* its destination free, whatever chains and cycles the matches form.
THEOREM PlanWorksHolds ==
    ASSUME Patient = TRUE, PlainOnTheRight
    PROVE  Spec => []PlanWorks
  BY AllInStepAtFirst, AllStaysInStep, PlanDoesWork, PTL DEF Spec

\* ModalIsTrue: the modal shows the plan of the pair in the panes, and a step it
\* ticks off has given its file the name its counterpart on the right has.
THEOREM ModalIsTrueHolds ==
    ASSUME Patient = TRUE, PlainOnTheRight
    PROVE  Spec => []ModalIsTrue
  BY AllInStepAtFirst, AllStaysInStep, ModalTellsTruth, PTL DEF Spec
=============================================================================
