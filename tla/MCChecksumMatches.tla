-------------------------- MODULE MCChecksumMatches --------------------------
(***************************************************************************)
(* One directory of up to four files beside another: a chain, a swap and a *)
(* loop of three, copies of one content, an occupied name at a chain's     *)
(* end, rows already compared. A second pair has a file or two.            *)
(***************************************************************************)
EXTENDS ChecksumMatches, TLC

P == "p"
Q == "q"
OnePair == { P }
TwoPairs == { P, Q }
FourNames == 1..4
TwoNames == 1..2
TwoContents == 1..2
OneSpare == { 9 }
TwoSpare == { 9, 10 }
FourContents == 1..4
OneLoop == { 1 }
TwoLoops == { 1, 2 }
Nobody == {}
OnlyName2 == { 2 }

Padded(files) == [name \in AllNames |-> IF name \in DOMAIN files THEN files[name] ELSE 0]

\* Rows say "matching" only of files that were equal.
Equal(left, right) == { name \in DOMAIN left : left[name] = right[name] /\ left[name] # 0 }

Disk(left, right, settled, ignored) ==
    [left |-> Padded(left), right |-> Padded(right), settled |-> settled, ignored |-> ignored]

NoneIgnored == [left |-> {}, right |-> {}]

Nothing == Disk(<< >>, << >>, {}, NoneIgnored)
Beside(first) == [pair \in Pairs |-> IF pair = P THEN first ELSE Nothing]

\* Any right side; on the left, two copies and another file.
AnyRight ==
    { Disk(left, right, {}, NoneIgnored) :
        left \in { << 1, 1, 2 >> }, right \in [1..3 -> 0..3] }

\* Loops, chains and both at once, with rows of the comparison.
Sequenced ==
    { Disk(<< 1, 2, 3, 4 >>, right, Equal(<< 1, 2, 3, 4 >>, right), NoneIgnored) :
        right \in { << 2, 1, 4, 3 >>, << 4, 1, 2, 3 >>, << 3, 1, 2, 4 >>, << 2, 1, 0, 3 >>,
                    << 0, 1, 2, 3 >>, << 0, 4, 1, 2 >>, << 0, 1, 3, 4 >>, << 2, 3, 1, 4 >>, << 0, 1, 0, 2 >> } }

Swap == Disk(<< 1, 2 >>, << 2, 1 >>, {}, NoneIgnored)

\* The name a file should get is on the right only, and ignored.
Ghost == Disk(<< 1, 0 >>, << 0, 1 >>, {}, [left |-> {}, right |-> { 2 }])

Begin(first, count) == [disk |-> Beside(first), pair |-> P, faults |-> count]

Many == { Begin(files, 0) : files \in AnyRight \cup Sequenced } \cup { Begin(Swap, 1) }
OneSwap == { Begin(Swap, 0) }
OneSwapRaced == { Begin(Swap, 1) }
OneGhost == { Begin(Ghost, 0) }
=============================================================================
