--------------------------- MODULE MCComparisonPane ---------------------------
EXTENDS ComparisonPane, TLC

SixNames == 1..6
FiveNames == 1..5
AskedFor(at, dir) == [path |-> at, sortBy |-> "size", sortDir |-> dir]
OpenP == { AskedFor("p", "asc") }
TwoQueries == { AskedFor("p", "asc"), AskedFor("q", "desc") }
OneDirectory == { AskedFor("p", "asc"), AskedFor("p", "desc") }
Ranks == [size |-> << 7, 5, 5, 9, 11, 10 >>]
FiveAndNone == { 1..5, Missing }
AllSix == { 1..6 }
MatchingOnly == { "matching" }

Matching(names) ==
    [name \in Names |-> IF name \in names THEN "matching" ELSE "none"]
ThreeMatch == { Matching({ 1, 2, 4 }) }
MoreMatch == { Matching({ 2 }), Matching({ 1, 2, 3 }) }
=============================================================================
