---------------------------- MODULE MCDuplicateScan ----------------------------
(* Finite instances of the duplicate finder.                               *)
EXTENDS DuplicateScan

R == << "r" >>
D == << "r", "d" >>
E == << "r", "e" >>
A == << "r", "a" >>
DA == << "r", "d", "a" >>
DB == << "r", "d", "b" >>
EA == << "r", "e", "a" >>
DV == << "r", "d", "v" >>

\* Two large contents with the same size and head, and a small one.
Sizes == [x |-> 3, y |-> 3, s |-> 1]
Heads == [x |-> "h", y |-> "h", s |-> "s"]
LargeSizes == [x |-> 3, y |-> 3]
LargeHeads == [x |-> "h", y |-> "h"]

OneDir == { R, D }
ThreeFiles == { A, DA, DB }
TwoSame == [f \in ThreeFiles |-> IF f = DB THEN "y" ELSE "x"]
Hollow == { R, D, DV, E }
Twins == { R, D, E }
TwinFiles == { A, DA, EA }
AllSame == [f \in TwinFiles |-> "x"]

Nothing == { }
JustR == { R }
JustD == { D }
JustA == { A }
JustDV == { DV }
AAndD == { A, D }
AAndDA == { A, DA }
TwinCopies == { A, DA, E }
AGrowsDAShrinks == { << A, "y" >>, << DA, "s" >> }

ADE == { A, D, E }
JustEA == { EA }
TwinsChange == { << DA, "y" >>, << EA, "y" >> }

NoFolders == { FALSE }
WithFolders == { TRUE }
NoCache == { "miss" }
AnyCache == { "miss", "partial", "full" }
=============================================================================
