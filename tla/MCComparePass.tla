---------------------------- MODULE MCComparePass ----------------------------
(***************************************************************************)
(* A directory /d with one or two files, and a path /k that is a directory *)
(* on the left and may be a file on the right. Contents 1 and 2 begin      *)
(* alike, 3 has their size, 4 has not.                                     *)
(***************************************************************************)
EXTENDS ComparePass

D == << "d" >>
F == << "d", "f" >>
G == << "d", "g" >>
K == << "k" >>

Sizes == [c \in 1..4 |-> IF c = 4 THEN 2 ELSE 1]
Beginnings == [c \in 1..4 |-> IF c = 2 THEN 1 ELSE c]
Alike == 1..2
AllContents == 1..4
SizesAlike == [c \in Alike |-> Sizes[c]]
BeginningsAlike == [c \in Alike |-> Beginnings[c]]
OneAndFour == { 1, 4 }
SizesOneFour == [c \in OneAndFour |-> Sizes[c]]
BeginningsOneFour == [c \in OneAndFour |-> Beginnings[c]]

SmallDirs == { Root, D }
SmallFiles == { F }
TwoFiles == { F, G }
KindDirs == { Root, D, K }
KindFiles == { F, K }

\* The left side holds every directory and content 1 in every other file; the
\* right side is any tree.
Trees == { tree \in [dirs : SUBSET Dirs, files : [Files -> Content \cup {0}]] : IsTree(tree) }
AllLeft == [dirs |-> Dirs, files |-> [file \in Files |-> IF file \in Dirs THEN 0 ELSE 1]]
AnyRight == { [left |-> AllLeft, right |-> tree] : tree \in Trees }
TwoAlike == { [left |-> AllLeft, right |-> AllLeft] }

Full == { "full" }
Incremental == { "incremental" }
Both == { "incremental", "full" }
None == {}
OnlyG == { G }
OnlyK == { K }
OnF == { << "left", F >> }
OnRoot == { << "left", Root >> }
OnListing == { "listing" }
OnHash == { "hash" }
Anytime == { "off", "listing", "hash" }
=============================================================================
