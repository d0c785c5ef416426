-------------------------------- MODULE MCPages --------------------------------
EXTENDS Pages, TLC

\* The pane: two directories of up to five names; 2 and 3 tie.
FiveNames == 1..5
AskedFor(at, dir) == [path |-> at, sortBy |-> "size", sortDir |-> dir]
OpenP == { AskedFor("p", "asc") }
TwoQueries == { AskedFor("p", "asc"), AskedFor("q", "desc") }
Ranks == [size |-> << 7, 5, 5, 9, 11, 10 >>, name |-> << 1, 2, 3, 4, 5, 6 >>]
FiveAndNone == { 1..5, Missing }
MatchingOnly == { "matching" }
ThreeMatch == { << "matching", "matching", "none", "matching_empty", "none" >> }

\* The comparison: two trees, 1 and 2, with a folder 3 in one of them and files 5 and 6.
AllNames == { 1, 2, 3, 5, 6 }
AllFolders == { 1, 2, 3 }
TwoTrees ==
    { << >> :> "folder" @@ << 1 >> :> "folder" @@ << 2 >> :> "folder" @@ << 2, 3 >> :> "folder"
      @@ << 1, 5 >> :> "x" @@ << 2, 5 >> :> "x" @@ << 1, 6 >> :> "y" }
OneOpen == { [left |-> << 1 >>, right |-> << 2 >>] }

\* Count and Size: a directory of three.
ThreeBelow == { << >>, << 1 >>, << 1, 1 >>, << 1, 2 >>, << 1, 3 >> }
Deep == << 1 >>

\* Three copies of one content, two of another; 1 and 2 are directories.
TwoGroups == << 1, 5 >> :> 1 @@ << 2, 5 >> :> 1 @@ << 6 >> :> 1
             @@ << 7 >> :> 2 @@ << 1, 8 >> :> 2
Slash == << >>
=============================================================================
