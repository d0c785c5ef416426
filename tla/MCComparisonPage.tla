--------------------------- MODULE MCComparisonPage ---------------------------
EXTENDS ComparisonPage

\* Folders 1 and 2 are the two trees; 3 is a folder in both, 5 and 6 are files.
AllNames == { 1, 2, 3, 5, 6 }
ByName == [name |-> << 1, 2, 3, 4, 5, 6 >>]
AllFolders == { 1, 2, 3 }
TwoTrees ==
    { << >> :> Folder @@ << 1 >> :> Folder @@ << 2 >> :> Folder
      @@ << 1, 5 >> :> "x" @@ << 2, 5 >> :> "x" @@ << 1, 6 >> :> "y"
      @@ << 2, 3 >> :> Folder }
OneOpen == { [left |-> << 1 >>, right |-> << 2 >>] }
SameOpen == { [left |-> << 1 >>, right |-> << 1 >>] }
=============================================================================
