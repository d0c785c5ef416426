--------------------------- MODULE MCDuplicatePages ---------------------------
EXTENDS DuplicatePages, TLC

\* Three copies of one content, two of another; 1 and 2 are directories.
TwoGroups == << 1, 5 >> :> 1 @@ << 2, 5 >> :> 1 @@ << 6 >> :> 1
             @@ << 7 >> :> 2 @@ << 1, 8 >> :> 2

\* The same without directories below.
Flat == << 5 >> :> 1 @@ << 6 >> :> 1 @@ << 7 >> :> 1 @@ << 8 >> :> 2 @@ << 9 >> :> 2
=============================================================================
