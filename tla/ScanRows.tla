------------------------------ MODULE ScanRows ------------------------------
(***************************************************************************)
(* The rows an engine and its tool share: one per directory, reduced to    *)
(* its own_outcome ("none" stands for a path without a row). Count-and-size*)
(* and the directory comparison keep one such table each, with the same    *)
(* statements; each operator takes the table and gives the table back.     *)
(***************************************************************************)
EXTENDS ScanPaths

CONSTANT Path   \* the directories considered, closed under ParentPath

\* Mutant of OwnOutcome: the schema does not know 'stopped'.
OutcomeWithoutStopped == { "pending", "error", "done", "partial" }

\* "partial" is a done row with has_unreadable_entries set.
OwnOutcome == { "pending", "error", "stopped", "done", "partial" }

GetSubtree(table, root) ==
    RowSubtree({ path \in Path : table[path] # "none" }, root)

UpsertPending(table, paths) ==
    [path \in Path |-> IF path \in paths THEN "pending" ELSE table[path]]

\* Mutant of RecordOwnResult: the UPDATE without its own_outcome guard.
RecordUnguarded(table, target, result) ==
    [table EXCEPT ![target] = IF @ = "none" THEN @ ELSE result]

\* Both recordOwnResult statements are guarded by own_outcome = 'pending'.
RecordOwnResult(table, target, result) ==
    [table EXCEPT ![target] = IF @ = "pending" THEN result ELSE @]

\* An UPDATE: it has no effect on a path without a row.
MarkStopped(table, paths) ==
    [path \in Path |-> IF path \in paths /\ table[path] # "none"
                         THEN "stopped" ELSE table[path]]

DeleteDirectorySubtree(table, roots) ==
    [path \in Path |-> IF \E root \in roots : IsWithinSubtree(path, root)
                         THEN "none" ELSE table[path]]

GetDirectChildren(table, parent) ==
    { path \in Path : path # Root /\ ParentPath(path) = parent /\ table[path] # "none" }
=============================================================================
