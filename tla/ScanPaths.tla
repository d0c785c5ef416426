----------------------------- MODULE ScanPaths -----------------------------
(***************************************************************************)
(* Absolute directory paths, and the three notions of "subtree" the code   *)
(* keeps side by side:                                                     *)
(*   - the lexical one of domain/scanning/path-info.ts (IsWithinSubtree);  *)
(*   - the lexical one private to the scan engine (IsInSubtree), which     *)
(*     builds its prefix as root + '/' and so sees nothing below "/";      *)
(*   - the one of the repositories, which walks parent_path from row to    *)
(*     row (RowSubtree) and so stops at a directory that has no row.       *)
(*                                                                         *)
(* A path is the sequence of its names: "/" is <<>>, "/a/b" is <<"a","b">>.*)
(***************************************************************************)
EXTENDS Naturals, Sequences, FiniteSets

Root == << >>

ParentPath(path) == SubSeq(path, 1, Len(path) - 1)

\* The path itself and every directory above it, "/" included.
Lineage(path) == { SubSeq(path, 1, k) : k \in 0..Len(path) }

IsWithinSubtree(path, root) == root \in Lineage(path)

IsInSubtree(path, root) ==
    \/ path = root
    \/ root # Root /\ root \in Lineage(path)

\* Every row reachable from root's own row by following parent_path.
RowSubtree(rows, root) ==
    { path \in rows : /\ IsWithinSubtree(path, root)
                      /\ \A above \in Lineage(path) :
                            IsWithinSubtree(above, root) => above \in rows }

\* The rows matched by `path = root OR path LIKE root || '/%'`.
LexicalSubtree(rows, root) == { path \in rows : IsWithinSubtree(path, root) }

\* All the sequences that list every element of S exactly once.
Orderings(S) ==
    { s \in [1..Cardinality(S) -> S] : \A x \in S : \E i \in DOMAIN s : s[i] = x }
=============================================================================
