--------------------------- MODULE DuplicateResults ---------------------------
(***************************************************************************)
(* What the duplicate finder computes from its tables: which files are     *)
(* worth reading, the checksum of a folder, the groups of equal files and  *)
(* folders, and what is left of the groups when a path goes away.          *)
(*                                                                         *)
(* `files` is the table scanned_files, `folders` scanned_directories; a    *)
(* row with seq 0 does not exist. A checksum stands for what was hashed:   *)
(* the full one for the content, the partial one for the content's head,   *)
(* the one of a folder for its tree, a set of << relative path, content >>.*)
(***************************************************************************)
EXTENDS ScanPaths

CONSTANTS
    Dir,        \* the directories that may exist
    File,       \* the files that may exist
    SizeOf,     \* the size of each content
    HeadOf,     \* the first Threshold bytes of each content
    Threshold   \* PARTIAL_CHECKSUM_BYTES

Content == DOMAIN SizeOf

NoSum == "none"

\* What a directory weighs in its parent's checksum besides its children.
Folder == "folder"

Sum == Content \cup { HeadOf[content] : content \in Content } \cup { NoSum }

Place == Dir \cup File

ASSUME ContentAssumption ==
    /\ SizeOf \in [Content -> Nat]
    /\ DOMAIN HeadOf = Content
    /\ Threshold \in Nat
    /\ NoSum \notin Content /\ Folder \notin Content
    /\ \A content \in Content :
          /\ HeadOf[content] # NoSum
          /\ SizeOf[content] <= Threshold => HeadOf[content] = content
    /\ \A place \in Place : place \in Seq(STRING) /\ place # Root
    /\ Dir \cap File = {}
    /\ IsFiniteSet(Place)

\* What contains a path, "/" aside, is a directory.
ASSUME TreeAssumption == \A place \in Place : Lineage(place) \subseteq Dir \cup { Root, place }

\* What a listing says of a file: its size and its modification time. The
\* code sees the size of the content only.
Absent == [content |-> NoSum, mtime |-> 0]

NoFile == [seq |-> 0, facts |-> Absent, partial |-> NoSum, full |-> NoSum,
           failed |-> FALSE]

NoFolder == [seq |-> 0, incomplete |-> FALSE]

FileSize(facts) == SizeOf[facts.content]

IsSmall(facts) == FileSize(facts) <= Threshold

IsIgnored(path, ignored) == Lineage(path) \cap ignored # {}

Under(path) == { file \in File : IsWithinSubtree(file, path) }

-----------------------------------------------------------------------------
(* Listing *)

\* Mutant of SameFacts: a file of the same size is the same file.
SameSize(row, facts) == row.seq # 0 /\ FileSize(row.facts) = FileSize(facts)

\* Whether the checksums recorded for a file still stand.
SameFacts(row, facts) ==
    /\ row.seq # 0
    /\ FileSize(row.facts) = FileSize(facts)
    /\ row.facts.mtime = facts.mtime

\* `found` is a set of [path, facts]; checksums survive unchanged facts only.
UpsertFileFacts(files, found, seq) ==
    [file \in File |->
        IF \E entry \in found : entry.path = file
        THEN LET facts == (CHOOSE entry \in found : entry.path = file).facts
                 kept == SameFacts(files[file], facts)
             IN  [seq |-> seq, facts |-> facts, failed |-> FALSE,
                  partial |-> IF kept THEN files[file].partial ELSE NoSum,
                  full |-> IF kept THEN files[file].full ELSE NoSum]
        ELSE files[file]]

-----------------------------------------------------------------------------
(* Hashing *)

Readable(files, seq) ==
    { file \in File : files[file].seq = seq /\ ~files[file].failed }

\* Mutant of FindSharedSizeCandidates: a file already hashed is no partner.
FindUnhashedCandidates(files, seq) ==
    { file \in Readable(files, seq) :
        \E other \in Readable(files, seq) \ { file } :
            /\ files[other].full = NoSum
            /\ FileSize(files[other].facts) = FileSize(files[file].facts) }

FindSharedSizeCandidates(files, seq) ==
    { file \in Readable(files, seq) :
        \E other \in Readable(files, seq) \ { file } :
            FileSize(files[other].facts) = FileSize(files[file].facts) }

FindSharedPartialCandidates(files, seq) ==
    { file \in Readable(files, seq) :
        /\ files[file].partial # NoSum /\ files[file].full = NoSum
        /\ ~IsSmall(files[file].facts)
        /\ \E other \in Readable(files, seq) \ { file } :
              /\ FileSize(files[other].facts) = FileSize(files[file].facts)
              /\ files[other].partial = files[file].partial }

Coalesce(new, old) == IF new = NoSum THEN old ELSE new

RecordChecksums(files, file, partial, full) ==
    IF files[file].seq = 0
    THEN files
    ELSE [files EXCEPT ![file].partial = Coalesce(partial, @),
                       ![file].full = Coalesce(full, @),
                       ![file].failed = FALSE]

RecordReadError(files, file) ==
    IF files[file].seq = 0 THEN files ELSE [files EXCEPT ![file].failed = TRUE]

Hashed(files, seq) ==
    { file \in Readable(files, seq) : files[file].full # NoSum }

FindSharedContentPaths(files, seq) ==
    { file \in Hashed(files, seq) :
        \E other \in Hashed(files, seq) \ { file } :
            files[other].full = files[file].full }

-----------------------------------------------------------------------------
(* Folders *)

Name(path) == path[Len(path)]

\* No checksum can be derived for the folder.
Underivable == { << << >>, NoSum >> }

FolderTree(dir, leaves, trees, inner) ==
    { << << Name(file) >>, leaves[file] >> : file \in DOMAIN leaves } \cup
    UNION { { << << Name(child) >>, Folder >> } \cup
            { << << Name(child) >> \o node[1], node[2] >> : node \in trees[child] }
            : child \in inner }

\* Every directory recorded by the scan, deepest first: its checksum, unless
\* it or a child of it is ignored, unreadable, unique or itself underivable.
DeriveFolders(files, folders, ignored, seq) ==
    LET shared == FindSharedContentPaths(files, seq)
        leaf(dir) == { file \in File : /\ files[file].seq = seq
                                       /\ ParentPath(file) = dir }
        inner(dir) == { child \in Place : /\ folders[child].seq = seq
                                          /\ ParentPath(child) = dir }
        tree[dir \in Place] ==
            IF /\ folders[dir].seq = seq
               /\ ~folders[dir].incomplete
               /\ \A path \in { dir } \cup leaf(dir) \cup inner(dir) :
                     ~IsIgnored(path, ignored)
               /\ leaf(dir) \subseteq shared
               /\ \A child \in inner(dir) : tree[child] # Underivable
            THEN FolderTree(dir, [file \in leaf(dir) |-> files[file].full],
                            tree, inner(dir))
            ELSE Underivable
    IN  tree

-----------------------------------------------------------------------------
(* Groups *)

Group(kind, sum, paths) == [kind |-> kind, sum |-> sum, paths |-> paths]

AreMany(group) == Cardinality(group.paths) > 1

FindDuplicateFileGroups(files, seq) ==
    LET copies(file) == { other \in Hashed(files, seq) :
                            files[other].full = files[file].full }
    IN  { Group("file", { << << >>, files[file].full >> }, copies(file))
          : file \in FindSharedContentPaths(files, seq) }

FindDuplicateDirectoryGroups(tree) ==
    LET derived == { dir \in DOMAIN tree : tree[dir] # Underivable }
        twins(dir) == { other \in derived : tree[other] = tree[dir] }
    IN  { group \in { Group("directory", tree[dir], twins(dir)) : dir \in derived } :
            AreMany(group) }

\* Mutant of WithoutIgnored: the walk is trusted to have left them out.
KeepIgnored(groups, ignored) == groups

WithoutIgnored(groups, ignored) ==
    { group \in { [group EXCEPT !.paths = { path \in @ : ~IsIgnored(path, ignored) }]
                  : group \in groups } : AreMany(group) }

\* Mutant of ExplainedByOne: the walk upwards begins at the path itself.
ExplainsItself(paths, folderGroups) ==
    \E group \in folderGroups :
        \A path \in paths : Lineage(path) \cap group.paths # {}

\* One group of duplicated folders holds every one of the paths.
ExplainedByOne(paths, folderGroups) ==
    \E group \in folderGroups :
        \A path \in paths : (Lineage(path) \ { path }) \cap group.paths # {}

BuildGroups(files, folders, ignored, seq, includeFolders) ==
    LET tree == DeriveFolders(files, folders, ignored, seq)
        fileGroups == WithoutIgnored(FindDuplicateFileGroups(files, seq), ignored)
        folderGroups ==
            IF includeFolders
            THEN WithoutIgnored(FindDuplicateDirectoryGroups(tree), ignored)
            ELSE {}
    IN  { group \in folderGroups \cup fileGroups :
            ~ExplainedByOne(group.paths, folderGroups) }

\* Without one path; a group left with one copy goes with it.
RemoveOccurrence(groups, path) ==
    { group \in { [group EXCEPT !.paths = @ \ { path }] : group \in groups } :
        AreMany(group) }

\* Mutant of PruneUnder: a group left with one copy stays.
PruneKeepsSingles(groups, path) ==
    { [group EXCEPT !.paths = { p \in @ : ~IsWithinSubtree(p, path) }]
      : group \in groups }

\* Without the paths at or beneath one.
PruneUnder(groups, path) ==
    { group \in { [group EXCEPT !.paths = { p \in @ : ~IsWithinSubtree(p, path) }]
                  : group \in groups } : AreMany(group) }
=============================================================================
