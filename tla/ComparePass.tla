----------------------------- MODULE ComparePass -----------------------------
(***************************************************************************)
(* The data of one directory comparison: the rows Pass 1 leaves for files  *)
(* and directories, and Pass 2 (compareSubtree), which pairs them by name, *)
(* hashes what it must, derives directory checksums bottom-up and takes    *)
(* shortcuts through what earlier comparisons left. Between comparisons,   *)
(* and whenever Pass 2 awaits a read, files change on disk and the user    *)
(* ignores entries or presses Stop.                                        *)
(*                                                                         *)
(* Paths are relative to the two compared roots, so the two entries of a   *)
(* pair have the same path on each side. Of Pass 1's engine there is what  *)
(* a Stop leaves in it: the mark on the two roots, and the listing that is *)
(* in flight. The order of the listings is left open; ComparisonPipeline   *)
(* models what decides it, and the queue of comparisons.                   *)
(***************************************************************************)
EXTENDS ScanPaths

CONSTANTS
    Dirs, Files,        \* the paths that can be directories, and files
    Content,            \* what a file can hold: positive numbers
    SizeOf, PartialOf,  \* the size of a content, and what its first 64 KiB hash to
    Initial,            \* the trees there can be on the two sides at first
    Modes,              \* "incremental", "full"
    Unreadable,         \* files that may fail to be read, or even be listed
    MayEdit,            \* files that can be written or created
    MayDelete,          \* paths that can be deleted, with what is below
    MayIgnore,          \* entries, << side, path >>, that can be ignored
    MayUnignore,        \* entries of which that can be taken back
    StopPhases,         \* "off", "listing", "hash": when Stop may be pressed
    MayCrash,           \* whether the process can be killed and restarted
    MaxEvents           \* bound on requests, edits and restarts

Side == { "left", "right" }

\* What is on one side: the directories, and the content of each file, or 0.
IsTree(tree) ==
    /\ tree.dirs \subseteq Dirs /\ Root \in tree.dirs
    /\ tree.files \in [Files -> Content \cup {0}]
    /\ \A path \in Dirs \cup Files :
          path # Root /\ (path \in tree.dirs \/ (path \in Files /\ tree.files[path] # 0))
            => ParentPath(path) \in tree.dirs
    /\ \A path \in Files \cap tree.dirs : tree.files[path] = 0

ASSUME PassAssumption ==
    /\ Dirs \cup Files \subseteq Seq(STRING) /\ IsFiniteSet(Dirs \cup Files)
    /\ Root \in Dirs \ Files
    /\ \A path \in (Dirs \cup Files) \ { Root } : ParentPath(path) \in Dirs
    /\ Content \subseteq Nat \ {0}
    /\ SizeOf \in [Content -> Nat] /\ PartialOf \in [Content -> Content]
    /\ \A trees \in Initial : \A side \in Side : IsTree(trees[side])
    /\ Modes \subseteq { "incremental", "full" }
    /\ Unreadable \cup MayEdit \subseteq Files /\ MayDelete \subseteq Dirs \cup Files
    /\ MayIgnore \subseteq Side \X (Dirs \cup Files)
    /\ MaxEvents \in Nat

VARIABLES
    disk,      \* what each file holds, and its modification time as a version
    dirs,      \* the directories that exist on each side
    node,      \* directory_comparison_nodes of each side
    facts,     \* file_checksums of each side
    ignored,   \* ignored_paths
    at,        \* "off", "listing", "run" (Pass 2 has the thread), "hash" (it awaits)
    mode,      \* of the latest comparison
    toList,    \* what Pass 1 still has to list on each side
    stopMark,  \* stoppedRoots: empty, or the two roots
    leftover,  \* the listing in flight that nobody waits for, after a Stop
    frames,    \* the activations of compareSubtree, innermost last
    held,      \* what they read when they were entered, by directory
    pair,      \* the activation of compareFilePair, or NoPair
    aborted,   \* the signal of Pass 2's AbortController
    progress,  \* file pairs resolved, of the total counted at the start
    events,    \* how many of the MaxEvents have happened
    clean,     \* history: a comparison has begun, and since then neither disk nor
               \* ignored paths changed and nobody stopped it
    quiet,     \* history: it began with no Stop on the engine's mind
    settled    \* history: a comparison was completed without read errors, and
               \* the same holds since

worldVars == << disk, dirs, ignored >>
rowVars == << node, facts >>
engineVars == << toList, stopMark, leftover >>
passVars == << at, mode, engineVars, frames, held, pair, aborted, progress >>
historyVars == << clean, quiet, settled >>
vars == << worldVars, rowVars, passVars, events, historyVars >>

-----------------------------------------------------------------------------
(* Rows. 0 and {} stand for NULL: a checksum of a file is a number, that of *)
(* a directory a singleton holding the set of its children's descriptors.  *)

NoFile == [content |-> 0, version |-> 0]

\* checksummed_at is NULL exactly while both checksums are, and it is never
\* older than the modification time listed before it; so it is not kept.
NoFacts == [size |-> 0, version |-> 0, partial |-> 0, full |-> 0, failed |-> FALSE]

NoNode == [outcome |-> "none", unreadable |-> FALSE, checksum |-> {}, resolved |-> FALSE]

NoNodes == [side \in Side |-> [dir \in Dirs |-> NoNode]]
NoFileRows == [side \in Side |-> [file \in Files |-> NoFacts]]

KnownDirs(side) == { dir \in Dirs : node[side][dir].outcome # "none" }
KnownFiles(side) == { file \in Files : facts[side][file].version # 0 }

\* The lists of getDirectChildren, and of a directory on disk.
ChildrenOf(dir, paths) == { path \in paths : path # Root /\ ParentPath(path) = dir }

\* Mutant of Pending: a directory listed before keeps its outcome.
ListedBefore(row) ==
    [row EXCEPT !.outcome = IF @ = "done" THEN @ ELSE "pending", !.unreadable = FALSE]

\* upsertPendingDirectory: the checksum and the mark of Pass 2 survive.
Pending(row) == [row EXCEPT !.outcome = "pending", !.unreadable = FALSE]

\* recordDirectoryOwnResult, guarded by own_outcome = 'pending'.
OwnResult(row, outcome, unreadable) ==
    IF row.outcome # "pending" THEN row
    ELSE [row EXCEPT !.outcome = outcome, !.unreadable = unreadable]

\* markStopped on what is pending, by Stop or by a restart.
StoppedRows(table) ==
    [side \in Side |-> [dir \in Dirs |->
        IF table[side][dir].outcome = "pending"
          THEN [table[side][dir] EXCEPT !.outcome = "stopped"]
          ELSE table[side][dir]]]

FreshFacts(file) ==
    [NoFacts EXCEPT !.size = SizeOf[file.content], !.version = file.version]

\* Mutant of FileFacts: every listing drops the checksums.
DropsChecksums(row, file) == FreshFacts(file)

\* upsertFileFacts: the checksums of a file that has not changed are kept.
FileFacts(row, file) ==
    IF row.version = file.version /\ row.size = SizeOf[file.content]
      THEN row ELSE FreshFacts(file)

\* clearChecksumsInSubtree; has_read_error is left as it is.
ClearedFacts(row) == [row EXCEPT !.partial = 0, !.full = 0]
ClearedNode(row) == [row EXCEPT !.checksum = {}, !.resolved = FALSE]

\* recordContentReadFailure, of the row there is.
UnreadDir(row) == IF row.outcome = "none" THEN row ELSE [row EXCEPT !.unreadable = TRUE]
UnreadFile(row) == IF row.version = 0 THEN row ELSE [row EXCEPT !.failed = TRUE]

\* isIgnored is asked of the entries a side has.
PairIgnored(path) ==
    \E side \in Side : /\ << side, path >> \in ignored
                       /\ path \in KnownDirs(side) \cup KnownFiles(side)

DirsBelow(side, dir) ==
    { below \in KnownDirs(side) : IsWithinSubtree(below, dir) /\ below # dir }
FilesBelow(side, dir) == { file \in KnownFiles(side) : IsWithinSubtree(file, dir) }

\* Mutant of IsCacheStillValid: only the directories are looked at.
CacheTrusted(row, side, dir) ==
    /\ row.checksum # {}
    /\ \A below \in DirsBelow(side, dir) : node[side][below].checksum # {}

Vouches(row) == row.checksum # {} /\ ~row.unreadable /\ row.outcome = "done"

\* The row held of the directory and those known below vouch for its checksum.
IsCacheStillValid(row, side, dir) ==
    /\ Vouches(row)
    /\ \A below \in DirsBelow(side, dir) : Vouches(node[side][below])
    /\ \A file \in FilesBelow(side, dir) :
          facts[side][file].partial # 0 \/ facts[side][file].full # 0

IsEmptyDirectorySubtree(row, side, dir) ==
    /\ row.outcome = "done" /\ ~row.unreadable
    /\ \A below \in DirsBelow(side, dir) :
          node[side][below].outcome = "done" /\ ~node[side][below].unreadable
    /\ FilesBelow(side, dir) = {}

\* Mutant of CountFilePairs: pairs below an ignored entry are counted too.
CountIgnoredPairs(dir) ==
    Cardinality({ file \in KnownFiles("left") \cap KnownFiles("right") :
                      IsWithinSubtree(file, dir) })

\* The pairs compareFilePair will be called for below a pair of directories.
FilePairs(dir) ==
    { file \in KnownFiles("left") \cap KnownFiles("right") :
        /\ IsWithinSubtree(file, dir)
        /\ \A path \in Lineage(file) : IsWithinSubtree(path, dir) /\ path # dir =>
              /\ ~PairIgnored(path)
              /\ path # file => path \in KnownDirs("left") \cap KnownDirs("right") }

CountFilePairs(dir) == Cardinality(FilePairs(dir))

-----------------------------------------------------------------------------
(* Pass 1 *)

NoPair == [file |-> Root]
NoProgress == [processed |-> 0, total |-> 0]
NothingToList == [side \in Side |-> {}]
NothingHeld == [dir \in Dirs |-> [node |-> NoNodes, facts |-> NoFileRows]]

Init ==
    /\ \E trees \in Initial :
          /\ disk = [side \in Side |-> [file \in Files |->
                        IF trees[side].files[file] = 0 THEN NoFile
                        ELSE [content |-> trees[side].files[file], version |-> 1]]]
          /\ dirs = [side \in Side |-> trees[side].dirs]
    /\ node = NoNodes /\ facts = NoFileRows
    /\ ignored = {}
    /\ at = "off" /\ mode = "incremental"
    /\ toList = NothingToList /\ stopMark = FALSE /\ leftover = {}
    /\ frames = << >> /\ held = NothingHeld /\ pair = NoPair
    /\ aborted = FALSE /\ progress = NoProgress
    /\ events = 0
    /\ clean = FALSE /\ quiet = FALSE /\ settled = FALSE

Event == events < MaxEvents /\ events' = events + 1

\* runOne: a full comparison first clears both subtrees; both roots are queued.
Compare(m) ==
    /\ at = "off" /\ Event
    /\ at' = "listing" /\ mode' = m
    /\ toList' = [side \in Side |-> { Root }]
    /\ LET Begun(row) == IF m = "full" THEN ClearedNode(row) ELSE row
       IN  node' = [side \in Side |-> [dir \in Dirs |->
                       IF dir = Root THEN Pending(Begun(node[side][dir]))
                       ELSE Begun(node[side][dir])]]
    /\ facts' = IF m # "full" THEN facts
                ELSE [side \in Side |-> [file \in Files |-> ClearedFacts(facts[side][file])]]
    /\ clean' = TRUE /\ quiet' = ~stopMark
    /\ UNCHANGED << worldVars, stopMark, leftover, frames, held, pair, aborted,
                    progress, settled >>

\* The listing that is in flight comes before those that wait for the engine.
InTurn(side, dir) ==
    IF leftover # {} THEN << side, dir >> \in leftover ELSE dir \in toList[side]

\* runLoop after a listing: the children are queued unless the roots bear the
\* mark of a Stop, which stays until nothing is left to list.
LoopGoesOn(side, dir, kids) ==
    /\ toList' = IF leftover # {} THEN toList
                 ELSE [toList EXCEPT ![side] = (@ \ { dir }) \cup (IF stopMark THEN {} ELSE kids)]
    /\ leftover' = leftover \ { << side, dir >> }
    /\ stopMark' = (stopMark /\ (leftover' # {} \/ toList' # NothingToList))

\* listEntries returns without having listed anything.
OnlyRecord(side, dir, outcome) ==
    /\ node' = [node EXCEPT ![side][dir] = OwnResult(@, outcome, FALSE)]
    /\ LoopGoesOn(side, dir, {})
    /\ UNCHANGED facts

\* A child's row, made pending by the listing; under the mark the loop stops it.
ChildRow(row) ==
    IF stopMark THEN [Pending(row) EXCEPT !.outcome = "stopped"] ELSE Pending(row)

\* The children on disk replace those known; hidden ones could not be stat'ed.
ListChildren(side, dir, hidden) ==
    LET files == { file \in ChildrenOf(dir, Files) :
                     disk[side][file] # NoFile } \ hidden
        kids == ChildrenOf(dir, dirs[side])
        gone == ChildrenOf(dir, KnownDirs(side)) \ kids
        Pruned(path) == \E top \in gone : IsWithinSubtree(path, top)
    IN  /\ facts' = [facts EXCEPT ![side] = [file \in Files |->
               IF file \in files THEN FileFacts(@[file], disk[side][file])
               ELSE IF ParentPath(file) = dir \/ Pruned(file) THEN NoFacts
               ELSE @[file]]]
        /\ node' = [node EXCEPT ![side] = [below \in Dirs |->
               IF below = dir THEN OwnResult(@[below], "done", hidden # {})
               ELSE IF below \in kids THEN ChildRow(@[below])
               ELSE IF Pruned(below) THEN NoNode
               ELSE @[below]]]
        /\ LoopGoesOn(side, dir, kids)

\* A listing ends: of the comparison in Pass 1, or, whatever there is by now, a
\* leftover one.
List(side, dir) ==
    /\ at # "run" /\ InTurn(side, dir)
    /\ \/ << side, dir >> \in ignored /\ OnlyRecord(side, dir, "done")
       \/ /\ << side, dir >> \notin ignored /\ dir \notin dirs[side]
          /\ OnlyRecord(side, dir, "error")
       \/ /\ << side, dir >> \notin ignored /\ dir \in dirs[side]
          /\ \E hidden \in SUBSET { file \in ChildrenOf(dir, Unreadable) :
                                      disk[side][file] # NoFile } :
                ListChildren(side, dir, hidden)
    /\ UNCHANGED << worldVars, at, mode, frames, held, pair, aborted, progress,
                    events, historyVars >>

-----------------------------------------------------------------------------
(* Pass 2: compareSubtree. Between two reads of file contents nothing else *)
(* runs; at a read a leftover listing can end, and change rows of which an *)
(* activation holds what it read when it was entered.                      *)

Activation(dir) ==
    [dir |-> dir, entered |-> FALSE, todo |-> {}, same |-> TRUE, errs |-> {}, kids |-> {}]

Top == frames[Len(frames)]
Rest == SubSeq(frames, 1, Len(frames) - 1)
Name(path) == path[Len(path)]

\* The result of one entry, taken into the activation of its directory. A
\* checksum is a singleton, or {} when the entry does not match.
Taken(frame, path, kind, checksum, errs) ==
    [frame EXCEPT !.same = @ /\ checksum # {},
                  !.errs = @ \cup errs,
                  !.kids = @ \cup { << Name(path), kind, value >> : value \in checksum }]

\* compareSubtree returns to the activation below it, if there is one.
Returned(checksum, errs) ==
    IF Rest = << >> THEN << >>
    ELSE [Rest EXCEPT ![Len(Rest)] = Taken(@, Top.dir, "directory", checksum, errs)]

Entries(table) == UNION { { << side, dir >> : dir \in table[side] } : side \in Side }

\* The poll finds no pending row; a root whose row a leftover listing has settled
\* may still await its own. worker.run counts the total before it compares.
StartPass2 ==
    /\ at = "listing"
    /\ \A side \in Side, dir \in Dirs : node[side][dir].outcome # "pending"
    /\ at' = "run"
    /\ leftover' = leftover \cup Entries(toList) /\ toList' = NothingToList
    /\ progress' = [processed |-> 0, total |-> CountFilePairs(Root)]
    /\ frames' = << Activation(Root) >>
    /\ UNCHANGED << worldVars, rowVars, mode, stopMark, held, pair, aborted, events,
                    historyVars >>

InError(row) == row.outcome = "error" \/ row.unreadable
HasError(side, dir) == InError(node[side][dir])

\* leftNode or rightNode: what the activation above has read, or run itself.
HeldNode(side, dir) ==
    IF dir = Root THEN node[side][dir] ELSE held[ParentPath(dir)].node[side][dir]

CacheHit(dir) ==
    /\ mode = "incremental"
    /\ HeldNode("left", dir).checksum # {}
    /\ HeldNode("left", dir).checksum = HeldNode("right", dir).checksum
    /\ \A side \in Side : IsCacheStillValid(HeldNode(side, dir), side, dir)

\* The prologue of compareSubtree: the pair is skipped, answered, or begun.
Enter ==
    /\ at = "run" /\ frames # << >> /\ ~Top.entered /\ ~aborted
    /\ LET dir == Top.dir
           skipped == \E side \in Side : << side, dir >> \in ignored
       IN  \/ /\ skipped
              /\ frames' = Returned({}, {})
              /\ UNCHANGED << node, held, progress >>
           \/ /\ ~skipped /\ CacheHit(dir)
              /\ node' = [side \in Side |-> [below \in Dirs |->
                     [node[side][below] EXCEPT !.resolved =
                         @ \/ (IsWithinSubtree(below, dir) /\ node[side][below].checksum # {})]]]
              /\ progress' = [progress EXCEPT !.processed = @ + CountFilePairs(dir)]
              /\ frames' = Returned(HeldNode("left", dir).checksum, {})
              /\ held' = held
           \/ /\ ~skipped /\ ~CacheHit(dir)
              /\ frames' = Append(Rest, [Top EXCEPT
                     !.entered = TRUE,
                     !.todo = UNION { ChildrenOf(dir, KnownDirs(side) \cup KnownFiles(side)) :
                                        side \in Side },
                     !.errs = { side \in Side : InError(HeldNode(side, dir)) }])
              /\ held' = [held EXCEPT ![dir] = [node |-> node, facts |-> facts]]
              /\ UNCHANGED << node, progress >>
    /\ UNCHANGED << worldVars, facts, at, mode, engineVars, pair, aborted, events, historyVars >>

Loops == at = "run" /\ frames # << >> /\ Top.entered /\ pair = NoPair

\* What the innermost activation has read of its entries.
Seen == held[Top.dir]

KindOn(side, path) ==
    IF path \in Dirs /\ Seen.node[side][path].outcome # "none" THEN "directory"
    ELSE IF path \in Files /\ Seen.facts[side][path].version # 0 THEN "file" ELSE "none"

EntryIgnored(path) ==
    \E side \in Side : << side, path >> \in ignored /\ KindOn(side, path) # "none"

\* An empty directory that the other side lacks counts as absent.
CountsAsAbsent(path) ==
    \E side, other \in Side :
        /\ KindOn(side, path) = "directory" /\ KindOn(other, path) = "none"
        /\ IsEmptyDirectorySubtree(Seen.node[side][path], side, path)

\* The values compareFilePair starts from: those of a failed file are not used.
Cached(row) ==
    [size |-> row.size, partial |-> IF row.failed THEN 0 ELSE row.partial,
     full |-> IF row.failed THEN 0 ELSE row.full]

NextEntry(path) ==
    /\ Loops /\ ~aborted /\ path \in Top.todo
    /\ LET left == KindOn("left", path)
           right == KindOn("right", path)
           rest == [Top EXCEPT !.todo = @ \ { path }]
       IN  \/ /\ EntryIgnored(path) \/ CountsAsAbsent(path)
              /\ frames' = Append(Rest, rest)
              /\ UNCHANGED pair
           \/ /\ ~EntryIgnored(path) /\ ~CountsAsAbsent(path) /\ left # right
              /\ frames' = Append(Rest, [rest EXCEPT !.same = FALSE])
              /\ UNCHANGED pair
           \/ /\ ~EntryIgnored(path) /\ left = "directory" /\ right = "directory"
              /\ frames' = Append(Rest, rest) \o << Activation(path) >>
              /\ UNCHANGED pair
           \/ /\ ~EntryIgnored(path) /\ left = "file" /\ right = "file"
              /\ frames' = Append(Rest, rest)
              /\ pair' = [file |-> path, errs |-> {},
                          seen |-> [side \in Side |-> Cached(Seen.facts[side][path])]]
    /\ UNCHANGED << worldVars, rowVars, at, mode, engineVars, held, aborted, progress,
                    events, historyVars >>

-----------------------------------------------------------------------------
(* compareFilePair *)

\* nextCascadeStep: a verdict, or the checksum both sides need next.
NextCascadeStep(left, right) ==
    CASE left.size # right.size -> "differs"
      [] left.size = right.size /\ 0 \in { left.partial, right.partial } -> "partial"
      [] /\ left.size = right.size /\ 0 \notin { left.partial, right.partial }
         /\ left.partial # right.partial -> "differs"
      [] OTHER -> IF 0 \in { left.full, right.full } THEN "full"
                  ELSE IF left.full # right.full THEN "differs" ELSE "matching"

Stage == NextCascadeStep(pair.seen["left"], pair.seen["right"])

\* The sides still to be read for the stage, the left one first; a side that
\* could not be read does not keep the other from being read.
Unread == IF Stage \notin { "partial", "full" } THEN {}
          ELSE { side \in Side \ pair.errs : pair.seen[side][Stage] = 0 }
Reader == IF "left" \in Unread THEN "left" ELSE "right"

ReadNext ==
    /\ at = "run" /\ pair # NoPair /\ Unread # {} /\ ~aborted
    /\ at' = "hash"
    /\ UNCHANGED << worldVars, rowVars, mode, engineVars, frames, held, pair, aborted,
                    progress, events, historyVars >>

\* recordChecksums, of the row there is.
Hashed(row, stage, value) ==
    IF row.version = 0 THEN row ELSE [row EXCEPT ![stage] = value, !.failed = FALSE]

\* The read ends, in time for a Stop or not, and its result is recorded.
HashSucceeds ==
    /\ at = "hash"
    /\ LET content == disk[Reader][pair.file].content
           value == IF Stage = "partial" THEN PartialOf[content] ELSE content
       IN  /\ content # 0
           /\ facts' = [facts EXCEPT ![Reader][pair.file] = Hashed(@, Stage, value)]
           /\ pair' = [pair EXCEPT !.seen[Reader][Stage] = value]
    /\ at' = "run"
    /\ UNCHANGED << worldVars, node, mode, engineVars, frames, held, aborted, progress,
                    events, historyVars >>

HashFails ==
    /\ at = "hash" /\ ~aborted
    /\ pair.file \in Unreadable \/ disk[Reader][pair.file] = NoFile
    /\ facts' = [facts EXCEPT ![Reader][pair.file] = UnreadFile(@)]
    /\ node' = [node EXCEPT ![Reader] = [dir \in Dirs |->
                   IF dir = pair.file THEN UnreadDir(@[dir]) ELSE @[dir]]]
    /\ pair' = [pair EXCEPT !.errs = @ \cup { Reader }]
    /\ at' = "run"
    /\ UNCHANGED << worldVars, mode, engineVars, frames, held, aborted, progress,
                    events, historyVars >>

\* What a signal that has fired does: to a read under way, before the next
\* read, before the next entry, and before the next directory.
Cancel ==
    /\ aborted /\ frames # << >>
    /\ \/ at = "hash"
       \/ at = "run" /\ pair # NoPair /\ Unread # {}
       \/ at = "run" /\ pair = NoPair /\ (Top.entered => Top.todo # {})
    /\ at' = "run" /\ frames' = << >> /\ held' = NothingHeld /\ pair' = NoPair
    /\ UNCHANGED << worldVars, rowVars, mode, engineVars, aborted, progress,
                    events, historyVars >>

\* A verdict is reached, or a side of the stage could not be read.
PairDone ==
    /\ at = "run" /\ pair # NoPair /\ Unread = {}
    /\ LET checksum == IF Stage = "matching" THEN { pair.seen["left"].full } ELSE {}
       IN  frames' = Append(Rest, Taken(Top, pair.file, "file", checksum, pair.errs))
    /\ pair' = NoPair
    /\ progress' = [progress EXCEPT !.processed = @ + 1]
    /\ UNCHANGED << worldVars, rowVars, at, mode, engineVars, held, aborted, events,
                    historyVars >>

\* Mutant of DirectoryResult: a read failure is not passed on to the directory.
ErrorsUnrecorded(row, checksum, failed) ==
    IF row.outcome = "none" THEN row
    ELSE [row EXCEPT !.checksum = checksum, !.resolved = TRUE]

\* recordContentReadFailure and recordDirectoryChecksum, of the row there is.
DirectoryResult(row, checksum, failed) ==
    IF row.outcome = "none" THEN row
    ELSE [row EXCEPT !.checksum = checksum, !.resolved = TRUE, !.unreadable = @ \/ failed]

\* The end of compareSubtree's loop; a signal that has fired is not looked at.
FinishDir ==
    /\ Loops /\ Top.todo = {}
    /\ LET checksum == IF Top.same /\ Top.errs = {} THEN { Top.kids } ELSE {}
       IN  /\ node' = [side \in Side |-> [node[side] EXCEPT ![Top.dir] =
                          DirectoryResult(@, checksum, side \in Top.errs)]]
           /\ frames' = Returned(checksum, Top.errs)
    /\ facts' = [side \in Side |-> [file \in Files |->
                    IF file = Top.dir /\ side \in Top.errs THEN UnreadFile(facts[side][file])
                    ELSE facts[side][file]]]
    /\ held' = [held EXCEPT ![Top.dir] = [node |-> NoNodes, facts |-> NoFileRows]]
    /\ UNCHANGED << worldVars, at, mode, engineVars, pair, aborted, progress,
                    events, historyVars >>

\* Nothing has interfered with the latest comparison.
Undisturbed == clean /\ quiet

\* The finally of worker.run.
EndPass2 ==
    /\ at = "run" /\ frames = << >>
    /\ at' = "off" /\ aborted' = FALSE /\ progress' = NoProgress
    /\ settled' = (Undisturbed /\ \A side \in Side :
                     /\ \A file \in Files : ~facts[side][file].failed
                     /\ \A dir \in Dirs : ~HasError(side, dir))
    /\ UNCHANGED << worldVars, rowVars, mode, engineVars, frames, held, pair, events,
                    clean, quiet >>

-----------------------------------------------------------------------------
(* The user and the world, whenever nothing has the thread *)

\* stopComparison: the engine drops what waits on it and keeps the two roots in
\* mind, what is pending becomes stopped, and a Pass 2 under way is aborted. The
\* listing in flight goes on. (ComparisonPipeline has Stops of other pairs.)
Stop ==
    /\ at \in StopPhases /\ Event
    /\ stopMark' = TRUE
    /\ IF leftover # {} \/ toList = NothingToList THEN leftover' = leftover
       ELSE \E inFlight \in Entries(toList) : leftover' = { inFlight }
    /\ toList' = NothingToList
    /\ node' = StoppedRows(node)
    /\ aborted' = (at = "hash")
    /\ clean' = FALSE /\ settled' = FALSE
    /\ UNCHANGED << worldVars, facts, at, mode, frames, held, pair, progress, quiet >>

\* structuralScanWorker's start: pending rows are marked stopped, the rest is gone.
Restart ==
    /\ MayCrash /\ (at # "off" \/ stopMark) /\ Event
    /\ node' = StoppedRows(node)
    /\ at' = "off" /\ toList' = NothingToList /\ stopMark' = FALSE /\ leftover' = {}
    /\ frames' = << >> /\ held' = NothingHeld /\ pair' = NoPair
    /\ aborted' = FALSE /\ progress' = NoProgress
    /\ clean' = FALSE /\ settled' = FALSE
    /\ UNCHANGED << worldVars, facts, mode, quiet >>

Changes == /\ at # "run" /\ Event
           /\ clean' = FALSE /\ settled' = FALSE
           /\ UNCHANGED << rowVars, passVars, quiet >>

\* A file is written, or created; its modification time is a new one.
Edit(side, file) ==
    /\ Changes
    /\ file \notin dirs[side] /\ ParentPath(file) \in dirs[side]
    /\ \E content \in Content, version \in 1..3 :
          /\ content # disk[side][file].content
          /\ version \notin { disk[side][file].version, facts[side][file].version }
          /\ disk' = [disk EXCEPT ![side][file] = [content |-> content, version |-> version]]
    /\ UNCHANGED << dirs, ignored >>

Delete(side, path) ==
    /\ Changes
    /\ path \in dirs[side] \/ (path \in Files /\ disk[side][path] # NoFile)
    /\ disk' = [disk EXCEPT ![side] = [file \in Files |->
                   IF IsWithinSubtree(file, path) THEN NoFile ELSE @[file]]]
    /\ dirs' = [dirs EXCEPT ![side] = { dir \in @ : ~IsWithinSubtree(dir, path) }]
    /\ UNCHANGED ignored

SetIgnored(side, path, on) ==
    /\ Changes
    /\ on <=> << side, path >> \notin ignored
    /\ ignored' = IF on THEN ignored \cup { << side, path >> }
                  ELSE ignored \ { << side, path >> }
    /\ UNCHANGED << disk, dirs >>

-----------------------------------------------------------------------------
Pass1 == StartPass2 \/ \E side \in Side, dir \in Dirs : List(side, dir)

Pass2 ==
    \/ Enter \/ ReadNext \/ HashSucceeds \/ HashFails \/ Cancel
    \/ PairDone \/ FinishDir \/ EndPass2
    \/ \E path \in Dirs \cup Files : NextEntry(path)

Environment ==
    \/ \E m \in Modes : Compare(m)
    \/ Stop \/ Restart
    \/ \E side \in Side :
          \/ \E file \in MayEdit : Edit(side, file)
          \/ \E path \in MayDelete : Delete(side, path)
    \/ \E entry \in MayIgnore : SetIgnored(entry[1], entry[2], TRUE)
    \/ \E entry \in MayUnignore : SetIgnored(entry[1], entry[2], FALSE)

Next == Pass1 \/ Pass2 \/ Environment

Spec == Init /\ [][Next]_vars

-----------------------------------------------------------------------------
(* What the user is shown, once no pass is active: get-comparison-view. *)

\* deriveDirectoryNodeStatus.
DirStatus(dir) ==
    LET left == node["left"][dir]
        right == node["right"][dir]
    IN  IF \E side \in Side : HasError(side, dir) THEN "error"
        ELSE IF left.outcome # "done" \/ right.outcome # "done" THEN "not_compared"
        ELSE IF ~left.resolved \/ ~right.resolved THEN "not_compared"
        ELSE IF left.checksum # {} /\ left.checksum = right.checksum THEN "matching"
        ELSE "differs"

FileStatus(file) ==
    LET left == facts["left"][file]
        right == facts["right"][file]
    IN  IF 0 \in { left.version, right.version } THEN "not_compared"
        ELSE IF left.failed \/ right.failed THEN "error"
        ELSE IF 0 \notin { left.full, right.full }
               THEN IF left.full = right.full THEN "matching" ELSE "differs"
        ELSE IF left.size # right.size THEN "differs"
        ELSE IF 0 \notin { left.partial, right.partial } /\ left.partial # right.partial
               THEN "differs"
        ELSE "not_compared"

-----------------------------------------------------------------------------
(* Properties *)

\* The rows, the activations and the progress have their types: an activation
\* below the innermost has been entered and lies on the way to it, and a pair
\* is being compared only in an activation that has been entered.
TypeOK ==
    /\ disk \in [Side -> [Files -> [content : Content \cup {0}, version : 0..3]]]
    /\ dirs \in [Side -> SUBSET Dirs]
    /\ \A side \in Side, dir \in Dirs :
          /\ node[side][dir].outcome \in { "none", "pending", "done", "error", "stopped" }
          /\ { node[side][dir].unreadable, node[side][dir].resolved } \subseteq BOOLEAN
          /\ Cardinality(node[side][dir].checksum) <= 1
    /\ facts \in [Side -> [Files ->
          [size : Nat, version : 0..3, partial : Content \cup {0},
           full : Content \cup {0}, failed : BOOLEAN]]]
    /\ ignored \subseteq Side \X (Dirs \cup Files)
    /\ at \in { "off", "listing", "run", "hash" } /\ mode \in { "incremental", "full" }
    /\ \A side \in Side :
          /\ toList[side] \subseteq IF at = "listing" THEN Dirs ELSE {}
          /\ \A dir \in toList[side] : node[side][dir].outcome = "pending" \/ (dir = Root /\ stopMark)
    /\ stopMark \in BOOLEAN /\ leftover \subseteq Side \X Dirs
    /\ leftover # {} => stopMark
    /\ \A k \in 1..Len(frames) :
          /\ frames[k].todo \subseteq Dirs \cup Files
          /\ k < Len(frames) => /\ frames[k].entered
                                /\ frames[k].dir = ParentPath(frames[k + 1].dir)
    /\ at = "hash" => pair # NoPair
    /\ pair # NoPair => frames # << >> /\ Top.entered /\ ParentPath(pair.file) = Top.dir
    /\ aborted \in BOOLEAN /\ events \in 0..MaxEvents
    /\ { clean, quiet, settled } \subseteq BOOLEAN

Holds(side, path) ==
    path \in dirs[side] \/ (path \in Files /\ disk[side][path] # NoFile)

\* What the comparison is asked to leave out.
LeftOut(path) == \E side \in Side : << side, path >> \in ignored /\ Holds(side, path)

Shown(path, dir) ==
    IsWithinSubtree(path, dir) /\
    \A above \in Lineage(path) : IsWithinSubtree(above, dir) /\ above # dir => ~LeftOut(above)

\* The files on disk that keep a pair of directories from being the same.
Differences(dir) ==
    { file \in Files : /\ Shown(file, dir)
                       /\ disk["left"][file].content # disk["right"][file].content }

\* An ignored entry, or what is known below it, can still keep a directory the
\* other side lacks from being empty.
IgnoredInOneSided(dir) ==
    { path \in Dirs \cup Files :
        /\ IsWithinSubtree(path, dir) /\ ~Shown(path, dir)
        /\ ParentPath(path) \notin dirs["left"] \cap dirs["right"] }

CommonDirs ==
    { dir \in dirs["left"] \cap dirs["right"] : ~LeftOut(Root) /\ Shown(dir, Root) }

\* Each directory of both sides is shown as what it is: matching exactly when no
\* file below it differs, is missing on a side, or is a directory there.
DirectoriesAreRight ==
    \A dir \in CommonDirs :
        /\ DirStatus(dir) # "not_compared"
        /\ DirStatus(dir) = "matching" => Differences(dir) = {}
        /\ DirStatus(dir) = "differs" => Differences(dir) \cup IgnoredInOneSided(dir) # {}

\* When a comparison that began with no Stop on the engine's mind has ended, and
\* nothing has interfered since it began, its directories are shown right.
\* Cached checksums, ignored entries and one-sided empty directories are where
\* compareSubtree could be wrong.
DirectoriesShownRight == at = "off" /\ Undisturbed => DirectoriesAreRight

\* The same of a comparison that was itself not stopped, whatever was before it:
\* "Pass 1 always relists unconditionally" (start-comparison.ts).
LaterCompareIsRight == at = "off" /\ clean => DirectoriesAreRight

\* So is each file both sides have: a verdict reached on sizes, on beginnings
\* or on checksums of earlier comparisons agrees with the contents.
FilesShownRight ==
    at = "off" /\ Undisturbed => \A file \in Files :
        /\ \A side \in Side : disk[side][file] # NoFile
        /\ ParentPath(file) \in CommonDirs /\ Shown(file, Root)
        => CASE FileStatus(file) = "matching" -> file \notin Differences(Root)
             [] FileStatus(file) = "differs" -> file \in Differences(Root)
             [] FileStatus(file) = "error" -> TRUE
             [] OTHER -> \E side \in Side : HasError(side, ParentPath(file))

\* The statuses of a pair of trees (getComparisonView), of directories and files.
StatusesShownRight == DirectoriesShownRight /\ FilesShownRight

\* Comparing again what was completely compared, without errors, and has not
\* changed since, reads no file (spec 003, SC-005).
NoNeedlessRead == at = "hash" /\ mode = "incremental" => ~settled

\* The "N of TOTAL" the user sees ends at TOTAL: what countFilePairs foresaw is
\* what compareSubtree resolved, one by one or in bulk on a cache hit.
ProgressReachesTotal ==
    at = "run" /\ frames = << >> /\ Undisturbed => progress.processed = progress.total

\* A directory shown as matching was listed to the last directory below it.
MatchingIsListed ==
    at = "off" => \A dir \in Dirs : DirStatus(dir) = "matching" =>
        \A side \in Side : \A below \in KnownDirs(side) :
            IsWithinSubtree(below, dir) => node[side][below].outcome = "done"

\* A file that could not be read makes every directory above it an error.
ErrorsReachTheRoot ==
    at = "off" /\ Undisturbed => \A file \in Files :
        ParentPath(file) \in CommonDirs /\ Shown(file, Root) /\ FileStatus(file) = "error"
            => \A dir \in Lineage(ParentPath(file)) : DirStatus(dir) = "error"
=============================================================================
