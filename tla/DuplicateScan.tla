----------------------------- MODULE DuplicateScan -----------------------------
(***************************************************************************)
(* The duplicate finder: one scan at a time (list, hash, derive folders,   *)
(* group), refreshes of a part of the results, and the requests that change*)
(* them in between: delete a copy, ignore a path, stop.                    *)
(*                                                                         *)
(* A run (a scan or a refresh) gives up the thread only where the code     *)
(* awaits: at a directory's listing and at a file's read. Everything else  *)
(* it does belongs to the stretch that follows, which `thread` protects;   *)
(* only a restart may cut it, between two transactions. Progress, sizes of *)
(* groups and the order in which candidates are hashed are left out.       *)
(***************************************************************************)
EXTENDS DuplicateResults

CONSTANTS
    InitialDisk,   \* the content of each file at first, or NoSum
    ScanRoots,     \* what is asked to be scanned
    FolderModes,   \* subset of BOOLEAN: the folder checkbox
    Refreshable,   \* the rows on which Refresh is pressed
    Deletable,     \* the occurrences on which Delete is pressed
    Ignorable,     \* the paths that are ignored and un-ignored
    Edits,         \* << file, content >>: what other programs write, or remove
    Removable,     \* directories that other programs remove
    Flaky,         \* files that may fail to be read, directories to be listed
    Rejecting,     \* directories whose listing can reject (EIO, ...)
    CacheHits,     \* what the comparison's cache can answer: subset of
                   \* {"miss", "partial", "full"}
    Overlap,       \* whether a scan, refresh or deletion may be asked for
                   \* while another is being checked or moved
    MayCrash,      \* whether the process can be restarted
    MaxRuns,       \* how many runs can be under way at once
    MaxEvents      \* bound on requests, disk changes and restarts

RunId == 1..MaxRuns

NoRun == [at |-> "off"]

ASSUME ScanAssumption ==
    /\ InitialDisk \in [File -> Content \cup { NoSum }]
    /\ ScanRoots \cup Removable \subseteq Dir
    /\ Refreshable \cup Deletable \cup Ignorable \cup Flaky \subseteq Place
    /\ Edits \subseteq File \X (Content \cup { NoSum })
    /\ CacheHits \subseteq { "miss", "partial", "full" } /\ CacheHits # {}
    /\ FolderModes \subseteq BOOLEAN /\ Overlap \in BOOLEAN /\ MayCrash \in BOOLEAN
    /\ MaxRuns \in Nat \ { 0 } /\ MaxEvents \in Nat

VARIABLES
    disk,        \* the facts of every file, content NoSum if it is not there
    dirs,        \* the directories that exist
    files,       \* scanned_files
    folders,     \* scanned_directories
    results,     \* duplicate_groups and their occurrences, with their scan_seq
    ignored,     \* ignored_paths
    status,      \* scan_state
    runs,        \* the runs under way
    controller,  \* the run that Stop reaches, or 0
    thread,      \* the run in the middle of a stretch of code, or 0
    starts,      \* scan requests that wait for the path's inspection
    deletions,   \* deletions that wait for the disk
    events,      \* how many of the MaxEvents have happened
    basis,       \* history: the facts the results were built from
    late         \* history: paths ignored while a run was under way

tables == << files, folders >>
diskVars == << disk, dirs >>
requestVars == << starts, deletions, events >>
historyVars == << basis, late >>
vars == << diskVars, tables, results, ignored, status, runs, controller, thread,
           requestVars, historyVars >>

Live == { run \in RunId : runs[run].at # "off" }

IsRunning == status.state = "running"

Exists(file) == disk[file].content # NoSum

Init ==
    /\ disk = [file \in File |->
                 [content |-> InitialDisk[file],
                  mtime |-> IF InitialDisk[file] = NoSum THEN 0 ELSE 1]]
    /\ dirs = Dir
    /\ files = [file \in File |-> NoFile]
    /\ folders = [place \in Place |-> NoFolder]
    /\ results = [seq |-> 0, groups |-> {}]
    /\ ignored = {}
    /\ status = [seq |-> 0, root |-> Root, folders |-> FALSE, state |-> "idle"]
    /\ runs = [run \in RunId |-> NoRun]
    /\ controller = 0
    /\ thread = 0
    /\ starts = << >>
    /\ deletions = {}
    /\ events = 0
    /\ basis = [file \in File |-> Absent]
    /\ late = {}

Event == /\ thread = 0
         /\ events < MaxEvents
         /\ events' = events + 1

Undisturbed == Overlap \/ (starts = << >> /\ deletions = {})

-----------------------------------------------------------------------------
(* The worker *)

\* A run up to its first await, which is the listing of its scope. `before`
\* is what a refresh finds recorded there; a file is listed with its parent.
Begin(kind, scope, seq, includeFolders, before) ==
    \E run \in RunId \ Live :
        /\ runs' = [runs EXCEPT ![run] =
              [at |-> IF scope \in before THEN "listing" ELSE "list",
               path |-> IF scope \in before THEN ParentPath(scope) ELSE scope,
               kind |-> kind, scope |-> scope, seq |-> seq,
               folders |-> includeFolders, ignored |-> ignored,
               aborted |-> FALSE, cut |-> FALSE, stack |-> << scope >>,
               found |-> { }, before |-> before, seen |-> { },
               stage |-> "partial", todo |-> { }, missed |-> { }]]
        /\ controller' = run
        /\ thread' = IF scope \in before THEN 0 ELSE run

\* A run is over; the controller is cleared only if it is still its own.
Finish(run, state) ==
    /\ status' = [status EXCEPT !.state = state]
    /\ runs' = [runs EXCEPT ![run] = NoRun]
    /\ controller' = IF controller = run THEN 0 ELSE controller
    /\ thread' = 0

RequestScan(root, includeFolders) ==
    /\ Event
    /\ Undisturbed
    /\ ~IsRunning
    /\ starts' = Append(starts, [root |-> root, folders |-> includeFolders])
    /\ UNCHANGED << diskVars, tables, results, ignored, status, runs, controller,
                    thread, deletions, historyVars >>

\* The path has been inspected; the status is not looked at again.
Inspected(index) ==
    LET start == starts[index] IN
    /\ thread = 0
    /\ starts' = SubSeq(starts, 1, index - 1) \o SubSeq(starts, index + 1, Len(starts))
    /\ IF start.root \notin dirs \/ IsIgnored(start.root, ignored)
       THEN UNCHANGED << status, runs, controller, thread >>
       ELSE /\ status' = [seq |-> status.seq + 1, root |-> start.root,
                          folders |-> start.folders, state |-> "running"]
            /\ Begin("scan", start.root, status.seq + 1, start.folders, {})
    /\ UNCHANGED << diskVars, tables, results, ignored, deletions, events,
                    historyVars >>

RecordedUnder(path) == { file \in Under(path) : files[file].seq # 0 }

\* Mutant of RequestRefresh: a run under way does not refuse it.
RefreshAnyTime(scope) ==
    /\ Event
    /\ Undisturbed
    /\ status.seq # 0 /\ IsWithinSubtree(scope, status.root)
    /\ ~IsIgnored(scope, ignored)
    /\ status' = [status EXCEPT !.state = "running"]
    /\ Begin("refresh", scope, status.seq, status.folders, RecordedUnder(scope))
    /\ UNCHANGED << diskVars, tables, results, ignored, starts, deletions,
                    historyVars >>

RequestRefresh(scope) ==
    /\ Event
    /\ Undisturbed
    /\ ~IsRunning
    /\ status.seq # 0 /\ IsWithinSubtree(scope, status.root)
    /\ ~IsIgnored(scope, ignored)
    /\ status' = [status EXCEPT !.state = "running"]
    /\ Begin("refresh", scope, status.seq, status.folders, RecordedUnder(scope))
    /\ UNCHANGED << diskVars, tables, results, ignored, starts, deletions,
                    historyVars >>

RequestStop ==
    /\ Event
    /\ controller # 0
    /\ runs' = [runs EXCEPT ![controller].aborted = TRUE]
    /\ UNCHANGED << diskVars, tables, results, ignored, status, controller,
                    thread, starts, deletions, historyVars >>

-----------------------------------------------------------------------------
(* Phase 1: listing *)

Goes(run, at) == [runs EXCEPT ![run].at = at]

RunUnchanged == UNCHANGED << diskVars, ignored, requestVars >>

\* The end of the walk: a scan goes on to the grouping even when stopped, a
\* refresh that was stopped here is over.
ListingEnds(run, aborted) ==
    \/ /\ aborted /\ runs[run].kind = "refresh"
       /\ Finish(run, "stopped")
    \/ /\ aborted /\ runs[run].kind = "scan"
       /\ runs' = [runs EXCEPT ![run].at = "clear", ![run].cut = TRUE]
       /\ UNCHANGED << status, controller, thread >>
    \/ /\ ~aborted
       /\ runs' = Goes(run, IF runs[run].kind = "scan" THEN "query" ELSE "forget")
       /\ UNCHANGED << status, controller, thread >>

\* The top of the walk's loop, up to the await.
ListNext(run) ==
    /\ thread = run /\ runs[run].at = "list"
    /\ \/ /\ runs[run].stack = << >> \/ runs[run].aborted
          /\ ListingEnds(run, runs[run].stack # << >>)
       \/ /\ runs[run].stack # << >> /\ ~runs[run].aborted
          /\ runs' = [runs EXCEPT
                ![run].at = "listing",
                ![run].path = runs[run].stack[Len(runs[run].stack)],
                ![run].stack = SubSeq(@, 1, Len(@) - 1)]
          /\ thread' = 0
          /\ UNCHANGED << status, controller >>
    /\ UNCHANGED << tables, results, historyVars >>
    /\ RunUnchanged

Children(path) ==
    { [path |-> file, facts |-> disk[file]] :
        file \in { file \in File : ParentPath(file) = path /\ Exists(file) } }

Inner(path) == { dir \in dirs : ParentPath(dir) = path }

\* What listChildren answers, at the moment it looks: an entry that cannot be
\* examined is dropped, and noted; nothing, if the directory cannot be listed.
Listing(entries, inner, incomplete) ==
    [files |-> entries, dirs |-> inner, incomplete |-> incomplete]

LookAt(run) ==
    LET path == runs[run].path IN
    /\ runs[run].at = "listing"
    /\ thread = 0
    /\ \/ /\ path \in dirs
          /\ \E bad \in SUBSET { entry \in Children(path) : entry.path \in Flaky } :
                runs' = [runs EXCEPT
                    ![run].at = "listed",
                    ![run].found = Listing(Children(path) \ bad,
                                           Inner(path), bad # {}),
                    ![run].missed = @ \cup { entry.path : entry \in bad }]
       \/ /\ path \notin dirs \/ path \in Flaky
          /\ runs' = [runs EXCEPT ![run].at = "listed",
                                  ![run].found = Listing({}, {}, TRUE),
                                  ![run].missed = @ \cup Under(path) \cup { path }]
    /\ UNCHANGED << tables, results, status, controller, thread, historyVars >>
    /\ RunUnchanged

\* The listing rejects: the run fails, and what it wrote stays.
ListRejects(run) ==
    /\ runs[run].at = "listing" /\ runs[run].path \in Rejecting
    /\ thread = 0
    /\ Finish(run, "failed")
    /\ UNCHANGED << tables, results, historyVars >>
    /\ RunUnchanged

\* The rows of one directory, and its subdirectories onto the stack.
ListDirectory(run) ==
    LET now == runs[run]
        entries == { entry \in now.found.files : ~IsIgnored(entry.path, now.ignored) }
        inner == { dir \in now.found.dirs : ~IsIgnored(dir, now.ignored) }
    IN
    /\ thread = 0
    /\ now.at = "listed" /\ now.scope \notin now.before
    /\ files' = UpsertFileFacts(files, entries, now.seq)
    /\ folders' = [folders EXCEPT ![now.path] =
          [seq |-> now.seq,
           incomplete |-> \/ now.found.incomplete
                          \/ entries # now.found.files
                          \/ inner # now.found.dirs]]
    /\ \E order \in Orderings(inner) :
          runs' = [runs EXCEPT
              ![run].at = "list", ![run].found = { },
              ![run].stack = @ \o order,
              ![run].seen = IF now.kind = "scan" THEN {}
                            ELSE @ \cup { entry.path : entry \in entries }]
    /\ thread' = run
    /\ UNCHANGED << results, status, controller, historyVars >>
    /\ RunUnchanged

\* A refreshed file is picked out of its parent's listing.
RestatFile(run) ==
    LET now == runs[run]
        entries == { entry \in now.found.files :
                       entry.path = now.scope /\ ~IsIgnored(entry.path, now.ignored) }
    IN
    /\ thread = 0
    /\ now.at = "listed" /\ now.scope \in now.before
    /\ files' = UpsertFileFacts(files, entries, now.seq)
    /\ runs' = [runs EXCEPT ![run].at = "forget", ![run].found = { },
                            ![run].seen = { entry.path : entry \in entries }]
    /\ thread' = run
    /\ UNCHANGED << folders, results, status, controller, historyVars >>
    /\ RunUnchanged

\* A refresh forgets the files it did not see.
ForgetVanished(run) ==
    LET now == runs[run] IN
    /\ thread = run /\ now.at = "forget"
    /\ files' = [file \in File |->
          IF file \in now.before \ now.seen THEN NoFile ELSE files[file]]
    /\ runs' = Goes(run, "query")
    /\ UNCHANGED << folders, results, status, controller, thread, historyVars >>
    /\ RunUnchanged

-----------------------------------------------------------------------------
(* Phases 2-4: hashing *)

Candidates(run) ==
    { file \in IF runs[run].stage = "partial"
               THEN FindSharedSizeCandidates(files, runs[run].seq)
               ELSE FindSharedPartialCandidates(files, runs[run].seq) :
        ~IsIgnored(file, runs[run].ignored) }

\* The candidates are read from the tables once per stage.
Query(run) ==
    /\ thread = run /\ runs[run].at = "query"
    /\ runs' = [runs EXCEPT
          ![run].at = "hash",
          ![run].todo = { [path |-> file, facts |-> files[file].facts,
                           partial |-> files[file].partial,
                           full |-> files[file].full] : file \in Candidates(run) }]
    /\ UNCHANGED << tables, results, status, controller, thread, historyVars >>
    /\ RunUnchanged

HashingEnds(run) ==
    /\ thread = run /\ runs[run].at = "hash" /\ runs[run].todo = {}
    /\ runs' = IF runs[run].stage = "partial"
               THEN [runs EXCEPT ![run].at = "query", ![run].stage = "full"]
               ELSE Goes(run, "clear")
    /\ UNCHANGED << tables, results, status, controller, thread, historyVars >>
    /\ RunUnchanged

\* Mutant of HashingStops: the run returns without grouping.
HashingLeaves(run) ==
    /\ thread = run /\ runs[run].at = "hash" /\ runs[run].todo # {}
    /\ runs[run].aborted
    /\ runs' = [runs EXCEPT ![run] = NoRun]
    /\ thread' = 0
    /\ UNCHANGED << tables, results, status, controller, historyVars >>
    /\ RunUnchanged

HashingStops(run) ==
    /\ thread = run /\ runs[run].at = "hash" /\ runs[run].todo # {}
    /\ runs[run].aborted
    /\ runs' = [runs EXCEPT ![run].at = "clear", ![run].cut = TRUE,
                            ![run].todo = { }]
    /\ UNCHANGED << tables, results, status, controller, thread, historyVars >>
    /\ RunUnchanged

Sums(partial, full) == [partial |-> partial, full |-> full]

\* Mutant of PartialSums: the head of any file stands for the whole.
HeadIsAll(facts, partial) == Sums(partial, partial)

\* The partial checksum of a small file is its full one.
PartialSums(facts, partial) ==
    Sums(partial, IF IsSmall(facts) THEN partial ELSE NoSum)

Record(candidate, sums) ==
    RecordChecksums(files, candidate.path, sums.partial, sums.full)

\* What the comparison tool knows of the file as it was listed.
Cached(facts, hit) ==
    Sums(IF hit = "miss" THEN NoSum ELSE HeadOf[facts.content],
         IF hit = "full" THEN facts.content ELSE NoSum)

\* The checksums that spare a read, if any.
KnownSums(stage, candidate, hit) ==
    LET cached == Cached(candidate.facts, hit) IN
    IF stage = "full" THEN Sums(NoSum, cached.full)
    ELSE IF cached.full # NoSum THEN cached
    ELSE PartialSums(candidate.facts, Coalesce(candidate.partial, cached.partial))

NothingKnown == Sums(NoSum, NoSum)

\* A candidate whose checksum is known, by this scan, an earlier one or the
\* comparison's cache, is settled at once; any other is read.
HashNext(run) ==
    /\ thread = run /\ runs[run].at = "hash" /\ ~runs[run].aborted
    /\ \E candidate \in runs[run].todo, hit \in CacheHits :
        LET sums == KnownSums(runs[run].stage, candidate, hit)
            settled == [runs EXCEPT ![run].todo = @ \ { candidate }]
        IN
        \/ /\ candidate.full # NoSum
           /\ runs' = settled
           /\ UNCHANGED << files, thread >>
        \/ /\ candidate.full = NoSum /\ sums # NothingKnown
           /\ files' = Record(candidate, sums)
           /\ runs' = settled
           /\ thread' = thread
        \/ /\ candidate.full = NoSum /\ sums = NothingKnown
           /\ runs' = [runs EXCEPT ![run].at = "reading", ![run].found = candidate]
           /\ thread' = 0
           /\ files' = files
    /\ UNCHANGED << folders, results, status, controller, historyVars >>
    /\ RunUnchanged

\* The read is over, even if Stop came meanwhile: the checksum of what the
\* file holds now.
ReadFile(run) ==
    LET candidate == runs[run].found
        content == disk[candidate.path].content
    IN
    /\ thread = 0 /\ runs[run].at = "reading"
    /\ Exists(candidate.path)
    /\ files' = Record(candidate,
                  IF runs[run].stage = "full" THEN Sums(NoSum, content)
                  ELSE PartialSums(candidate.facts, HeadOf[content]))
    /\ runs' = [runs EXCEPT ![run].at = "hash", ![run].found = { },
                            ![run].todo = @ \ { candidate }]
    /\ thread' = run
    /\ UNCHANGED << folders, results, status, controller, historyVars >>
    /\ RunUnchanged

\* The read fails: because of Stop, and the run ends its hashing; or for good,
\* and the file is left out of the rest.
ReadFails(run) ==
    LET candidate == runs[run].found IN
    /\ thread = 0 /\ runs[run].at = "reading"
    /\ \/ /\ runs[run].aborted
          /\ runs' = [runs EXCEPT ![run].at = "clear", ![run].cut = TRUE,
                                  ![run].found = { }, ![run].todo = { }]
          /\ files' = files
       \/ /\ ~runs[run].aborted
          /\ ~Exists(candidate.path) \/ candidate.path \in Flaky
          /\ runs' = [runs EXCEPT ![run].at = "hash", ![run].found = { },
                                  ![run].todo = @ \ { candidate },
                                  ![run].missed = @ \cup { candidate.path }]
          /\ files' = RecordReadError(files, candidate.path)
    /\ thread' = run
    /\ UNCHANGED << folders, results, status, controller, historyVars >>
    /\ RunUnchanged

-----------------------------------------------------------------------------
(* Phases 5 and 6: folders and groups *)

\* Derivation is skipped after an abort, and gives up at its first folder if
\* Stop came while the last file was read.
FoldersDerived(run) ==
    /\ runs[run].folders /\ ~runs[run].cut
    /\ \/ ~runs[run].aborted
       \/ \A place \in Place : folders[place].seq # runs[run].seq

\* How the run ends: a refresh does not count folders given up.
Outcome(run) ==
    IF \/ runs[run].cut
       \/ runs[run].kind = "scan" /\ runs[run].folders /\ ~FoldersDerived(run)
    THEN "stopped" ELSE "finished"

ClearResults(run) ==
    /\ thread = run /\ runs[run].at = "clear"
    /\ results' = [results EXCEPT !.groups = {}]
    /\ runs' = Goes(run, "save")
    /\ UNCHANGED << tables, status, controller, thread, historyVars >>
    /\ RunUnchanged

SaveGroups(run) ==
    LET now == runs[run] IN
    /\ thread = run /\ now.at = "save"
    /\ results' = [seq |-> now.seq,
                   groups |-> BuildGroups(files, folders, now.ignored, now.seq,
                                          FoldersDerived(run))]
    /\ basis' = [file \in File |-> files[file].facts]
    /\ late' = late \ now.ignored
    /\ Finish(run, Outcome(run))
    /\ UNCHANGED tables
    /\ RunUnchanged

RunStep ==
    \E run \in RunId :
        \/ ListNext(run) \/ LookAt(run) \/ ListRejects(run)
        \/ ListDirectory(run) \/ RestatFile(run) \/ ForgetVanished(run)
        \/ Query(run) \/ HashingEnds(run) \/ HashingStops(run) \/ HashNext(run)
        \/ ReadFile(run) \/ ReadFails(run)
        \/ ClearResults(run) \/ SaveGroups(run)

-----------------------------------------------------------------------------
(* Deleting a copy *)

Visible == IF results.seq = status.seq THEN results.groups ELSE {}

\* Nobody has touched the file since the results were built, the tool's own
\* deletions aside.
Untouched(file) ==
    \/ basis[file] = disk[file]
    \/ ~Exists(file) /\ (basis[file] = Absent \/ basis[file].mtime = disk[file].mtime)

\* Mutant of RequestDelete: a run under way does not refuse it.
DeleteAnyTime(path) ==
    /\ Event
    /\ Undisturbed
    /\ status.seq # 0 /\ IsWithinSubtree(path, status.root)
    /\ \E group \in Visible :
          /\ path \in group.paths
          /\ Cardinality(group.paths) >= 2
          /\ LET copies == UNION { Under(copy) : copy \in group.paths } IN
             deletions' = deletions \cup
                { [path |-> path, kind |-> group.kind, at |-> "describe",
                   copies |-> copies,
                   sure |-> \A file \in copies : Untouched(file)] }
    /\ UNCHANGED << diskVars, tables, results, ignored, status, runs, controller,
                    thread, starts, historyVars >>

RequestDelete(path) ==
    /\ Event
    /\ Undisturbed
    /\ ~IsRunning
    /\ status.seq # 0 /\ IsWithinSubtree(path, status.root)
    /\ \E group \in Visible :
          /\ path \in group.paths
          /\ Cardinality(group.paths) >= 2
          /\ LET copies == UNION { Under(copy) : copy \in group.paths } IN
             deletions' = deletions \cup
                { [path |-> path, kind |-> group.kind, at |-> "describe",
                   copies |-> copies,
                   sure |-> \A file \in copies : Untouched(file)] }
    /\ UNCHANGED << diskVars, tables, results, ignored, status, runs, controller,
                    thread, starts, historyVars >>

Advance(deletion, at) ==
    (deletions \ { deletion }) \cup { [deletion EXCEPT !.at = at] }

\* What is on disk must still be of the kind that was reported.
Described(deletion) ==
    /\ thread = 0
    /\ deletion.at = "describe"
    /\ deletions' = IF IF deletion.kind = "directory"
                       THEN deletion.path \in dirs ELSE Exists(deletion.path)
                    THEN Advance(deletion, "move")
                    ELSE deletions \ { deletion }
    /\ UNCHANGED << diskVars, tables, results, ignored, status, runs, controller,
                    thread, starts, events, historyVars >>

\* The rename, of whatever is there by now; it fails if nothing is.
MoveToTrash(deletion) ==
    LET path == deletion.path IN
    /\ thread = 0
    /\ deletion.at = "move"
    /\ IF path \in dirs \/ (path \in File /\ Exists(path))
       THEN /\ disk' = [file \in File |->
                  IF file \in Under(path) THEN [disk[file] EXCEPT !.content = NoSum]
                                          ELSE disk[file]]
            /\ dirs' = { dir \in dirs : ~IsWithinSubtree(dir, path) }
            /\ deletions' = Advance(deletion, "moved")
       ELSE /\ deletions' = deletions \ { deletion }
            /\ UNCHANGED diskVars
    /\ UNCHANGED << tables, results, ignored, status, runs, controller, thread,
                    starts, events, historyVars >>

\* removeDeletedFile, removeDeletedDirectory.
RemoveDeleted(deletion) ==
    LET path == deletion.path IN
    /\ thread = 0
    /\ deletion.at = "moved"
    /\ deletions' = deletions \ { deletion }
    /\ IF deletion.kind = "directory"
       THEN /\ results' = [results EXCEPT !.groups = PruneUnder(@, path)]
            /\ files' = [file \in File |->
                  IF file \in Under(path) THEN NoFile ELSE files[file]]
            /\ folders' = [place \in Place |->
                  IF IsWithinSubtree(place, path) THEN NoFolder ELSE folders[place]]
       ELSE /\ results' = [results EXCEPT !.groups = RemoveOccurrence(@, path)]
            /\ files' = [files EXCEPT ![path] = NoFile]
            /\ folders' = folders
    /\ UNCHANGED << diskVars, ignored, status, runs, controller, thread, starts,
                    events, historyVars >>

-----------------------------------------------------------------------------
(* Ignoring, other programs, restarts *)

SetIgnored(path) ==
    /\ Event
    /\ ignored' = ignored \cup { path }
    /\ results' = [results EXCEPT !.groups = PruneUnder(@, path)]
    /\ late' = IF Live = {} THEN late ELSE late \cup { path }
    /\ UNCHANGED << diskVars, tables, status, runs, controller, thread, starts,
                    deletions, basis >>

ClearIgnored(path) ==
    /\ Event
    /\ path \in ignored
    /\ ignored' = ignored \ { path }
    /\ late' = late \ { path }
    /\ UNCHANGED << diskVars, tables, results, status, runs, controller, thread,
                    starts, deletions, basis >>

\* The changed files are no longer known to anybody.
Touch(changed) ==
    /\ runs' = [run \in RunId |->
          IF run \in Live THEN [runs[run] EXCEPT !.missed = @ \cup changed]
                          ELSE runs[run]]
    /\ deletions' = { IF deletion.copies \cap changed = {} THEN deletion
                      ELSE [deletion EXCEPT !.sure = FALSE]
                      : deletion \in deletions }

Edit(file, content) ==
    /\ Event
    /\ ParentPath(file) \in dirs
    /\ disk[file].content # content
    /\ disk' = [disk EXCEPT ![file] = [content |-> content, mtime |-> @.mtime + 1]]
    /\ Touch({ file })
    /\ UNCHANGED << dirs, tables, results, ignored, status, controller, thread,
                    starts, historyVars >>

RemoveDir(path) ==
    /\ Event
    /\ path \in dirs
    /\ dirs' = { dir \in dirs : ~IsWithinSubtree(dir, path) }
    /\ disk' = [file \in File |->
          IF file \in Under(path) /\ Exists(file)
          THEN [content |-> NoSum, mtime |-> disk[file].mtime + 1]
          ELSE disk[file]]
    /\ Touch(Under(path) \cup { path, ParentPath(path) })
    /\ UNCHANGED << tables, results, ignored, status, controller, thread, starts,
                    historyVars >>

\* The process ends, anywhere; the next one reconciles the status and prunes
\* the ignored paths from the results.
Restart ==
    /\ MayCrash
    /\ events < MaxEvents
    /\ events' = events + 1
    /\ status' = [status EXCEPT !.state = IF @ = "running" THEN "stopped" ELSE @]
    /\ results' = [results EXCEPT !.groups = WithoutIgnored(@, ignored)]
    /\ runs' = [run \in RunId |-> NoRun]
    /\ controller' = 0
    /\ thread' = 0
    /\ starts' = << >>
    /\ deletions' = {}
    /\ late' = {}
    /\ UNCHANGED << diskVars, tables, ignored, basis >>

Next ==
    \/ RunStep
    \/ RequestStop
    \/ \E root \in ScanRoots, includeFolders \in FolderModes :
          RequestScan(root, includeFolders)
    \/ \E index \in DOMAIN starts : Inspected(index)
    \/ \E scope \in Refreshable : RequestRefresh(scope)
    \/ \E path \in Deletable : RequestDelete(path)
    \/ \E deletion \in deletions :
          Described(deletion) \/ MoveToTrash(deletion) \/ RemoveDeleted(deletion)
    \/ \E path \in Ignorable : SetIgnored(path) \/ ClearIgnored(path)
    \/ \E edit \in Edits : Edit(edit[1], edit[2])
    \/ \E path \in Removable : RemoveDir(path)
    \/ Restart

Spec == Init /\ [][Next]_vars

\* The event loop runs what is ready, and the disk answers; users, other
\* programs and restarts owe nothing.
FairSpec == Spec /\ WF_vars(RunStep)

-----------------------------------------------------------------------------
(* Properties *)

Facts == [content : Content \cup { NoSum }, mtime : Nat]

FileRow == [seq : Nat, facts : Facts, partial : Sum, full : Sum, failed : BOOLEAN]

\* The tables hold what their columns say, and a stored group never has fewer
\* than two occurrences.
TypeOK ==
    /\ disk \in [File -> Facts]
    /\ dirs \subseteq Dir
    /\ files \in [File -> FileRow]
    /\ folders \in [Place -> [seq : Nat, incomplete : BOOLEAN]]
    /\ results.seq \in Nat
    /\ \A group \in results.groups :
          /\ group.kind \in { "file", "directory" }
          /\ group.paths \subseteq Place
          /\ AreMany(group)
    /\ ignored \subseteq Place /\ late \subseteq ignored
    /\ status \in [seq : Nat, root : Dir \cup { Root }, folders : BOOLEAN,
                   state : { "idle", "running", "finished", "stopped", "failed" }]
    /\ DOMAIN runs = RunId
    /\ controller \in Live \cup { 0 } /\ thread \in Live \cup { 0 }
    /\ events \in 0..MaxEvents
    /\ basis \in [File -> Facts]

\* FR-008: at most one run, the status says whether there is one, and Stop
\* reaches it.
OneRunAtATime ==
    /\ Cardinality(Live) <= 1
    /\ IsRunning <=> Live # {}
    /\ controller \in Live \/ Live = {}

\* Two files of a group that nobody touched since the results were built hold
\* the same content: a checksum is never reused for a file that changed
\* between two scans, nor a head taken for the whole of a large file.
GroupsAreTrue ==
    \A group \in results.groups :
        group.kind = "file" =>
            \A one, other \in group.paths :
                (basis[one] = disk[one] /\ basis[other] = disk[other])
                    => disk[one].content = disk[other].content

\* FR-026, FR-027: an ignored path is not reported, unless it was ignored
\* during a run that had read the list before.
IgnoredIsNotReported ==
    \A group \in Visible, path \in Place :
        path \in group.paths => ~IsIgnored(path, ignored \ late)

\* The same without the exception.
IgnoredStaysOut ==
    \A group \in Visible, path \in Place :
        path \in group.paths => ~IsIgnored(path, ignored)

\* What a run that ends must know: the files of its scope that nobody touched
\* and no failure hid, and the rows of the rest that are still right.
Known(run) ==
    { file \in File :
        /\ Exists(file)
        /\ file \notin runs[run].missed
        /\ ~IsIgnored(file, runs[run].ignored)
        /\ \/ IsWithinSubtree(file, runs[run].scope)
           \/ /\ files[file].seq = runs[run].seq /\ ~files[file].failed
              /\ files[file].facts = disk[file] }

EndsFinished(run) ==
    /\ runs[run].at = "save" /\ runs'[run].at = "off"
    /\ status'.state = "finished"

Together(one, other, groups) ==
    \E group \in groups :
        \A path \in { one, other } : Lineage(path) \cap group.paths # {}

\* FR-012, FR-015, FR-045: when a run finishes, two files with the same
\* content are in one group, or in the folders of one group.
FindsEveryDuplicate ==
    [][ \A run \in Live :
            EndsFinished(run) =>
                \A one, other \in Known(run) :
                    (one # other /\ disk[one].content = disk[other].content)
                        => Together(one, other, results'.groups) ]_vars

\* The tree a directory holds on disk.
TreeOnDisk(dir) ==
    { << SubSeq(path, Len(dir) + 1, Len(path)),
         IF path \in File THEN disk[path].content ELSE Folder >> :
      path \in { path \in dirs \cup { file \in File : Exists(file) } :
                    path # dir /\ IsWithinSubtree(path, dir) } }

\* What the run knows of a directory: it has looked, or the row still stands.
IsKnownDir(run, dir) ==
    \/ IsWithinSubtree(dir, runs[run].scope) /\ dir \notin runs[run].missed
    \/ dir \in dirs /\ folders[dir] = [seq |-> runs[run].seq, incomplete |-> FALSE]
    \/ dir \notin dirs /\ folders[dir].seq # runs[run].seq

\* Directories of which the run knows all there is.
KnownDirs(run) ==
    { dir \in dirs :
        /\ IsWithinSubtree(dir, status.root)
        /\ \A file \in Under(dir) :
              file \in Known(run) \/ (~Exists(file) /\ file \notin runs[run].missed)
        /\ \A inner \in Dir :
              IsWithinSubtree(inner, dir) =>
                  /\ IsKnownDir(run, inner)
                  /\ ~IsIgnored(inner, runs[run].ignored) }

\* FR-014: when a run with folders finishes, folders it knows all of are
\* reported as twins only if they hold the same tree, and twins are reported,
\* themselves or by folders above them.
FoldersAreTwins ==
    [][ \A run \in Live :
            (EndsFinished(run) /\ FoldersDerived(run)) =>
                \A one, other \in KnownDirs(run) :
                    /\ (\E group \in results'.groups : { one, other } \subseteq group.paths)
                           => TreeOnDisk(one) = TreeOnDisk(other)
                    /\ (one # other /\ TreeOnDisk(one) = TreeOnDisk(other))
                           => Together(one, other, results'.groups) ]_vars

\* What a finished run reports is all there is, and of folders nothing else
\* (buildDuplicateResults).
ReportsAreExact == FindsEveryDuplicate /\ FoldersAreTwins

\* FR-040: the deletion of a copy, of a group nobody touched since it was
\* reported, leaves another copy of every content it takes away.
LastCopyIsKept ==
    [][ \A deletion \in deletions :
            (deletion.sure /\ Advance(deletion, "moved") = deletions') =>
                \A file \in Under(deletion.path) :
                    Exists(file) => \E copy \in File :
                        disk'[copy].content = disk[file].content ]_vars

\* FR-045: what a refresh does not reach stays reported: folders that nobody
\* touched and that lie outside its scope.
RefreshKeepsTheRest ==
    [][ \A run \in Live :
            (runs[run].kind = "refresh" /\ runs[run].at = "clear"
                 /\ runs'[run].at = "save") =>
                \A group \in Visible :
                    (/\ group.kind = "directory"
                     /\ \A path \in group.paths :
                          /\ ~IsWithinSubtree(runs[run].scope, path)
                          /\ ~IsWithinSubtree(path, runs[run].scope)
                          /\ \A file \in Under(path) : Untouched(file))
                    => FoldersDerived(run) ]_vars

\* A run comes to an end.
RunEnds == IsRunning ~> ~IsRunning
=============================================================================
