# A TLA+ model of the files-explorer dashboard

The program is a Next.js dashboard with three tools that walk the local disk:
*count and size*, *directory comparison* and *duplicate finder*. Each tool keeps
its results in its own SQLite file, runs its long work in the server process
(module-level singletons started by API routes), and is polled by the browser.
There is one Node process and SQLite is used synchronously, so a handler is
atomic up to its next `await`; everything that can go wrong happens between two
awaits. The modules below cut the code exactly there.

Contents: [inventory](#inventory), [modules](#modules), [runs](#runs),
[fairness](#fairness), [proofs](#proofs), [what is left out](#what-is-left-out),
[plan](#plan).

## Inventory

| Component | State | Operations | Talks to |
|---|---|---|---|
| Scan engine (`infrastructure/scanning/scan-engine.ts`) | LIFO stack, path in flight, `running`, `stoppedRoots` (memory) | `enqueue`, `requestStop`, the loop, the constructor's reconciliation | the per-node step and the repository it is given |
| Listing (`application/scanning/traverse-directory.ts`, `infrastructure/scanning/filesystem-adapter.ts`) | none | list one directory, `pathExists` | the host |
| Count and size (`application/count-and-size`) | `directory_scan_nodes` | start a scan (full, incremental), stop, per-directory step with pruning, derived view | an engine of its own |
| Comparison pipeline (`start-comparison.ts`, `stop-comparison.ts`, `comparison-pass-worker.ts`) | queue of requests, `running`, active pair (twice), abort controller | compare, stop, the loop, the settle poll, Pass 2's start and end | a second engine (Pass 1), Pass 2 |
| Pass 1 listing (`list-entries.ts`) | `directory_comparison_nodes`, `file_checksums`, `unreliable_size_files` | list one directory, forget what has gone, keep or drop cached checksums | the engine of the comparison |
| Pass 2 (`compare-subtree.ts` and the checksum cascade) | checksums, directory checksums, `resolved_by_pass2` | pair, hash, derive, cache hit, cancel | checksum adapter |
| Comparison view (`get-comparison-view.ts`) | none | derive the status of every entry and of both roots | rows of the comparison, count-and-size rows |
| Entry operations (`copy-entry.ts`, `move-entry.ts`, `delete-entry.ts`, `rename-entry.ts`, `ignored-paths.ts` and their adapters) | the disk, the trash, `ignored_paths`, rows of a renamed entry | check the destination, then act; a move across file systems copies and removes | the host |
| Checksum matches (`checksum-match-worker.ts`, `build-rename-plan.ts`) | running, hashed/total, matches, plan, abort controller | start (supersedes), hash each side, build the plan, status | checksum adapter |
| Rename modal (`directory-comparison-explorer.tsx`, `checksum-match-modal.tsx`) | open, plan, done steps, results, executing | start, poll every 500 ms, carry out one step or all from one on, close | checksum matches, rename operation |
| Office containers (`office-container-*.ts`) | none | a checksum of a zip's contents | the host |
| Duplicate finder: scan (`start-scan.ts`, `run-duplicate-scan.ts`, `duplicate-scan-worker.ts`) | `scan_state`, worker's controller and phase | start, stop, run the three phases, reconcile at start-up | listing, hashing, results |
| Duplicate finder: listing, hashing, folder groups, results | `scanned_files`, `scanned_directories`, `duplicate_groups`, `duplicate_occurrences` | one phase each | comparison's cached checksums (read-only) |
| Duplicate finder: refresh, delete, ignore | the same tables, `ignored_paths`, the disk | one request each, refresh in the background | worker, trash |
| SQLite opening (`infrastructure/sqlite/open-database.ts`) | none | retry while busy | the database files |
| Comparison pane (`comparison-pane.tsx`, `list-directory.ts`) | rows, generation ref, fetching ref, spinner, error | reset for a path, sort or token; load more; go on by itself while filters hide too much | list route |
| Comparison page (`directory-comparison-explorer.tsx`, `use-comparison-status.ts`) | two paths, move sync, statuses by name, active pair, refresh tokens | navigate, copy, move, delete, rename, ignore, compare, stop, poll | status route, entry operations, both panes |
| Count-and-size page (`directory-browser.tsx`, `use-directory-status.ts`) | path, sort, rows with their states, tick | navigate, sort, load more, scan and stop of the directory or a row, two polls | list and status routes |
| Duplicate pages (`duplicate-finder-view.tsx`, `duplicate-group-list.tsx`, `directory-duplicates-view.tsx`, `occurrences-dialog.tsx`) | tab, page number, directory, sort, filter, expanded groups, dialog, plan | scan, stop, turn the page, navigate, ignore, rescan, delete with a dry run | results and status routes |
| Navigation, build info, stored preferences | browser state | render, remember | API routes |

How they interact. A request handler changes rows and then calls an engine or a
worker; the engine calls back the per-directory step of its feature, which
awaits the disk and then changes the same rows. Nothing locks: a handler may run
between any two awaits of a step. The comparison queue waits for its engine by
*polling the rows* every 20 ms instead of by a promise. The engine, the queue and
the workers are memory only, the rows survive a restart, and each constructor
settles what a crash left behind. The browser is a second world of the same kind:
handlers, effects and timers send requests whose answers come in any order, and
each component guards itself (or not) against those that come too late.

What makes each part correct, and where the difficulty is:

- *Scan engine and count and size.* A row that says `pending` must have someone
  who will visit it; a Stop must hold against listings in flight; `completed`
  must mean that every directory was listed; an incremental scan must take up
  whatever earlier scans left. Hard: overlapping scans, Stops between two awaits,
  crashes, two different notions of subtree (path prefix in memory, `parent_path`
  walk in SQL), a done-set computed early and used late.
- *Comparison pipeline.* One comparison at a time, in order; Pass 2 only over a
  finished listing; a Stop ends what it was pressed on and nothing after it; every
  queued comparison gets its turn. Hard: the poll, the stops that outlive their
  comparison, the queue that a Stop does not touch.
- *Pass 1 and Pass 2.* "Matching" must mean equal contents; an incremental
  comparison must answer what a full one would. Hard: checksums cached across
  edits, deletions, ignored entries, cancelled passes and read errors.
- *Checksum matches.* A superseded search must leave no trace; the rename plan
  must be executable in order and lose no file. Hard: swaps, cycles, names taken
  by files that are not part of the plan.
- *Duplicate finder.* One scan or refresh at a time; never delete the last copy;
  results of a stopped or crashed scan are marked so. Hard: two requests passing
  the same check before either acts, state read before an await and used after.
- *Entry operations.* No operation takes the last place of a content away. Hard:
  the destination is looked for before the act, a move may be a copy and a removal.
- *Pages.* At rest a page shows what the server has, and shows nothing as under way
  for good. Hard: an answer that belongs to a path, sort, pair or group that is no
  longer on show; guards by generation, by clean-up, by key, or none at all; polls
  that overlap with what a handler fetched.

## Modules

| Module | Models |
|---|---|
| `ScanPaths` | paths and the three notions of subtree the code has |
| `ScanEngine` | one operator per engine method and per stretch of its loop; composed by the feature modules |
| `ScanRows` | the directory rows both users of the engine keep: outcomes, guarded recording, subtree queries |
| `CountAndSize` | the count-and-size tool: requests, per-directory step, rows, restarts, the disk changing underneath |
| `SerialService` | abstract: requests are served one at a time, in the order they came |
| `ComparisonPipeline` | the comparison's control: queue, Pass 1 on an engine of its own, settle poll, Pass 2 as one opaque step, Stop, restarts |
| `ComparePass` | the comparison's data: rows of files and directories, listing with pruning, `compareSubtree`, the checksum cascade, the statuses shown |
| `DuplicateResults` | the duplicate finder's queries and pure parts: candidates, folder checksums, groups, what a removed path leaves of them |
| `DuplicateScan` | the duplicate finder: scans and refreshes from one await to the next, Stop, deletion, ignoring, the disk, restarts |
| `RenamePlan` | `build-rename-plan.ts`: the ordered steps that carry out a set of renames |
| `ChecksumMatches` | the search for checksum matches, the page that starts and polls it, and the execution of its plan on the disk |
| `PaneFetch` | a pane of the comparison page as functions of its state; the sorted, cut listing of the server |
| `ComparisonPane` | one pane over long directories: pages, filters, sort, what overtakes what |
| `ComparisonPage` | the comparison page, its status and poll, and the entry operations from the click to the disk and back |
| `SizeBrowser` | the count-and-size page: the directory's state, the listing with the state of each row, two polls |
| `DuplicatePages` | the duplicate finder's page: status, two tabs, the dialog of one group |
| `MCCountAndSize`, `MCComparisonPipeline`, `MCComparePass`, `MCDuplicateScan`, `MCChecksumMatches`, `MCComparisonPane`, `MCComparisonPage`, `MCDuplicatePages` | small instances for TLC |
| `Pages` | the four pages, one per behaviour, each with its constants |
| `MCPages` | a small instance of it |
| `ScanEngineProofs`, `CountAndSizeProofs`, `ComparisonPipelineProofs`, `ComparePassStepsProofs`, `ComparePassProofs`, `DuplicateScanProofs`, `ChecksumMatchesProofs`, `PagesProofs` | lemmas and theorems |

`CountAndSize` and `ComparisonPipeline` both extend `ScanEngine` and `ScanRows`.
`ComparisonPipeline` implements `SerialService`. `ComparePass` is the inside of one
comparison: it opens the step the pipeline leaves opaque, and leaves the order of
listings and the queue to the pipeline.

**Paths.** A path is the sequence of its names. `IsWithinSubtree` is the lexical
test of `path-info.ts`; `IsInSubtree` is the engine's own, which sees nothing
below `/`; `RowSubtree` is the recursive SQL walk over `parent_path`, which does
not cross a directory without a row. Keeping them apart is what makes the model
able to disagree with the documents.

**ScanEngine.** The engine is passive: `enqueue` and `requestStop` run inside the
handler that calls them, and the loop runs from the return of one step to the
next await. So `EngineEnqueue`, `EngineRequestStop`, `EngineReturn` and
`EngineThrow` are operators on `stack`, `active`, `stoppedRoots` that a feature
conjoins with its own effect. The order in which children are pushed is the
order of the listing, so any order is allowed (`Orderings`).

**CountAndSize.** `rows` gives each path its `own_outcome` (`partial` is `done`
with unreadable entries). `ScanFull`, `ScanIncremental` and `StopScan` are the
three requests. The per-directory step is `ListFails` or `ListSucceeds`, followed
by one `CheckExists` per `pathExists` it awaits while pruning below skipped
directories; its last stretch (`FinishStep`) records the outcome, lets the engine
go on and marks the children a Stop has cut. `ListRejects` is a listing that
throws, `Restart` a crash with the constructor's reconciliation, `Vanish` and
`Reappear` the disk. Two history variables say what a user did: `halted` (stopped
and not asked for again; that the listing of a parent comes upon a directory is not
asking for it) and `undisturbed` (scans since whose start nothing went
wrong).

**ComparisonPipeline.** `Compare` queues a pair or, when none is served, runs the
queue's code to its first await (`Begin`). `ListSucceeds`, `ListFails` and
`ListRejects` are Pass 1's step on the rows, with the engine's next entry in the
same action. `SettlePoll` is the poll that finds no pending row below either root
and starts Pass 2; `Pass2Ends` is its `finally` together with the queue's next
`Begin`. `StopComparison` does what the handler does: both `requestStop`s, the
rows of both panes to `stopped`, the abort of an active Pass 2. `served` and
`phase` stand for `activePair` of the queue and of Pass 2's worker. The refinement
maps `queue` to the service's waiting requests and `served` to its current one.

**ComparePass.** A path is relative to the two roots, so a pair of entries is one
path on two sides. `disk` holds each file's content and modification time (a
version), `node` and `facts` the two tables. `List` is Pass 1 on one directory:
prune, keep or drop a file's checksums, make children pending. Of the engine below
there is what a Stop leaves in it: `stopMark`, the two roots in `stoppedRoots`, which
stay until a loop ends, and `leftover`, the listing in flight that nobody waits for any
more and that may end in Pass 2 or in a later comparison. `StartPass2` to
`EndPass2` is `worker.run`: the stack `frames` holds the activations of
`compareSubtree`, `pair` that of `compareFilePair`, and `held` what each activation
read when it was entered and goes by from then on. Pass 2 has the thread at
`"run"`; only at `"hash"`, the await of a read, can anything else happen, and the
user's, the disk's and the leftover listing's actions are disabled at `"run"`. A directory's checksum is
the set of its children's descriptors, so equal checksums are equal descriptors
(the hash is taken to have no collisions). `DirStatus` and `FileStatus` are the
view's. Three history variables say what a comparison may be held to: `clean`, nothing
has interfered since it began; `quiet`, it began with no Stop on the engine's mind;
`settled`, nothing has since a comparison of which both are true ended without errors.

**DuplicateResults and DuplicateScan.** `files` and `folders` are the two tables of
what was scanned, `results` the groups with the `scan_seq` they were saved under,
`status` the one row of `scan_state`. A run, scan or refresh, is a record: where it
is (`at`), its scope, its copy of the ignored paths, its stack, its candidates. It
gives up the thread at the listing of a directory and at the read of a file, and
nowhere else: `thread` is the run in the middle of a stretch, and requests, disk
changes and other runs wait for it to be 0. Only `Restart` does not, so a crash may
fall between any two transactions. `LookAt` is what a listing sees and
`ListDirectory` what is written from it, possibly after the disk has changed;
`Query` reads the candidates once per stage, `HashNext` settles one from a known
checksum or awaits its read, `ReadFile` and `ReadFails` end that. A file is its
content and modification time. The partial checksum is the content's head, the
checksum of a folder its tree (no collisions). A request to scan or to delete has
an await of its own (`Inspected`, `Described`, `MoveToTrash`), and `RemoveDeleted`
is the change of the rows that follows the move. `Overlap` says whether a second
request may come within these. History: `basis`, the facts the results were built
from; `late`, what was ignored while a run had already read the list; and in a run
`missed`, what changed or failed under it.

**RenamePlan and ChecksumMatches.** A name is a number and a file its content. A
rename maps a left name to the right name of the same content; `Trail` follows the
chain from a head, `ChainSteps` does it from its end, `CycleSteps` opens a loop by
a backup. The last step of a loop takes as its source the name an earlier step
made (`back`), as in the code. `search` is the worker: names still to hash on each
side, the best name per content, the plan at the end; `StartSearch` supersedes, and
what the old search was reading becomes a leftover whose end (`AbortedReadEnds`) is
still counted. `loops` are activations of `findChecksumMatches`, each with what it
was sent; `page` is the modal; `executor` is "rename" or "rename all" with the
plan, results and pair of the render it began in. A rename is `CheckRename`,
`DoRename` and `StepAnswered`, a request of its own each. `Meddle` is another
program's file appearing before the check, or with `Races` after it.

**PaneFetch and ComparisonPane.** `FetchFromOffset` is the pane's only way to ask for
rows: a reset always goes ahead and raises `generation`, anything else is refused
while `busy`. An answer of an old generation is dropped (`Superseded`); a page is
appended to what its call has collected, and while filters leave fewer rows than a
page the same call goes on (`KeepGoing`). `Rendered` is the effect that does so
again after a render. Every action of `ComparisonPane` changes the pane and renders
it. Directories stay as they are: of one that changes between two pages the pane
promises nothing.

**ComparisonPage.** Each request of the page is two steps, the server's answer and
its arrival; an entry operation is two on the server as well, `ServerChecks` (does
the destination exist) and `ServerActs`, and a move across file systems a third,
`ServerRemoves`. `view` is what `use-comparison-status.ts` keeps, with the statuses
by name only, as the page has them. `PageHears` is the end of a handler: it bumps
tokens of the panes that are there by then and fetches the status of the pair there
was when it began. A comparison is the pair that runs and what it records at its
end. `Patient` is a user who waits for an answer before the next click, `Apart` one
who keeps the panes out of one another. A status poll has at most one request under
way, the path a comparison is at is taken to be the pair it began with, and an
answer to a poll that comes after Compare's own status is left out (it would stop
the polling until the next change of path). Sort and filters are `ComparisonPane`'s.

**SizeBrowser and DuplicatePages.** A listing is the effect's, a handler's, a poll's
or the dialog's, and that decides whether its answer counts: an effect's only until
its clean-up (`Fresh`, `Without`), a handler's always. Every status answer is a tick
that has the listing fetched again. In `DuplicatePages` a call carries the query,
key and paths its handler closed over, and `Repaired` is what the dialog crosses out
itself. The servers are no more here than what they answer.

**Pages.** The browser shows one page at a time and they share nothing in it, so a
behaviour of `PagesSpec` is one page's, chosen at the start (`screen`).

## Runs

| Run | Checks | Shows |
|---|---|---|
| `count_core` | `TypeOK`, `PendingIsOwned`, `QueueRespectsStop`, `SettledIsWhole`, `StoppedIsNotOverwritten`, `PendingSettles` | five requests, deletions or restarts in every order on a five-directory tree (`/`, `/a`, `/a/b`, `/a/c`, `/a/b/x`; `/a/c` unreadable); the last is liveness |
| `count_faults` | `FaultsLeaveNoGap` | scans, restarts, deletions, rejecting listings, unreadable entries and directories that come back, without Stop: the incremental mode never skips outstanding work |
| `pipeline_core` | `TypeOK`, `OnePairAtATime`, `Pass2ReadsStableRows`, `ServesInOrder` | comparisons of `/l` with `/r`, of their children of `/l` with itself and with its child, Stops on both levels, a deletion, a rejected listing, restarts |
| `pipeline_serves` | `RequestsAreServed` | with Stops on the compared pair, the settle poll always gets its answer and every request its turn; half of it is liveness |
| `pass_full` | `TypeOK`, `StatusesShownRight` | full comparisons, four contents (two begin alike, three have one size), a path that is a directory or a file, amid edits, deletions, failures, ignoring, Stops at any time, restarts; what is claimed is claimed of comparisons nobody interfered with and that began with no Stop on the engine's mind |
| `pass_incremental` | `StatusesShownRight`, `NoNeedlessRead`, `ProgressReachesTotal` | incremental and full comparisons with edits, creations, failures, ignoring and Stops in the listing phase, whose listing in flight may end in Pass 2 |
| `dup_core` | `TypeOK`, `OneRunAtATime`, `GroupsAreTrue`, `IgnoredIsNotReported`, `FindsEveryDuplicate` | three files, two large ones with one size and head and a small one, in two directories; scans without folders, refreshes of a file and of a directory, Stops, ignoring, edits, removals, failed reads and listings, restarts |
| `dup_folders` | `GroupsAreTrue`, `ReportsAreExact`, `LastCopyIsKept`, `RunEnds` | two twin folders and a third copy; scans with folders, the comparison's cache, edits, ignoring, deletions of a file and of folders; the last is liveness |
| `dup_last_copy` | violates `LastCopyIsKept` | files deleted inside a twin folder, and the folders' group still allows the other folder to go |
| `matches_core` | `TypeOK`, `MatchesAreBest`, `PlanWorks`, `ModalIsTrue`, `NothingIsLost`, `SearchIsShownToEnd` | every pair of directories with four contents under four names, and a second pair: searches and what supersedes them, failed reads, the modal closed and opened again, a plan carried out by steps or at once, another program's file in the way; the last is liveness |
| `pages` | `OneLiveFetch`, `RowsAreTheListing`, `EnoughIsVisible`, `ShownIsCurrent`, `PageIsCurrent`, `ResultsAreCurrent`, `NothingIsLost`, `WhatIsShownEnds` | each page alone, with answers in every order; at rest it shows what the server has, and no entry operation loses a content; the last is liveness |
| `page_delete` | violates `DeleteIsOneSided` | the status that offers the deletion is older than the copy that makes it two-sided |

A Stop is the subject of two properties. `StopIsWhole` is what `scan-engine.ts:57-61`
means: nothing of what was stopped and not asked for again waits or goes on. The code
does not keep it, as two lines below show. `QueueRespectsStop` is what it does keep where `/`
is not stopped and no listing rejects: of such paths only those on which Stop itself was
pressed can be queued, and nothing of them that is in flight goes further.

Some of these join two statements of one question: `SettledIsWhole` is
`IdleMeansSettled` (no pending row when the loop has ended) and
`CompleteMeansListed` (below a row shown as completed every existing directory was
listed); `FaultsLeaveNoGap` is `PendingIsOwned` and `UndisturbedScanCompletes`;
`OnePairAtATime` is `QueueBelongsToServed`, of a comparison that began on an engine at
rest, and `Pass2SeesWholeTree`;
`RequestsAreServed` is `[]PollIsAnswered` and `ServesAll`; `StatusesShownRight` is
`DirectoriesShownRight` and `FilesShownRight`; `ReportsAreExact` is
`FindsEveryDuplicate` and `FoldersAreTwins`; `PlanWorks` is `EveryMatchIsPlanned`
and `NoStepIsRefused`; `ModalIsTrue` is `PlanIsOfPair` and `TickedOffIsDone`.

Besides the runs, three pages have a passing configuration of their own, `Pane_core`
(60,446 states), `Page_core` (127,951) and `DupPages_core` (25,127), and
`CountAndSize_faults` with `StopRoots <- OnlyA`, `MayCrash = FALSE` and `MaxEvents = 5`
satisfies `PendingIsOwned`, Stops amid rejected listings (74,801).

### Further disagreements

The program does not keep everything its documents say, and some of what it keeps
it keeps only under a condition. Each line below is a configuration that ends in a
violation of its one property. Where a file is named, it is that configuration;
otherwise it is the base with the constants replaced as shown (`Spec` or the
base's own specification, and the property in place of the base's).

| Base or file | Constants | Violates | Shows |
|---|---|---|---|
| `CountAndSize_stopchild.cfg` | | `StopIsWhole` | a Stop on `/a/b` while `/a` is being listed: `runLoop` asks only whether `/a` was stopped (`scan-engine.ts:84`), and the end of that listing queues `/a/b` again |
| `CountAndSize_stoproot.cfg` | | `StopIsWhole` | a Stop on `/` drops nothing: `scan-engine.ts:22` tests the prefix `//` (against `scan-scheduler-port.ts:13-14`) |
| `CountAndSize_stoproot` | | `QueueRespectsStop` | and what was queued below `/` goes on |
| `CountAndSize_stopchild` | `MayThrow <- OnlyC` | `QueueRespectsStop` | a rejected listing ends the loop and forgets the Stop while the stopped directory is queued again: the next request lists it, and what is below it |
| `CountAndSize_core` | `Path <- Deep`, `ScanRoots <- AandX`, `StopRoots <- OnlyA`, `Denied, MayVanish <- None`, `MayCrash = FALSE`, `MaxEvents = 4` | `PendingIsOwned` | Stop across a directory without a row drops the entry and leaves its row pending |
| `CountAndSize_faults` | `Path <- Fork`, `ScanRoots <- OnlyA`, `Partial, MayVanish, MayReturn <- None`, `MayCrash = FALSE`, `MaxEvents = 2` | `IdleMeansSettled` | one rejected listing ends the loop with work queued |
| `CountAndSize_core` | `Path <- Fork`, `ScanRoots, StopRoots <- OnlyA`, `Denied, MayVanish <- None`, `MayCrash = FALSE`, `MaxEvents = 3` | `UndisturbedScanCompletes` | a scan asked for after a Stop, while the loop is still busy, is cut off |
| `CountAndSize_core` | `Path <- Fork`, `StopRoots, Denied, MayVanish <- None`, `MayCrash = FALSE`, `MaxEvents = 3` | `NoDuplicateProcedure` | overlapping scans queue a directory twice |
| `CountAndSize_core` | `Path <- Fork`, `Denied, MayVanish <- None`, `MayCrash = FALSE`, `MaxEvents = 6` | `SkipsOnlyDone` | the done-set is older than the row it vouches for |
| `Pipeline_core` | `ComparePairs <- OnlySubs`, `StopPairs <- OnlyTops`, `MayThrow, MayVanish <- None`, `MayCrash = FALSE`, `MaxEvents = 3` | `PollIsAnswered` | a Stop one level above the pair leaves a root pending for ever |
| `Pipeline_core` | `ComparePairs, StopPairs <- AndR`, `MayThrow, MayVanish <- None`, `MayCrash = FALSE`, `MaxEvents = 5` | `QueueBelongsToServed` | what a stopped comparison had queued is still listed while the next one is served (`start-comparison.ts:41`: requests wait "rather than interleaving on the shared structural scheduler") |
| `Pipeline_serves` | `ComparePairs <- OnlyTops`, `StopPairs, MayVanish <- None`, `MayThrow <- OnlyLX`, `MayCrash = FALSE`, `MaxEvents = 2` | `PollIsAnswered` | a rejected listing in Pass 1, and the settle poll never ends |
| `Pipeline_serves` | `ComparePairs, StopPairs <- OnlyTops`, `MayVanish <- None`, `MayCrash = FALSE`, `MaxEvents = 3` | `StoppedDoesNotGoOn` | a comparison stopped in Pass 1 enters Pass 2 |
| `Pipeline_serves` | the same, `MaxEvents = 4` | `LaterCompareIsWhole` | a Stop cuts a comparison that begins after it |
| `Pass_later.cfg` | | `LaterCompareIsRight` | a Stop in Pass 2 finds the engine idle and leaves both roots in its `stoppedRoots` (`stop-comparison.ts:32-33`, `scan-engine.ts:55-56, 101`): the next comparison's Pass 1 lists its roots and nothing below, and statuses are shown over that (against `start-comparison.ts:99-101`, "Pass 1 always relists unconditionally") |
| `Pass_incremental` | `Initial <- TwoAlike`, `Modes <- Incremental`, `Unreadable, MayEdit, MayIgnore, StopPhases <- None`, `MayDelete <- OnlyG` | `DirectoriesShownRight` | a deletion on one side is missed by the cache |
| `Pass_incremental` | `MayIgnore <- OnRoot` | `ProgressReachesTotal` | a compared root that is ignored is not entered, and the pairs below it were counted (`count-file-pairs.ts:15`: progress must not get "permanently stuck short of 100%") |
| `Pass_incremental` | `Files <- SmallFiles`, `Content <- OneAndFour`, `SizeOf <- SizesOneFour`, `PartialOf <- BeginningsOneFour`, `Initial <- TwoAlike`, `Modes <- Incremental`, `MayIgnore, StopPhases <- None` | `ErrorsReachTheRoot` | an old read error is shown on the file and on none of its directories |
| `Pass_incremental` | `Modes <- Incremental`, `Unreadable, MayEdit <- None`, `MayUnignore <- OnF`, `StopPhases <- None`, `MaxEvents = 5` | `DirectoriesShownRight` | a file taken off the ignored list is missed by the cache |
| `Pass_incremental` | `Files <- SmallFiles`, `Initial <- TwoAlike`, `Modes <- Incremental`, `Unreadable, MayIgnore <- None`, `StopPhases <- Anytime`, `MaxEvents = 6` | `DirectoriesShownRight` | a Stop between a file's hash and its directory's checksum makes the old checksum credible |
| `Pass_incremental` | `Initial <- TwoAlike`, `Modes <- Incremental`, `Unreadable, MayIgnore, StopPhases <- None`, `MayCrash = TRUE`, `MaxEvents = 5` | `DirectoriesShownRight` | so does a restart |
| `Pass_incremental` | `Initial <- TwoAlike`, `Modes <- Incremental`, `Unreadable <- OnlyG`, `MayIgnore, StopPhases <- None`, `MayCrash = TRUE`, `MaxEvents = 6` | `NoNeedlessRead` | what a restart left half hashed is hidden by a cache hit, and read when a listing error in the same directory makes a later comparison look (against spec 003, SC-005) |
| `Pass_incremental` | `Initial <- TwoAlike`, `Modes <- Incremental`, `Unreadable, MayEdit, MayIgnore <- None` | `MatchingIsListed` | Pass 2 after a Stop in Pass 1 finds unlisted directories equal |
| `Duplicate_phantomfolder.cfg` | | `FoldersAreTwins` | the row of a directory that has vanished survives a refresh of its parent, which no longer equals its twin |
| `Duplicate_core` | `Removable <- Nothing`, `Overlap = TRUE`, `MayCrash = FALSE`, `MaxEvents = 3` | `OneRunAtATime` | two scans, or a scan and a refresh, asked for while the first one's path is inspected, both start (`start-scan.ts:49`, against FR-008) |
| `Duplicate_core` | `Refreshable, Ignorable, Edits, Removable <- Nothing`, `Deletable <- AAndDA`, `Overlap = TRUE`, `MayCrash = FALSE`, `MaxEvents = 3` | `LastCopyIsKept` | two deletions at once of the last two copies |
| `Duplicate_core` | the same, `Overlap = FALSE`, `MayCrash = TRUE`, `MaxEvents = 4` | `LastCopyIsKept` | a restart between the move and the rows, then the deletion of the other copy |
| `Duplicate_core` | `Removable <- Nothing`, `MayCrash = FALSE`, `MaxEvents = 3` | `IgnoredStaysOut` | a path ignored during a run comes back when the run saves its groups (against FR-026) |
| `Duplicate_folders` | `Deletable, Ignorable <- Nothing`, `CacheHits <- NoCache` | `RefreshKeepsTheRest` | a refresh stopped while it hashes drops every folder group (against FR-045) |
| `Matches_ghost.cfg` | | `NoStepIsRefused` | a name that is there and ignored on the right only counts as taken on the left: the plan begins with a backup of a file that is not there, and that step is refused |
| `Matches_raced.cfg` | | `NothingIsLost` | a file written between the check and the rename is replaced |
| `Matches_otherpair.cfg` | | `PlanIsOfPair` | a plan that comes after a navigation is shown for the new pair |
| `Matches_otherpair` | | `TickedOffIsDone` | the answer of an older "rename all" ticks off a step of the search that superseded it |
| `Matches_ghost` | `Initial <- OneSwap`, `MaxLeftovers = 2` | `HashedWithinTotal` | aborted reads are counted into the search that superseded theirs |
| `Pane_stuck.cfg` | | `EnoughIsVisible` | statuses that come while a page is awaited hide rows already counted as visible: the pane stops short |
| `Pane_core` | `MayFail = FALSE`, `MayBeLost = TRUE` | `RowsAreTheListing` | a listing that gets no answer leaves the pane busy and every later "load more" refused |
| `Page_core` | `Patient = FALSE` | `ShownIsCurrent` | a status read before the server had the comparison comes after it: the page does not show it, and polls no more |
| `Page_core` | `Patient = FALSE` | `NothingIsLost` | a move and a rename to one free name, both looked at before either acts |
| `Page_core` | `Starts <- SameOpen`, `Apart = FALSE` | `ShownIsCurrent` | both panes on one directory: an operation refreshes the side it was made on |
| `Pages` | `Patient = FALSE` | `PageIsCurrent` | statuses of one directory replace one another in the order they come: that from before the scan may be last |
| `Pages` | `MayRefuse = TRUE` | `PageIsCurrent` | the listing after the scan of a row is refused: the row keeps the state of an earlier poll |
| `DupPages_core` | `PageSize = 4`, `Patient = FALSE` | `CopiesAreCurrent` | copies served before a row's ignore was, and shown after it, are not fetched again |
| `DupPages_core` | `PageSize = 4`, `MaxActs = 4` | `GroupCountIsCurrent` | an ignore in the dialog that ends a group has the listing fetched again, the count of groups not |
| `DupPages_core` | `PageSize = 1` | `NoPageIsEmpty` | the last page's only group goes, and the page shown is past the end |
| `DupPages_core` | `ContentOf <- Flat`, `PageSize = 5`, `MaxActs = 4`, `Patient = FALSE` | `DialogIsLoaded` | the end of an ignore in the dialog before replaces the copies of the one now open, which then loads for good |
| `DupPages_core` | `PageSize = 4`, `MaxActs = 6` | `PlanIsKept` | a plan outlives its dialog: opened again, it confirms a deletion with the copies there were before |
| `DupPages_core` | `PageSize = 4`, `Patient = FALSE` | `ResultsAreCurrent` | the first status comes after that of a scan just started: the page shows the scan as over |

### Bounds

Two or three levels and a fork are enough for a scan inside a scan, a
stop above and below it, a skipped directory with a known descendant and a
sibling that fails. `MaxEvents` bounds requests, disk changes and restarts
(the scan's own steps are unbounded); five allow scan, stop, rescan, restart and
rescan with a deletion in between. The passing runs leave out what the
violations isolate: `/` is not stopped, no listing rejects where Stops are checked, and
with `MayReturn` or stops across gaps the corresponding property is not claimed.

For the pipeline two trees of two levels suffice: one pair inside the other, a pair
whose one side lies in the other, a directory compared with itself, a request waiting
behind another. For the pass one
directory with two files gives a cache hit at two levels, a file hashed before
and one after a Stop; four events are compare, change, compare, compare. Versions
are bounded by 3: a new one only has to differ from the disk's and the row's.
`pass_incremental` leaves out deletions, un-ignoring, Stops outside the listing phase
and restarts, which the violating configurations isolate. Full comparisons hold with all
of them if they begin with no Stop on the engine's mind; `Pass_later.cfg` is what happens
to the others. `pass_full` has three events, on the larger tree: compare, Stop while it
hashes or lists, and compare again is among them. Two changes of a
file that keep its size and modification time are outside the model, as they are
outside what the program promises.

For the duplicate finder three files and two contents that share size and head
reach every stage of the cascade, a unique file becoming shared and the reverse; a
small third content has a head that is the whole file. Five events are a scan, a
change, a refresh, a Stop and a restart; or a scan, a deletion, a scan, and two
deletions of which one falls into it. `MaxRuns` is 2, so that a second run could
start if the code let it. `Overlap` is false in the passing runs, `dup_folders` has
no restart and deletes folders or the file beside them, not files inside, and
removes no directory: each of these breaks a property, and a configuration above
shows how.

For checksum matches four names give a chain of three, a loop of two beside a
chain, a copy (two names of one content on one side) and a backup name that is
already taken (`Spare` holds the names a backup may have); a second pair gives a
search that is superseded and a navigation. `MaxLeftovers` is the number of aborted
reads that may still be under way.

For the panes a directory of five entries with pages of two gives two full pages
and a short one, `Ranks` has two entries that sort alike, and filters that hide
three of five make the pane go on by itself. The comparison page has two trees
with one folder, three names and a move across file systems; the other pages have
two levels. `MaxActs` (2 or 3) bounds what the user does, not what is in flight.
`Patient` (a click only when nothing is awaited), `Apart` (neither pane inside the
other) and `Steady` (the pane's filters do not change while it loads) are TRUE
where a property is claimed, and `MayBeLost` is FALSE: the lines above show what
each hides.

Deadlock is not checked: with no request left and the loop idle the system stops.

## Fairness

`CountAndSize!FairSpec` assumes `WF_vars(Step)` only: the kernel answers a listing
or a stat that is in flight, and the promise continuation then runs. No request,
failure, restart or disk change is fair. `ComparisonPipeline!FairSpec` adds two
more: the settle poll's timer keeps firing, so a poll that can end does
(`WF_vars(SettlePoll)`), and Pass 2, a finite recursion over rows whose reads end
or fail, ends (`WF_vars(Pass2Ends)`). `ComparePass` states no liveness.
`DuplicateScan!FairSpec` assumes `WF_vars(RunStep)`: the disk answers listings and
reads, and the continuation runs; stops, deletions and restarts are not fair.

`ChecksumMatches!Spec` is fair to the reads of each stream, to the worker's end,
to the steps of a rename and to each activation's loop: its timer fires and its
requests are answered. The pages' specifications are fair to what the page awaits
(rows, statuses), to the server's part of a request, to a comparison, scan or run
that is under way (each ends: the properties above), and to an interval that is
set. The user never is. `PagesSpec` has the same fairness, one condition
per kind, which for the one page on show is that page's.

`WhatIsShownEnds` is, on each screen, the page's own `LoadingEnds`, `ActivityEnds`,
`ScanIsSeenToEnd` or `RunIsSeenToEnd`.

## Proofs

Each theorem below holds for every value of the constants, within the assumptions
on them that the module states and those named here. The invariant a proof rests on
was run through TLC before it was proved.

| Theorem | States | Assumes |
|---|---|---|
| `CountAndSizeProofs!TypeCorrect` | `[]TypeOK`, and that a step is awaited exactly while the engine has an entry in flight | |
| `StopIsRespected` | `[]QueueRespectsStop` | `/` is never stopped, no listing rejects |
| `StoppedStays` | `StoppedIsNotOverwritten` | |
| `NoPendingRowIsOrphaned` | `[]PendingIsOwned` | adjacent scanned directories, no directory comes back |
| `IdleHasSettled`, `CompleteIsListed`, `WhatIsSettledIsWhole` | the halves of `SettledIsWhole`, and both | the same and no rejected listing; only that no directory comes back; all three |
| `NoFaultLeavesAGap` | `[]FaultsLeaveNoGap` | nothing is stopped, no directory comes back |
| `ComparisonPipelineProofs!PipelineTypes` | `[]TypeOK` | |
| `PipelineServesInOrder` | the pipeline implements `SerialService` | |
| `OnePairAtATimeHolds`, `Pass2ReadsStableRowsHolds` | `[]OnePairAtATime`, `Pass2ReadsStableRows` | |
| `ComparePassStepsProofs!TypeCorrect` | `[]TypeOK` | |
| `ProgressIsTotal` | `[]ProgressReachesTotal` | neither compared root can be ignored |
| `ComparePassProofs!FullComparisonIsRight` | `[](mode = "full" => StatusesShownRight)` | |
| `IncrementalIsRight` | `[]StatusesShownRight` | nothing is deleted or un-ignored, nobody presses Stop, no restart (`KeepsCaches`) |
| `ComparingAgainReadsNothing` | `[]NoNeedlessRead` | the same |
| `DuplicateScanProofs!TypeCorrect` | `[]TypeOK` | |
| `OneRun`, `IgnoredStayOut`, `GroupsTrue` | `[]OneRunAtATime`, `[]IgnoredIsNotReported`, `[]GroupsAreTrue` | no request falls into another's inspection (`Overlap = FALSE`) |
| `EveryDuplicateFound` | `FindsEveryDuplicate` | the same |
| `ChecksumMatchesProofs!TypeCorrect` | `[]TypeOK` | |
| `MatchesAreBestHolds` | `[]MatchesAreBest` | |
| `NothingIsLostHolds` | `NothingIsLost` | nobody writes between a rename's check and the rename (`Races = FALSE`) |
| `EveryMatchIsPlannedHolds` | `[]EveryMatchIsPlanned`, one half of `PlanWorks` | |
| `PlanIsOfPairHolds` | `[]PlanIsOfPair`, one half of `ModalIsTrue` | who searches again waits for all to end (`Patient`) |
| `PlanWorksHolds`, `ModalIsTrueHolds` | `[]PlanWorks`, `[]ModalIsTrue` | that; nothing is ignored on the right and no name there is one a backup gets (`PlainOnTheRight`) |
| `PagesProofs!PaneHasOneLiveFetch` | `[]OneLiveFetch` | |
| `PaneShowsTheListing` | `[]RowsAreTheListing` | every listing is answered (`~MayBeLost`) |
| `PaneShowsEnough` | `[]EnoughIsVisible` | that, and that filters change at rest only (`Steady`) |
| `PageIsCurrentHolds` | `PagesSpec => []PageIsCurrent`, from `Sizes!Spec => []Sizes!PageIsCurrent` | who acts waits for answers (`Patient`), no listing is refused (`~MayRefuse`), no two names have one rank |
| `ShownIsCurrentHolds` | `PagesSpec => []ShownIsCurrent` | who acts waits for answers, entries are operated on only while neither pane's directory is the other's or lies in it (`Apart`), a directory fits on a page of a pane, no two names have one rank |
| `PagesProofs!NothingIsLostHolds` | `PagesSpec => NothingIsLost` | who acts waits for answers |
| `ResultsAreCurrentHolds` | `PagesSpec => []ResultsAreCurrent` | who acts waits for answers |

Where an assumption is made, a configuration above
violates the property without it, with the two exceptions named below: a Stop of `/` or across a gap, a scan asked for
after a Stop, a rejected listing, two requests of the duplicate finder that overlap
(two starts, among the further disagreements), `Matches_raced`, `Matches_otherpair`,
`Matches_ghost`, `Pane_stuck`,
a listing that is lost, `Pages` with `Patient = FALSE` and with
`MayRefuse = TRUE`, `Page_core` with `Patient = FALSE` and with `Apart = FALSE`,
`DupPages_core` with `Patient = FALSE`, `Duplicate_core` with `Overlap = TRUE`
(two scans that start together list over each other's rows, and what finishes first
misses copies), an ignored root, and for the statuses of an incremental
comparison a deletion, an un-ignore, a Stop in Pass 2 and a restart. The exceptions:
`KeepsCaches` excludes every Stop, also one in the listing phase, with which
`pass_incremental` holds and is only model-checked; and for `NoNeedlessRead` it is the
restart that has a violation, the rest being assumed because its proof goes through the
statuses. That no two
names have one rank is what `Sorted` means by an order by name. That a directory fits
on a page is what `ShownIsCurrent` says: a pane nobody scrolls shows the first page of a
longer one, and what it then shows is the matter of `PaneShowsTheListing`. The module
says the rest in `PairsAreListed`, `PathsAreListed` and `CopiesAreListed`: what the trees
are, that the panes begin at paths of folders, and that no file lies below another.
`DuplicateResults` says of its constants that what is above a place is a directory, so
that nothing is below a file (`TreeAssumption`), and that the head of a content is a
checksum like others, never the mark of one that is missing (`ContentAssumption`). A
directory that comes back lets a done-set vouch for one that was never listed, the
same as `SkipsOnlyDone`.

**Count and size.** `StopIsRespected` rests on `StopInv`: a path that was stopped and not
asked for again is below a mark of `stoppedRoots`, or out of the engine's reach, that is,
neither it nor a directory above it is queued or in flight. A loop
that ends drops the marks with nothing left in reach; a listing puts only children of
what it listed in reach, and if that is not itself below a mark, a stopped child bears
the mark itself. A rejected listing would drop the marks with the queue still in place.

`PendingIsOwned` is not inductive. `requestStop` drops queue
entries by path prefix, `stopScan` settles rows by `parent_path`: the two agree only
if no row is cut off from an ancestor's row by a directory without one. The
strengthening `IInv` adds four facts: the rows reach an anchor without a gap
(`AnchoredSet`), the disk is closed under parents (`DiskClosed`), a queued path that
has lost its row has left the disk (`RowlessIsGone`), and `PendingIsOwned` itself.
Without `RowlessIsGone` a stale queue entry could re-create rows under a forgotten
directory and open a gap. `IdleHasSettled` follows with one more fact: only a
rejection leaves a queue behind an engine that does not run. `CompleteIsListed`
rests on `ListedInv`, which says where the unlisted directories are (`Blocked`):
between a row and an existing directory below it without a row there is a row that
is not `done`. Recording a result keeps this because `traverseDirectory` has given
every child a row by then and `pruneDeletedDescendants` forgets only what the
listing did not show; skipping the done children keeps it because a done-set holds
only paths that have a row or are gone (`Known`). `NoFaultLeavesAGap` says of a
scan nothing happened to that every row below it which is not `done` is `Due`: an
entry of the queue, of the children about to be queued or the one in flight
`Claims` it, that is, will come to it. An entry claims only what its own done-set
does not skip, so the entries must reach each row without a step that a done-set
cuts (`Rooted`, `Connected`); a rejected or partly read listing takes its scan out
of `undisturbed`, a restart all of them.

**The comparison's pipeline.** That it serves in order needs that nothing waits while
nothing is served; a step of Pass 1, a Stop or a disk change leaves queue and served
pair alone and so is a stutter. `OnePairAtATime` and `Pass2ReadsStableRows` share
`PipelineInv`: what the engine has queued was reached from the served pair
(`OwnWork`), and while an undisturbed pair is listed each directory that is not
done has itself or one above it in the queue (`Listing`). When the poll finds nothing
pending the queue is therefore empty and every directory listed, so during Pass 2 the
engine is at rest and a write to the pair's rows could only come from a Stop.

**The comparison's pass.** `TypeCorrect` needs the shape of the recursion
(`IsNest`): each activation of `compareSubtree` is entered, at the parent of the
next one's directory, and the pair being compared is in the innermost. `ProgressIsTotal`
then compares two recursions. `FilePairs` is what `countFilePairs` counts;
`Remaining` is what of it still lies below an entry some activation has yet to come
to, or is being compared. `Foreseen` says that what is resolved and `Remaining` make
the total, that every activation is where the counting recursion would be
(`Reached`) and that the pair being compared was counted. A pair lies below one
entry only (`NestApart`), so each step takes from `Remaining` what it adds to the
counter: one file, nothing, or on a cache hit all that `countFilePairs` finds in that
directory. That the two recursions agree on kinds needs that no path is known both as
a directory and as a file (`KindsApart`), which pruning at each listing keeps.

Both this and what follows need that what activations hold is right while they use it
(`HeldRight`): each entry they have yet to come to is in the rows as they read it. That is
so where no listing ends in Pass 2, that is, with no mark of a Stop and no leftover
listing (`Calm`); a comparison that begins with the mark off, and in which nobody
presses Stop, keeps it off (`quiet`), and where nobody ever does, all begin so
(`CleanIsQuiet`).

`FullComparisonIsRight` is about what a comparison inherits. Rows outlive the
comparison that wrote them, so a row may say anything of a file that has changed; what
holds at all times is that a row *whose version is the file's* says what the file holds
(`FactsTrue`), and that what is known lies in a directory that is known
(`KnownClosed`: pruning a directory forgets what lies below it). During an undisturbed
comparison a directory that Pass 1 comes to is listed truly (`Listed`), or still awaits
the listing of one above it (`ListedInv`), so that all are once `toList` is empty
(`EverythingListed`). Then `PassTrue` follows the recursion. A directory no activation
has yet to come to (`~ToCome`) has a `Verdict`: a checksum only if nothing below it
differs, no checksum and no error only if something does, and every pair of files in
it decided. Each activation has, of all it has taken from its list and whose result it
has (`Took`), either a true difference, or an error, or equality throughout, and the
values held for the pair being read are those its rows describe (`PairRows`). `PairEnds`
and `PassFinish` are the steps at which a verdict is reached. A directory may be unlike
only for an entry that one side alone ignores, or one that differs in kind;
`KindsMakeUnlike` and `Unlike` say so.

`IncrementalIsRight` adds the step that a full comparison never takes: a directory is
answered from its checksum (`PassCached`). The invariant behind it, `CacheInv`, holds
at all times, also while the trees change. A checksum of a directory is kept while what
it was computed from is no longer so, as long as the rows below show it; so it cannot
say what is on disk, only what the rows say: of the files below that are shown and
*that both sides have a checksum of*, the two checksums are the same (`AlikeIn`,
`SumsTrue`), except for a directory whose activation is under way, where this holds of
the entries taken so far (`TookAlike`). A new version of a file takes its checksum from
its row, and the read that brings it back is made for a pair below activations only,
whose directories are the exception (`AlikeHash`). When every row below a directory is
vouched for (`IsCacheStillValid`), all files below have checksums of their current
versions, the same on both sides, and `CachedBelow` turns this into the verdict. This
needs that checksums belong to what both sides have (`RowsKept`) and that nothing an
earlier comparison looked at is gone or newly shown: `KeepsCaches`.

`ComparingAgainReadsNothing` says that a pair, once decided by its rows, stays `Ready`:
the next listing finds the version each row has and keeps it, and a row that a listing
loses is not awaited again in that listing (`ListKeepsSettled`). So no pair comes to a
stage at which a side is unread.

**Duplicate finder.** For `OneRun`, the slot needs to know that the run under way is the
one the controller names, that a request waiting for its path's inspection waits
alone, and only while nothing runs (`OneSlot`, `OneStart`). For the ignored paths,
the run that will replace the results must itself know all that is ignored, but
for what was ignored after it had read the list (`RunsKnow`): the lemmas
`BuildKeepsOut`, `PruneKeepsOut`, `RemoveKeepsOut` and `FilterKeepsOut` say that
each way the groups are rewritten keeps out what was out, and `BeginKeeps` that a
run starts with the whole list. Every step of a run either moves it, with its list
unchanged, or ends it (`RunStepCases`). `GroupsTrue` is about contents: `Truth` says
of each row, each candidate a run has queried and each group what it implies of the
disk *if the file has not changed since*, which is a comparison of facts (`Past`,
`TrueSums`). A row's checksum is kept across listings only with the facts it was
computed from; a candidate is hashed at an await after its facts were read, and is
right because a change in between changes the facts, not because there is none.

`EveryDuplicateFound` is about what a run leaves out. It follows a file the run has to
answer for (`Clear`: it is there, not ignored, and neither touched nor hidden by a
failure since the run began) from phase to phase, in the invariant `Covered`. While the
run lists, the file's row is up to date (`Right`) or its listing is to come: it lies
below a directory on the stack, below the one being listed, or in what was found there
(`Ahead`, `Walks`). An empty stack then means that all are listed (`WalkEnds`,
`Listed`), and what a refresh forgets it has not seen (`WalkForgets`). That a listing
finds the file or the directory that leads to it needs that what exists lies in
directories that exist (`Whole`). For the hashing, a file counts if another one with its
content does (`Paired`): the query of a stage takes both for candidates because equal
contents have equal sizes and, by `Truth`, equal heads (`QueryCovers`), and from then on
the file awaits its read or has what the stage is to record (`Hashes`, `Settles`). A
candidate whose checksum was known when it was queried is passed over, which is right
because nothing takes a checksum from a row meanwhile (`Fresh`, and `HeadsFirst`: no
full checksum without a partial one); a deletion would, but none is under way during a
run (`NoDeletion`). What others do to the disk is told to the run (`OthersCover`).
So both files have their full checksums when the results are saved, and by
`Truth` the same. Their group is then reported, unless folders explain it: of the groups
of folders that reach both, the one whose folder is the highest above the first file is
explained by no other (`SomeGroupStands`), and holds them together.

**Checksum matches.** `MatchesFollow` ties the map of matches to the names hashed so
far, in whatever order the two streams come (`FollowIsBest`): a superseding search
replaces both at once. `NothingIsLost` needs `CheckedIsSo`: between the check of a
rename and the rename, its source is there and its destination free.

That the plan works is two arguments. The first is about the plan alone: matches of
distinct contents share no name (`SumsApart`), so the renames are one-to-one
(`RenamesFacts`), and then two trails have no name in common unless they have one
head (`TrailsShareNothing`), and every renamed name is on one: who steps back from a
name either comes to a head or goes round, and a loop has a least name
(`EveryNameHasAHead`). `ChainWorks` and `CycleWorks` say of the steps of one trail
what `Works` says of a plan: each step renames what it should, goes back to a backup
of its own, and gives a name that is free or left by a step before it. `JoinedWork`
says it of two such plans one after the other if they share no name, and
`PlanOfAllWorks` of the whole plan, by the least number of heads for which it fails.

The second is about the disk: `Fits` relates a plan of which `done` steps are done to
the files there are. Every step ahead finds its file under the name `Where` says, no
two take the same one, the name it gives is free or will have been left by then, and
what is done stays. A search whose sums are those of the disk ends with a plan that
fits (`TruePlanFits`), a rename that meets its check keeps it fitting (`StepFits`),
and a check that meets such a plan succeeds (`CheckSucceeds`). `InStep` supplies that
the disk is the right one: with one search at a time and none beside a step, what the
loop was answered is of the pair on show, and the plan, results and position of the
step under way are the page's.

**The pane.** That one fetch is live needs that no request is ahead of the pane's
generation and that the pane is busy exactly while one request has it (`Booked`): a
reset raises the generation before anything of the old one can come back, so what
comes late can neither append nor clear the flag. That the rows are the listing needs
to know what a request under way will append to: `Right` says that the live one goes
on from a prefix of the listing, held by the pane or collected by the request, and
that what an answer carries is the next piece of the listing it was asked of.
That two adjoining pieces make one (`SubSeqsJoin`) and that a page goes on from its
offset (`PageGoesOn`) are the lemmas the code's `offset + entries.length` rests on.
An answer is kept until it arrives (`AnswersAreAwaited`), one per request. That
enough is visible needs what the live request has counted (`Counts`: at most the
rows that do show, of as many pages as it fetched) and what the render effect has
last seen (`Noticed`): an effect runs only when a value it depends on changes, so
`hasMore` and the want for more, once seen together, must mean that the pane has had
its pages.

**The Count and Size page.** The page's state and each of its rows may be old in two
ways. One is harmless by itself: what says `scanning` makes the page ask again, so a
state on show is the directory's own or that one (`Known`). The other is an answer
still to come: until one is applied, anything may be on show. So `SInv` says that the
page's state is `Known` or a status is awaited (`ViewIsKnown`), that the rows are the
beginning of the directory with `Known` states or something is awaited that will have them replaced
(`RowsAreKnown`: a listing, or a status, upon which the page lists again), and of every
listing on its way that it shows `Known` states, or that another will come after it
(`AnswersAreKnown`). A
scan changes states that were `Known`, which is why a page that has asked for one must
be waiting for nothing else (`RequestIsAlone`) and why the handler's own listing is the
last to come (`HandlerIsAlone`): a row's poll still under way is cancelled as the
handler's listing arrives. An answer may be cut short only by the page's end: that the
server's order leaves no place empty (`EveryPlaceIsTaken`) is where the names' distinct
places are needed; that with them an order lists each entry (`SortedHasAll`) serves both
pages, and what that comes from, one entry at each place of a strict order of finitely
many (`OneIsAtEachPlace`), the duplicate finder's too.

**The comparison page.** `CInv` begins with what a user who waits gives: one operation
at a time, and while it is under way until the page has heard of it nothing else is
asked (`OperationIsAlone`). The statuses on show are then those of the server for the
pair on show (`Current`), or say that a comparison is active, or something is awaited
that brings others: an answer, or a done operation's refetch (`ViewIsFresh`, `Awaiting`).
An answer on its way shows what is so, or says active and has the page ask again; or it
is a poll's, with no comparison running any more, something else still awaited, and no
answer to anything else that says active: what the poll shows is not the last to be shown (`AnswersAreFresh`, `IsOvertaken`). Each pane shows the entries of its directory, or a
listing is to come, or an operation that is done and refreshes that side (`RowsAreFresh`).
That this is enough needs `Apart`: `OperationIsApart` says that where a pane is not
refreshed, an operation takes nothing from its directory, or from above it, and puts
nothing there, and the lemmas on trees (`CopiedIsTree`, `RestrictedIsTree`,
`EntriesStay`) that its entries then stay.

`NothingIsLost` needs none of this, and not where the panes are. `KInv` says that the
tree is closed under parents, that an operation's destination is free once it was checked
(nobody else acts between the two), and that before a source that was copied, to its
destination or to the trash, is removed, what lies below it is in the trash, or elsewhere (`IsSafe`). `CopiedIsThere`
is the lemma about copies: to a free destination not below the source, with the
directories above it made, the copy replaces nothing and repeats all that lies below
the source outside of it; `RemovedIsKept` that removing the source then loses nothing.

**The duplicate finder's page.** What a user who waits gives: no two handlers' requests at
once, and nothing else at all while a scan or refresh is asked for or the dialog asks for
something (`CallsAreAlone`), so that the server does nothing behind an open dialog. What
the page knows of the run is its state, or that it was running, or a status is to come
(`RunIsKnown`). The listing on show is then the one the server has, or another is due
(`ResultsAreFresh`): a listing under way whose answer will be that one (`ListingIsDue`),
or a status, with which the page lists again whatever it was doing (`TickIsDue`); the
end of a run makes one due because the page still shows the run. A listing under way
has no tick after it in two cases, and both need the server to stand still: in the
dialog, and after a group that was opened and is gone. For the second
`ExpansionsAreRight` says that during a run no group can be opened that is gone: the
listing it was opened from was fresh, and a group of a fresh listing has copies
(`ShownGroupHasCopies`), which nothing removes before the run ends. `DialogIsRight` is
about the copies the dialog shows, which it crosses out by itself: they are those the
server has, or one was removed and it has not heard. That crossing out one leaves what
the server keeps of the group, unless it keeps none, is `CopiesLeft`.

Induction over paths and stacks is done by least counterexample (`LeastNatural`): a
set of lengths is a constant parameter, where the library's induction theorems take
an operator, which the installed provers cannot instantiate.

What TLC alone checks:

- liveness (`PendingSettles`, `ServesAll`, `RunEnds`, `SearchIsShownToEnd`,
  `WhatIsShownEnds`) and anything about `ENABLED`, which are out of these provers'
  reach;
- of the duplicate finder, the folders' groups (`FoldersAreTwins`, the other half of
  `ReportsAreExact`) and `LastCopyIsKept`. Both hold of what their passing run lets
  happen and no more: the code does not meet the first once a directory has vanished,
  nor the second after a deletion inside a twin folder, after a crash, or beside another
  deletion.

## What is left out

File counts, sizes and their sums; symbolic links and the ignore list of
entries; formatting; HTTP. In the comparison: the registry of files of unreliable
size, the `scanning` status, and pairs that share a directory with another pair
(rows belong to a path, so comparing A with C changes what A against B shows: that
takes three sides). In the duplicate finder:
progress and phases as displayed, sizes of groups, the
order in which candidates are read, names in the trash, moves of a deleted copy
across file systems, and
case: SQLite's `LIKE` takes `a` and `A` for the same letter, so a refresh of `/r/d`
also forgets the rows of `/r/D`.

In the pages: hovering, focus and layout; thumbnails, the overlays that list
ignored paths and files of unreliable size; sorting by size, count or date where
the server computes them (`PaneFetch` sorts by a given rank); the filters that hide
empty or excluded entries besides the one modelled; status requests that fail; a
scan that is refused after its button has changed; answers to the comparison page's
entry operations that are lost on the way (those of the rename modal are modelled). Two components are not modelled at all for want of state: the
checksum of an Office container, a function of one file's bytes, and the opening of
a database, a retry while the file is busy. The shell, navigation, build
information and stored preferences change nothing that the rest reads.

## Plan

Done: the engine and count and size; the comparison's pipeline against
`SerialService`; its pass; the duplicate finder's runs, results, refreshes and
deletions; checksum matches and the rename plan; the four pages with the entry
operations; the theorems above. What is left, in this order:

1. `NoNeedlessRead` with deletions and un-ignored entries.
2. `DeriveFolders` against the trees on disk, for runs during which no directory goes.
3. A comparison of three sides, where rows are shared between pairs.
4. An answer to a poll that is overtaken by Compare's own status.
