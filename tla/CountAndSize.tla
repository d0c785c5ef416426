---------------------------- MODULE CountAndSize ----------------------------
(***************************************************************************)
(* The count-and-size tool: the use cases that start and stop a scan, the  *)
(* per-directory step the engine runs, and the rows they share in SQLite.  *)
(* Handlers run to completion between awaits (one Node process, synchronous*)
(* SQLite), so an action is a handler, or what a scan step does from one   *)
(* await to the next.                                                      *)
(*                                                                         *)
(* File counts and sizes are left out: a row is reduced to its outcome.    *)
(***************************************************************************)
EXTENDS ScanEngine, ScanRows

CONSTANTS
    ScanRoots,   \* the directories on which Scan is pressed
    StopRoots,   \* the directories on which Stop is pressed
    Denied,      \* directories whose listing fails with EACCES
    Partial,     \* directories that hold an unreadable entry
    MayThrow,    \* directories whose listing can reject (EIO, EMFILE, ...)
    MayVanish,   \* directories that can be deleted on disk
    MayReturn,   \* directories that can be created again
    MayCrash,    \* whether the process can be restarted
    MaxEvents    \* bound on the requests, disk changes and restarts

ASSUME PathAssumption ==
    /\ Path \subseteq Seq(STRING) /\ IsFiniteSet(Path)
    /\ \A path \in Path : Lineage(path) \subseteq Path
    /\ Idle.path \notin Path
    /\ ScanRoots \cup StopRoots \cup MayReturn \subseteq Path
    /\ MayCrash \in BOOLEAN
    /\ MaxEvents \in Nat

VARIABLES
    rows,    \* directory_scan_nodes: the outcome of each path, "none" without a row
    disk,    \* the directories that exist
    job,     \* the in-flight step, between two of its awaits
    events,  \* how many of the MaxEvents have happened
    halted,      \* history: paths stopped and not asked for again since
    undisturbed  \* history: scans started with nothing gone wrong since

repoVars == << rows, disk, events >>
vars == << stack, active, stoppedRoots, rows, disk, job, events, halted, undisturbed >>

-----------------------------------------------------------------------------
(* Pure derivations over the rows *)

\* Mutant of DeriveDoneSet: a node counts as done whatever its children are.
OwnDoneOnly(table, root) ==
    { node \in GetSubtree(table, root) : table[node] = "done" }

\* A subtree is done when each of its rows is: the bottom-up pass of the code
\* adds a node once it and, recursively, every known child is done.
DeriveDoneSet(table, root) ==
    LET nodes == GetSubtree(table, root)
    IN  { node \in nodes :
            \A below \in nodes : IsWithinSubtree(below, node) => table[below] = "done" }

ViewState(table, path) ==
    LET subtree == GetSubtree(table, path)
    IN  IF table[path] = "none" THEN "not_scanned"
        ELSE IF \E node \in subtree : table[node] = "pending" THEN "scanning"
        ELSE IF table[path] \in { "error", "stopped" } THEN table[path]
        ELSE "completed"

\* Mutant of ViewIncomplete: only the directory's own flag is looked at.
OwnIncomplete(table, path) ==
    /\ ViewState(table, path) = "completed"
    /\ table[path] # "done"

ViewIncomplete(table, path) ==
    /\ ViewState(table, path) = "completed"
    /\ \E node \in GetSubtree(table, path) : table[node] # "done"

Complete(path) ==
    ViewState(rows, path) = "completed" /\ ~ViewIncomplete(rows, path)

-----------------------------------------------------------------------------
(* The in-flight step. It awaits its listing, then, for each directory the *)
(* done-set skipped, one pathExists per row known below that directory.    *)

Listing == [phase |-> "listing", kids |-> {}, skipped |-> {}, unchecked |-> {}]
Resting == [Listing EXCEPT !.phase = "idle"]

NextJob == IF EngineRunning' THEN Listing ELSE Resting

ChildDirs(path) == { child \in disk : child # Root /\ ParentPath(child) = path }

CanList(path) == path \in disk /\ path \notin Denied

KnownBelow(table, path) == GetSubtree(table, path) \ { path }

\* The step has nothing left to await: it records its own outcome, and the
\* loop goes on in the same stretch.
FinishStep(table, kids) ==
    LET result == IF active.path \in Partial THEN "partial" ELSE "done"
        recorded == RecordOwnResult(table, active.path, result)
    IN  /\ EngineReturn(kids)
        /\ rows' = MarkStopped(recorded, CutChildren(kids))
        /\ job' = NextJob
        /\ halted' = halted

\* Go on pruning below the skipped directories, or finish.
PruneOrFinish(table, kids, skipped, unchecked) ==
    LET toVisit == { dir \in skipped : KnownBelow(table, dir) # {} }
    IN  \/ /\ unchecked # {}
           /\ job' = [phase |-> "pruning", kids |-> kids,
                      skipped |-> skipped, unchecked |-> unchecked]
           /\ rows' = table
           /\ UNCHANGED << engineVars, halted >>
        \/ /\ unchecked = {}
           /\ \E dir \in toVisit :
                 job' = [phase |-> "pruning", kids |-> kids,
                         skipped |-> skipped \ { dir },
                         unchecked |-> KnownBelow(table, dir)]
           /\ rows' = table
           /\ UNCHANGED << engineVars, halted >>
        \/ /\ unchecked = {}
           /\ toVisit = {}
           /\ FinishStep(table, kids)

\* Scans whose tree takes in a path that could not be read, or came back.
Covering(path) == { root \in undisturbed : IsWithinSubtree(path, root) }

-----------------------------------------------------------------------------
(* Requests *)

Init ==
    /\ EngineInit
    /\ rows = [path \in Path |-> "none"]
    /\ disk = Path
    /\ job = Resting
    /\ events = 0
    /\ halted = {}
    /\ undisturbed = {}

Event == /\ events < MaxEvents
         /\ events' = events + 1

StartScan(path, done) ==
    /\ Event
    /\ rows' = UpsertPending(rows, { path })
    /\ EngineEnqueue(Entry(path, done))
    /\ job' = IF EngineRunning THEN job ELSE Listing
    /\ halted' = halted \ LexicalSubtree(Path, path)
    /\ undisturbed' = undisturbed \cup { path }
    /\ disk' = disk

ScanFull(path) == StartScan(path, {})

\* The done-set is read before the row of the requested path is reset.
ScanIncremental(path) == StartScan(path, DeriveDoneSet(rows, path))

\* The Stop button is shown for a view in state 'scanning', hence for a
\* directory that has a row; the view may be older than the request.
StopScan(path) ==
    /\ rows[path] # "none"
    /\ Event
    /\ EngineRequestStop(path)
    /\ rows' = MarkStopped(rows,
                  { node \in GetSubtree(rows, path) : rows[node] = "pending" })
    /\ halted' = halted \cup LexicalSubtree(Path, path)
    /\ undisturbed' = { root \in undisturbed : ~IsWithinSubtree(path, root)
                                            /\ ~IsWithinSubtree(root, path) }
    /\ UNCHANGED << disk, job >>

-----------------------------------------------------------------------------
(* processDirectory *)

\* The directory is gone or may not be read: its row becomes an error.
ListFails ==
    /\ job.phase = "listing"
    /\ ~CanList(active.path)
    /\ EngineReturn({})
    /\ rows' = RecordOwnResult(rows, active.path, "error")
    /\ job' = NextJob
    /\ undisturbed' = undisturbed \ Covering(active.path)
    /\ UNCHANGED << disk, events, halted >>

SkippedDirs == ChildDirs(active.path) \cap active.done

\* The listing is in: forget the children that are no longer directories
\* here, make a pending row for each child to visit, then prune or finish.
ListSucceeds ==
    /\ job.phase = "listing"
    /\ CanList(active.path)
    /\ LET found == ChildDirs(active.path)
           kids == found \ active.done
           gone == GetDirectChildren(rows, active.path) \ found
           listed == UpsertPending(DeleteDirectorySubtree(rows, gone), kids)
       IN  PruneOrFinish(listed, kids, SkippedDirs, {})
    /\ undisturbed' = IF active.path \in Partial
                        THEN undisturbed \ Covering(active.path) ELSE undisturbed
    /\ UNCHANGED << disk, events >>

\* pathExists answers for one row below a skipped directory.
CheckExists(path) ==
    /\ path \in job.unchecked
    /\ LET table == IF path \in disk THEN rows ELSE DeleteDirectorySubtree(rows, { path })
       IN  PruneOrFinish(table, job.kids, job.skipped, job.unchecked \ { path })
    /\ UNCHANGED << disk, events, undisturbed >>

\* An error that is neither "not found" nor "not permitted" is rethrown; it
\* ends the loop and nothing catches it.
ListRejects ==
    /\ job.phase = "listing"
    /\ active.path \in MayThrow
    /\ EngineThrow
    /\ job' = Resting
    /\ undisturbed' = {}
    /\ UNCHANGED << repoVars, halted >>

-----------------------------------------------------------------------------
(* The world around the process *)

\* A restart: the constructor marks every pending row stopped.
Restart ==
    /\ MayCrash
    /\ Event
    /\ EngineLost
    /\ rows' = MarkStopped(rows, { path \in Path : rows[path] = "pending" })
    /\ job' = Resting
    /\ undisturbed' = {}
    /\ halted' = Path
    /\ disk' = disk

Vanish(path) ==
    /\ path \in disk
    /\ Event
    /\ disk' = disk \ LexicalSubtree(Path, path)
    /\ undisturbed' = undisturbed \ LexicalSubtree(Path, path)
    /\ UNCHANGED << engineVars, rows, job, halted >>

Reappear(path) ==
    /\ path \notin disk
    /\ path # Root => ParentPath(path) \in disk
    /\ Event
    /\ disk' = disk \cup { path }
    /\ undisturbed' = undisturbed \ Covering(path)
    /\ UNCHANGED << engineVars, rows, job, halted >>

Request ==
    \/ \E path \in ScanRoots : ScanFull(path) \/ ScanIncremental(path)
    \/ \E path \in StopRoots : StopScan(path)

Step == ListFails \/ ListSucceeds \/ \E path \in Path : CheckExists(path)

Next ==
    \/ Request
    \/ Step
    \/ ListRejects
    \/ Restart
    \/ \E path \in MayVanish : Vanish(path)
    \/ \E path \in MayReturn : Reappear(path)

Spec == Init /\ [][Next]_vars

\* The kernel answers every listing and stat, so a step that is in flight
\* goes on; nobody has to press a button, and nothing has to fail.
FairSpec == Spec /\ WF_vars(Step)

-----------------------------------------------------------------------------
(* Properties *)

TypeOK ==
    /\ stack \in Seq(EntryOf(Path))
    /\ active \in EntryOf(Path) \cup { Idle }
    /\ stoppedRoots \in SUBSET Path
    /\ rows \in [Path -> OwnOutcome \cup { "none" }]
    /\ disk \in SUBSET Path
    /\ job \in [phase : { "idle", "listing", "pruning" }, kids : SUBSET Path,
                skipped : SUBSET Path, unchecked : SUBSET Path]
    /\ events \in 0..MaxEvents
    /\ halted \in SUBSET Path
    /\ undisturbed \in SUBSET Path

\* What the engine still holds a reference to: the queue, the entry in
\* flight, and the children its step has made pending but not yet returned.
Owned(path) ==
    \/ path \in QueuedPaths
    \/ path = active.path
    \/ path \in job.kids

\* No row is left 'pending' that nobody will visit: such a directory, and all
\* those above it, would show "scanning" until the next restart. A path whose
\* listing rejects is the one exception (scan-engine.ts, `finally`).
PendingIsOwned ==
    \A path \in Path : rows[path] = "pending" => Owned(path) \/ path \in MayThrow

\* When the loop ends, everything asked for has been settled: nothing waits
\* on the stack and no row is pending (runLoop drains the stack).
IdleMeansSettled ==
    ~EngineRunning => /\ stack = << >>
                      /\ \A path \in Path : rows[path] # "pending"

\* Of what was stopped and not asked for again, nothing waits on the stack but
\* a directory on which Stop itself was pressed, put back by the listing of its
\* parent that was in flight; and what is being visited of it goes no further,
\* its children are cut (requestStop, and runLoop's test of the processed path).
QueueRespectsStop ==
    /\ QueuedPaths \cap halted \subseteq stoppedRoots
    /\ active.path \in halted => StoppedInFlight

\* What the comment in requestStop promises: a Stop stops the whole subtree, so
\* nothing of it is queued until it is asked for again.
StopIsWhole == QueuedPaths \cap halted = {}

\* A directory shown as completed, and not as incomplete, has had every
\* directory that exists below it listed: its totals count them all
\* (deriveDirectoryView, over what processDirectory and the done-set leave).
CompleteMeansListed ==
    \A path \in Path : Complete(path) =>
        \A below \in disk : IsWithinSubtree(below, path) => rows[below] = "done"

\* A scan that nothing disturbed ends with its directory completed, whatever
\* earlier scans, stops or restarts left in the table (startScan: the
\* incremental mode takes up all that is outstanding).
UndisturbedScanCompletes ==
    ~EngineRunning => \A root \in undisturbed : Complete(root)

\* Nothing is left waiting by an idle engine, and what is shown as completed is.
SettledIsWhole == IdleMeansSettled /\ CompleteMeansListed

\* Whatever failed or was rejected before (processDirectory, runLoop): no pending
\* row without a visitor, and a scan that nothing disturbs completes.
FaultsLeaveNoGap == PendingIsOwned /\ UndisturbedScanCompletes

\* A listing that was in flight when its directory was stopped does not turn
\* the row into a result (the guards of recordDone and recordError).
StoppedIsNotOverwritten ==
    [][\A path \in Path : rows[path] = "stopped" =>
            rows'[path] \in { "stopped", "pending", "none" }]_vars

\* An incremental scan skips a directory only while its row says done: what
\* is outstanding is read when the scan runs.
SkipsOnlyDone ==
    [][ListSucceeds => \A dir \in SkippedDirs : rows[dir] = "done"]_vars

\* The same directory is not queued twice, nor queued while in flight.
NoDuplicateProcedure ==
    /\ \A i, j \in DOMAIN stack : stack[i].path = stack[j].path => i = j
    /\ active.path \notin QueuedPaths

\* Every scan asked for settles: a pending row does not stay pending.
PendingSettles ==
    \A path \in Path : rows[path] = "pending" ~> rows[path] # "pending"
=============================================================================
