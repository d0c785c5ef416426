-------------------------- MODULE ComparisonPipeline --------------------------
(***************************************************************************)
(* The control of the directory comparison: the queue that serves one pair *)
(* of directories at a time, Pass 1 (a structural listing of both sides on *)
(* an engine of its own), the poll that waits for it, Pass 2, and Stop.    *)
(*                                                                         *)
(* Pass 2 is opaque here: it starts, it may end. Checksums, and with them  *)
(* the mode of a request and the abort signal, are left out; so are ignored*)
(* directories, which for this module are directories with no children.    *)
(***************************************************************************)
EXTENDS ScanEngine, ScanRows

CONSTANTS
    ComparePairs,  \* the pairs on which Compare is pressed
    StopPairs,     \* the pairs the panes show when Stop is pressed
    MayThrow,      \* directories whose listing can reject (EIO, EMFILE, ...)
    MayVanish,     \* directories that can be deleted on disk
    MayCrash,      \* whether the process can be restarted
    MaxEvents      \* bound on the requests, disk changes and restarts

Pair(left, right) == [left |-> left, right |-> right]
NoPair == Pair(Idle.path, Idle.path)

ASSUME PathAssumption ==
    /\ Path \subseteq Seq(STRING) /\ IsFiniteSet(Path)
    /\ \A path \in Path : Lineage(path) \subseteq Path
    /\ Idle.path \notin Path
    /\ ComparePairs \cup StopPairs \subseteq [left : Path, right : Path]
    /\ MayCrash \in BOOLEAN
    /\ MaxEvents \in Nat

VARIABLES
    rows,     \* directory_comparison_nodes: the outcome of each path
    disk,     \* the directories that exist
    queue,    \* ComparisonQueue.queue
    served,   \* the pair whose pipeline runs, or NoPair (running = false)
    phase,    \* "off", "listing" (in the settle poll) or "comparing"
    events,   \* how many of the MaxEvents have happened
    quiet,        \* history: the engine was idle, with no Stop on its
                  \* mind, when the served pair began
    undisturbed   \* history: no Stop, deletion or error since then

repoVars == << rows, disk, events >>
queueVars == << queue, served, phase >>
historyVars == << quiet, undisturbed >>
vars == << engineVars, repoVars, queueVars, historyVars >>

RootsOf(pair) == { pair.left, pair.right }

Below(pair, path) == \E root \in RootsOf(pair) : IsWithinSubtree(path, root)

RowsOf(table, pair) == UNION { GetSubtree(table, root) : root \in RootsOf(pair) }

Pending(table, pair) == { path \in RowsOf(table, pair) : table[path] = "pending" }

-----------------------------------------------------------------------------
(* The queue *)

Init ==
    /\ EngineInit
    /\ rows = [path \in Path |-> "none"]
    /\ disk = Path
    /\ queue = << >>
    /\ served = NoPair
    /\ phase = "off"
    /\ events = 0
    /\ quiet = TRUE
    /\ undisturbed = TRUE

Event == /\ events < MaxEvents
         /\ events' = events + 1

\* runOne up to its first await: both roots become pending and are queued,
\* left first; the same directory on both sides is queued once.
Begin(pair) ==
    /\ served' = pair
    /\ phase' = "listing"
    /\ rows' = UpsertPending(rows, RootsOf(pair))
    /\ EngineEnqueueAll(IF pair.left = pair.right
                          THEN << Entry(pair.left, {}) >>
                          ELSE << Entry(pair.left, {}), Entry(pair.right, {}) >>)
    /\ quiet' = (~EngineRunning /\ stack = << >> /\ stoppedRoots = {})
    /\ undisturbed' = TRUE

\* Mutant of Compare: a request does not wait for the one before it.
CompareAtOnce(pair) ==
    /\ Event
    /\ Begin(pair)
    /\ UNCHANGED << disk, queue >>

Compare(pair) ==
    /\ Event
    /\ disk' = disk
    /\ \/ /\ phase = "off"
          /\ Begin(pair)
          /\ queue' = queue
       \/ /\ phase # "off"
          /\ queue' = Append(queue, pair)
          /\ UNCHANGED << engineVars, rows, served, phase, historyVars >>

\* Mutant of FullyListed: only the left side is waited for.
LeftListed == Pending(rows, Pair(served.left, served.left)) = {}

\* Mutant of FullyListed: a row that failed or was stopped is waited for.
AllDone == \A path \in RowsOf(rows, served) : rows[path] = "done"

\* waitUntilFullyListed's condition.
FullyListed == Pending(rows, served) = {}

\* A turn of the poll that finds nothing pending: Pass 2 starts.
SettlePoll ==
    /\ phase = "listing"
    /\ FullyListed
    /\ phase' = "comparing"
    /\ UNCHANGED << engineVars, repoVars, queue, served, historyVars >>

\* Mutant of Pass2Ends: activePair is not reset.
PairIsKept ==
    /\ phase = "comparing"
    /\ phase' = "off"
    /\ UNCHANGED << engineVars, repoVars, queue, served, historyVars >>

\* Pass 2 returns; the loop takes up the next request in the same stretch.
Pass2Ends ==
    /\ phase = "comparing"
    /\ \/ /\ queue = << >>
          /\ served' = NoPair
          /\ phase' = "off"
          /\ UNCHANGED << engineVars, rows, queue, historyVars >>
       \/ /\ queue # << >>
          /\ Begin(Head(queue))
          /\ queue' = Tail(queue)
    /\ UNCHANGED << disk, events >>

\* Stop is shown while the engine or Pass 2 is at work under either pane; the
\* panes may have moved above the pair that is being compared.
StopComparison(pair) ==
    /\ \E path \in Path : rows[path] # "none" /\ Below(pair, path)
    /\ Event
    /\ EngineRequestStops(RootsOf(pair))
    /\ rows' = MarkStopped(rows, Pending(rows, pair))
    /\ undisturbed' = FALSE
    /\ UNCHANGED << disk, queueVars, quiet >>

-----------------------------------------------------------------------------
(* Pass 1: listEntries *)

ChildDirs(path) == { child \in disk : child # Root /\ ParentPath(child) = path }

ListFails ==
    /\ EngineRunning
    /\ active.path \notin disk
    /\ EngineReturn({})
    /\ rows' = RecordOwnResult(rows, active.path, "error")
    /\ undisturbed' = FALSE
    /\ UNCHANGED << disk, events, queueVars, quiet >>

\* The listing is in: forget the children that have gone, make a pending row
\* for each that is there, record the outcome, and let the loop go on.
ListSucceeds ==
    /\ EngineRunning
    /\ active.path \in disk
    /\ LET kids == ChildDirs(active.path)
           gone == GetDirectChildren(rows, active.path) \ kids
           listed == UpsertPending(DeleteDirectorySubtree(rows, gone), kids)
           recorded == RecordOwnResult(listed, active.path, "done")
       IN  /\ EngineReturn(kids)
           /\ rows' = MarkStopped(recorded, CutChildren(kids))
    /\ UNCHANGED << disk, events, queueVars, historyVars >>

ListRejects ==
    /\ active.path \in MayThrow
    /\ EngineThrow
    /\ undisturbed' = FALSE
    /\ UNCHANGED << repoVars, queueVars, quiet >>

-----------------------------------------------------------------------------
(* The world around the process *)

\* A restart: queue, engine and Pass 2 are gone, pending rows are stopped.
Restart ==
    /\ MayCrash
    /\ Event
    /\ EngineLost
    /\ rows' = MarkStopped(rows, { path \in Path : rows[path] = "pending" })
    /\ queue' = << >>
    /\ served' = NoPair
    /\ phase' = "off"
    /\ UNCHANGED << disk, historyVars >>

Vanish(path) ==
    /\ path \in disk
    /\ Event
    /\ disk' = disk \ LexicalSubtree(Path, path)
    /\ undisturbed' = FALSE
    /\ UNCHANGED << engineVars, rows, queueVars, quiet >>

Pass1Step == ListFails \/ ListSucceeds

Next ==
    \/ \E pair \in ComparePairs : Compare(pair)
    \/ \E pair \in StopPairs : StopComparison(pair)
    \/ Pass1Step
    \/ SettlePoll
    \/ Pass2Ends
    \/ ListRejects
    \/ Restart
    \/ \E path \in MayVanish : Vanish(path)

Spec == Init /\ [][Next]_vars

\* Listings are answered, the poll's timer fires (with nothing pending, and
\* nobody making new rows pending, it stays so) and Pass 2 comes to its end:
\* it visits each pair of files once and gives up on those it cannot read.
FairSpec ==
    /\ Spec
    /\ WF_vars(Pass1Step)
    /\ WF_vars(SettlePoll)
    /\ WF_vars(Pass2Ends)

-----------------------------------------------------------------------------
(* Properties *)

TypeOK ==
    /\ stack \in Seq(EntryOf(Path))
    /\ active \in EntryOf(Path) \cup { Idle }
    /\ stoppedRoots \in SUBSET Path
    /\ rows \in [Path -> OwnOutcome \cup { "none" }]
    /\ disk \in SUBSET Path
    /\ queue \in Seq(ComparePairs)
    /\ served \in ComparePairs \cup { NoPair }
    /\ phase \in { "off", "listing", "comparing" }
    /\ (served = NoPair) <=> (phase = "off")
    /\ phase = "off" => queue = << >>
    /\ events \in 0..MaxEvents
    /\ quiet \in BOOLEAN /\ undisturbed \in BOOLEAN

\* The settle poll waits only for rows that the engine will still visit, so
\* it cannot wait for ever (waitUntilFullyListed has no other way out).
PollIsAnswered ==
    phase = "listing" =>
        \A path \in Pending(rows, served) :
            EngineRunning /\ (path \in QueuedPaths \/ path = active.path)

\* Pass 1 of one pair never mixes with another's: while a pair is listed, all
\* that is queued lies below its roots (ComparisonQueue: requests "wait their
\* turn rather than interleaving on the shared structural scheduler").
QueueBelongsToServed ==
    phase # "off" => \A path \in QueuedPaths : Below(served, path)

\* Neither side lies strictly inside the other.
SidesApart(pair) ==
    \/ pair.left = pair.right
    \/ /\ ~IsWithinSubtree(pair.left, pair.right)
       /\ ~IsWithinSubtree(pair.right, pair.left)

\* Nothing has come between the served pair and its Pass 1.
Undisturbed == undisturbed /\ quiet /\ SidesApart(served)

\* Pass 2 of an undisturbed comparison sees every directory that exists on
\* either side, listed.
Pass2SeesWholeTree ==
    phase = "comparing" /\ Undisturbed =>
        \A path \in disk : Below(served, path) => rows[path] = "done"

\* Of the queue and of the rows, a comparison that began on an engine at rest
\* has those of its pair, and has all.
OnePairAtATime == (quiet => QueueBelongsToServed) /\ Pass2SeesWholeTree

\* The same, wherever the engine was when the comparison began: a Stop that
\* came before the comparison says nothing about it.
LaterCompareIsWhole ==
    phase = "comparing" /\ undisturbed =>
        \A path \in disk : Below(served, path) => rows[path] = "done"

\* What Pass 2 can read: the rows it reaches from its two roots.
Readable(table, pair) == [path \in RowsOf(table, pair) |-> table[path]]

\* While Pass 2 of an undisturbed comparison runs, no row under its roots
\* changes, appears or goes: it reads each node once and trusts it until the
\* end of its subtree.
Pass2ReadsStableRows ==
    [][phase = "comparing" /\ phase' = "comparing" /\ Undisturbed =>
          Readable(rows', served) = Readable(rows, served)]_vars

\* Pass 2 does not start on a comparison that was stopped during Pass 1.
StoppedDoesNotGoOn ==
    [][phase = "listing" /\ phase' = "comparing" =>
          \A path \in RowsOf(rows, served) : rows[path] # "stopped"]_vars

Service == INSTANCE SerialService
             WITH Request <- ComparePairs, Nobody <- NoPair, waiting <- queue

\* One comparison at a time, in the order of the requests, none dropped.
ServesInOrder == Service!Spec

\* And each of them gets its turn: none is served for ever.
ServesAll == Service!FairSpec

\* No request is left waiting, by the poll of the one before it or by the queue.
RequestsAreServed == []PollIsAnswered /\ ServesAll
=============================================================================
