---------------------------- MODULE ComparisonPage ----------------------------
(***************************************************************************)
(* The comparison page (directory-comparison-explorer.tsx): two panes, the *)
(* status of the pair they show (use-comparison-status.ts), and what is    *)
(* done to the entries: copy, move, delete, rename, ignore, compare, stop. *)
(* A request is two steps, the server's answer and its arrival; an entry   *)
(* operation of the server is two as well, its check and its act.          *)
(*                                                                         *)
(* A comparison is here no more than the pair that runs and, at its end,   *)
(* what it records of every path (Snapshot); ComparisonPipeline and        *)
(* ComparePass say how. A name tells whether it is a folder's.             *)
(***************************************************************************)
EXTENDS PaneFetch, ScanPaths, TLC

CONSTANTS
    Names, Folders,  \* the names, and those that directories have
    Trees,           \* the directory trees to begin with: path -> content
    Starts,          \* the pairs of paths the page may open with
    Syncs,           \* whether Move sync may be on to begin with
    Outcomes,        \* how a rename or copy of the file system may end: "ok", "unreadable"
    CrossDevice,     \* the two sides and the trash are different mounts
    MaxActs,         \* how often the user acts
    Patient,         \* the user acts only when no answer is awaited
    Apart            \* entries are operated on only if no pane shows the other's

Sides == { "left", "right" }
Other(side) == IF side = "left" THEN "right" ELSE "left"
OnlyOn == [left |-> "only_left", right |-> "only_right"]
Child(path, name) == Append(path, name)
Folder == "folder"
NoPair == [left |-> << 0 >>, right |-> << 0 >>]
NoStatuses == [name \in {} |-> "none"]

VARIABLES
    disk, trash,        \* path -> content; the subtrees moved to the trash
    rows, ignoredPaths, \* what comparisons recorded, and the ignored marks
    running,            \* the comparisons asked for, the first one active
    panePath, moveSync, \* kept in the browser's storage as well
    view, requests,     \* the status shown, and the ones on their way
    panes, listings,    \* the panes, and the listings on their way to them
    operations,         \* what the page has asked the server to do
    acts

server == << disk, trash, rows, ignoredPaths, running >>
shown == << panePath, moveSync, view, requests, panes, listings >>
vars == << server, shown, operations, acts >>

-----------------------------------------------------------------------------
(* The server: what a path holds, and what it tells of a pair. *)

EntriesOf(path) == { p[Len(p)] : p \in { q \in DOMAIN disk \ { Root } : ParentPath(q) = path } }

Rest(path, above) == SubSeq(path, Len(above) + 1, Len(path))
Subtree(path) == { p \in DOMAIN disk : IsWithinSubtree(p, path) }
Snapshot(path) == { << Rest(p, path), disk[p] >> : p \in Subtree(path) }

\* passActive: the path a comparison is at is taken to be the pair it began with.
IsAtWork(pair) ==
    running # << >> /\ \E side \in Sides : IsWithinSubtree(Head(running)[side], pair[side])

EntryStatus(pair, name) ==
    LET path == [side \in Sides |-> Child(pair[side], name)]
        there == { side \in Sides : path[side] \in DOMAIN disk }
        hasRow == { side \in there : path[side] \in DOMAIN rows }
        isEmpty == \E side \in hasRow : \A entry \in rows[path[side]] : entry[2] = Folder
    IN  CASE \E side \in there : path[side] \in ignoredPaths -> "ignored"
          [] Cardinality(there) = 1 -> IF name \in Folders /\ isEmpty THEN "matching_empty"
                                       ELSE OnlyOn[CHOOSE side \in there : TRUE]
          [] OTHER -> IF hasRow # Sides THEN "not_compared"
                      ELSE IF name \in Folders /\ IsAtWork(path) THEN "scanning"
                      ELSE IF rows[path.left] = rows[path.right] THEN "matching" ELSE "differs"

OwnStatus(pair) ==
    IF pair.left \in ignoredPaths \/ pair.right \in ignoredPaths THEN "ignored"
    ELSE IF IsAtWork(pair) THEN "scanning"
    ELSE IF { pair.left, pair.right } \subseteq DOMAIN rows
         THEN IF rows[pair.left] = rows[pair.right] THEN "matching" ELSE "differs"
         ELSE "none"

GetComparisonView(pair) ==
    [pair |-> pair,
     active |-> running # << >>,
     activePair |-> IF running = << >> THEN NoPair ELSE Head(running),
     own |-> OwnStatus(pair),
     compareDisabled |-> \E side \in Sides : Lineage(pair[side]) \cap ignoredPaths # {},
     entries |-> [name \in EntriesOf(pair.left) \cup EntriesOf(pair.right) |->
                    EntryStatus(pair, name)]]

\* A path that is no directory, or none any more, is answered with 404.
ListingOf(fetch) ==
    LET path == fetch.query.path
    IN  IF path \notin DOMAIN disk \/ (path \in DOMAIN disk /\ disk[path] # Folder)
        THEN [status |-> "not_found"]
        ELSE ListDirectory(EntriesOf(path), fetch.query, fetch.offset)

-----------------------------------------------------------------------------
(* The page. *)

NoView == [pair |-> NoPair, active |-> FALSE, activePair |-> NoPair, own |-> "none",
           compareDisabled |-> FALSE, entries |-> NoStatuses]

\* leftStatusByName and rightStatusByName: by name alone, whatever pair the view is of.
StatusByName(side, name) ==
    IF name \notin DOMAIN view.entries THEN "none"
    ELSE IF view.entries[name] = OnlyOn[Other(side)] THEN "none" ELSE view.entries[name]

Rows(side) == { panes[side].entries[i] : i \in DOMAIN panes[side].entries }
NoneHidden == [name \in Names |-> "none"]

Fetched(pane, path) ==
    FetchFromOffset(pane, [path |-> path, sortBy |-> "name", sortDir |-> "asc"], 0, TRUE)

Request(kind, pair, operation) ==
    [kind |-> kind, pair |-> pair, operation |-> operation, answered |-> FALSE, view |-> NoView]

Nothing == [kind |-> "nothing"]

\* What the clean-up of the two effects ignores when the pair changes.
IsDropped(request) == request.kind \in { "effect", "poll" }

\* A render with other paths: panes whose path changed and the status are fetched anew.
ShowPaths(paths) ==
    /\ panePath' = paths
    /\ panes' = [side \in Sides |->
                    IF paths[side] = panePath[side] THEN panes[side]
                    ELSE Fetched(panes[side], paths[side])]
    /\ requests' = IF paths = panePath THEN requests
                   ELSE { r \in requests : ~IsDropped(r) }
                        \cup { Request("effect", paths, Nothing) }

Calm ==
    /\ operations = {} /\ \A request \in requests : request.kind = "poll"
    /\ \A side \in Sides : panes[side].fetches = {}

UserActs == /\ acts < MaxActs /\ acts' = acts + 1
            /\ Patient => Calm

\* The panes apart, an operation in one does not show in the other.
AreApart == \A side \in Sides : ~IsWithinSubtree(panePath[side], panePath[Other(side)])

Asked(operation) ==
    /\ UserActs
    /\ (Apart /\ operation.kind \in { "copy", "delete", "rename", "move" }) => AreApart
    /\ operations' = operations \cup { operation }
    /\ UNCHANGED << server, shown >>

Operation(kind, side, source, destination) ==
    [kind |-> kind, side |-> side, source |-> source, destination |-> destination,
     pair |-> panePath, stage |-> "sent", heard |-> TRUE, targets |-> << >>, ignored |-> FALSE]

IsBusyWith(kind, side) == \E op \in operations : op.heard /\ op.kind = kind /\ op.side = side

-----------------------------------------------------------------------------
(* Where the panes are. *)

Both(side, path, other) ==
    [s \in Sides |-> IF s = side THEN path ELSE IF moveSync THEN other ELSE panePath[s]]

Upwards(path, count) == SubSeq(path, 1, IF count < Len(path) THEN Len(path) - count ELSE 0)

NavigateInto(side, name) ==
    /\ UserActs
    /\ name \in Rows(side) \cap Folders
    /\ ShowPaths(Both(side, Child(panePath[side], name), Child(panePath[Other(side)], name)))
    /\ UNCHANGED << server, moveSync, view, listings, operations >>

\* A segment of the breadcrumb; the other pane goes up as many levels.
NavigateToPath(side, target) ==
    /\ UserActs
    /\ target \in Lineage(panePath[side]) \ { panePath[side] }
    /\ ShowPaths(Both(side, target,
                      Upwards(panePath[Other(side)], Len(panePath[side]) - Len(target))))
    /\ UNCHANGED << server, moveSync, view, listings, operations >>

NavigateUp(side) ==
    /\ UserActs
    /\ panePath[side] # Root
    /\ ShowPaths(Both(side, ParentPath(panePath[side]), Upwards(panePath[Other(side)], 1)))
    /\ UNCHANGED << server, moveSync, view, listings, operations >>

SwitchMoveSync ==
    /\ UserActs
    /\ moveSync' = ~moveSync
    /\ UNCHANGED << server, panePath, view, requests, panes, listings, operations >>

\* The page opens at "/" and, its storage read, goes at once to where it was: what
\* it asked for "/" is overtaken (OneLiveFetch of ComparisonPane) and left out here.
Mounted(path) == Fetched(NewPane, path)

Reload ==
    /\ UserActs
    /\ view' = NoView
    /\ requests' = { Request("effect", panePath, Nothing) }
    /\ panes' = [side \in Sides |-> Mounted(panePath[side])]
    /\ listings' = {}
    /\ operations' = { [op EXCEPT !.heard = FALSE] :
                        op \in { o \in operations : o.stage \in { "sent", "checked", "copied" } } }
    /\ UNCHANGED << server, panePath, moveSync >>

-----------------------------------------------------------------------------
(* What the user asks for; every path is taken from the page as it is now. *)

\* Copy and Delete are offered for an entry that is on this side only.
IsOnlyHere(side, name) == StatusByName(side, name) = OnlyOn[side]

CopyToOtherSide(side, name) ==
    /\ name \in Rows(side) /\ IsOnlyHere(side, name) /\ ~IsBusyWith("copy", side)
    /\ Asked(Operation("copy", side, Child(panePath[side], name),
                       Child(panePath[Other(side)], name)))

DeleteFromThisSide(side, name) ==
    /\ name \in Rows(side) /\ IsOnlyHere(side, name) /\ ~IsBusyWith("delete", side)
    /\ Asked(Operation("delete", side, Child(panePath[side], name), << >>))

\* A file is dropped on a file of the other pane.
AcceptsDrop(side, droppedOn, dragged) ==
    /\ droppedOn \in Rows(side) \ Folders /\ dragged \in Rows(Other(side)) \ Folders
    /\ dragged # droppedOn

RenameViaDrop(side, droppedOn, dragged) ==
    /\ AcceptsDrop(side, droppedOn, dragged)
    /\ Asked(Operation("rename", side, Child(panePath[side], droppedOn),
                       Child(panePath[side], dragged)))

\* Or on a segment of either breadcrumb.
Segments == Lineage(panePath.left) \cup Lineage(panePath.right)

MoveViaBreadcrumbDrop(side, name, target) ==
    /\ name \in Rows(side) \ Folders /\ target \in Segments
    /\ target # panePath[side]
    /\ Asked(Operation("move", side, Child(panePath[side], name), Child(target, name)))

\* With Move sync on, the other side's path is marked after this side's.
Toggle(side, pathOf, status) ==
    /\ status # "none"
    /\ Asked([Operation("ignore", side, << >>, << >>) EXCEPT
                !.targets = IF moveSync THEN << pathOf[side], pathOf[Other(side)] >>
                            ELSE << pathOf[side] >>,
                !.ignored = status # "ignored"])

ToggleIgnore(side, name) ==
    /\ name \in Rows(side)
    /\ Toggle(side, [s \in Sides |-> Child(panePath[s], name)], StatusByName(side, name))

ToggleOwnIgnore(side) == Toggle(side, panePath, view.own)

\* (An answer to the interval from before could still come after Compare's own.)
Compare ==
    /\ Patient => ~view.active
    /\ ~view.compareDisabled /\ ~IsBusyWith("compare", "left")
    /\ Asked(Operation("compare", "left", << >>, << >>))

\* Stop is aimed at the pair the view calls active; `pair` stays the one shown.
Stop ==
    /\ view.active
    /\ Asked([Operation("stop", "left", << >>, << >>) EXCEPT
                !.targets = << view.activePair >>])

-----------------------------------------------------------------------------
(* The server works on it: check, then act, each on the disk as it then is. *)

To(op, stage) == (operations \ { op }) \cup { [op EXCEPT !.stage = stage] }

\* Mutant of IsRefused: the destination is not looked at.
IsRefusedForSource(op) == op.source \notin DOMAIN disk

IsRefused(op) ==
    \/ op.source \notin DOMAIN disk
    \/ op.kind # "delete" /\ op.destination \in DOMAIN disk

ServerChecks(op) ==
    /\ op.kind \in { "copy", "delete", "rename", "move" } /\ op.stage = "sent"
    /\ operations' = To(op, IF IsRefused(op) THEN "failed" ELSE "checked")
    /\ UNCHANGED << server, shown, acts >>

Removed(path) == [p \in DOMAIN disk \ Subtree(path) |-> disk[p]]

\* A copy makes the directories above it; what is at the destination is replaced.
Copied(source, destination) ==
    LET arrived == { destination \o Rest(p, source) : p \in Subtree(source) }
        above == Lineage(destination) \ { destination }
    IN  [p \in arrived \cup above \cup DOMAIN disk |->
            IF p \in arrived THEN disk[source \o Rest(p, destination)]
            ELSE IF p \in above THEN Folder ELSE disk[p]]

\* cp (force: false) and rename fail for reasons of their own.
MustFail(op) ==
    \/ op.source \notin DOMAIN disk
    \/ op.kind # "delete" /\ IsWithinSubtree(op.destination, op.source)
    \/ op.kind # "delete" /\ \E above \in Lineage(op.destination) \ { op.destination } :
            IF above \in DOMAIN disk THEN disk[above] # Folder ELSE op.kind # "copy"
    \/ op.kind = "copy" /\ op.destination \in DOMAIN disk

\* rename, or cp where rename cannot: the original stays until it is removed.
ServerActs(op, outcome) ==
    /\ op.stage = "checked"
    /\ IF outcome = "unreadable" \/ MustFail(op)
       THEN operations' = To(op, "failed") /\ UNCHANGED << disk, trash >>
       ELSE /\ trash' = IF op.kind = "delete" THEN trash \cup { Snapshot(op.source) } ELSE trash
            /\ LET there == IF op.kind = "delete" THEN disk ELSE Copied(op.source, op.destination)
                   stays == op.kind = "copy" \/ (CrossDevice /\ op.kind # "rename")
               IN  disk' = IF stays THEN there
                           ELSE [p \in DOMAIN there \ Subtree(op.source) |-> there[p]]
            /\ operations' = To(op, IF CrossDevice /\ op.kind \in { "move", "delete" }
                                    THEN "copied" ELSE "done")
    /\ UNCHANGED << rows, ignoredPaths, running, shown, acts >>

ServerRemoves(op) ==
    /\ op.stage = "copied"
    /\ disk' = Removed(op.source)
    /\ operations' = To(op, "done")
    /\ UNCHANGED << trash, rows, ignoredPaths, running, shown, acts >>

ServerMarks(op) ==
    /\ op.kind = "ignore" /\ op.stage = "sent"
    /\ ignoredPaths' = IF op.ignored THEN ignoredPaths \cup { Head(op.targets) }
                       ELSE ignoredPaths \ { Head(op.targets) }
    /\ operations' = IF Len(op.targets) = 1 THEN To(op, "done")
                     ELSE (operations \ { op }) \cup { [op EXCEPT !.targets = Tail(@)] }
    /\ UNCHANGED << disk, trash, rows, running, shown, acts >>

ServerCompares(op) ==
    /\ op.kind = "compare" /\ op.stage = "sent"
    /\ running' = Append(running, op.pair)
    /\ operations' = To(op, "done")
    /\ UNCHANGED << disk, trash, rows, ignoredPaths, shown, acts >>

ServerStops(op) ==
    /\ op.kind = "stop" /\ op.stage = "sent"
    /\ LET pair == Head(op.targets)
           others == SelectSeq(running, LAMBDA other : other # pair)
       IN  running' = IF \E i \in DOMAIN running : running[i] = pair THEN others ELSE running
    /\ operations' = To(op, "done")
    /\ UNCHANGED << disk, trash, rows, ignoredPaths, shown, acts >>

ComparisonEnds ==
    /\ running # << >>
    /\ rows' = [p \in Subtree(Head(running).left) \cup Subtree(Head(running).right) |->
                    Snapshot(p)] @@ rows
    /\ running' = Tail(running)
    /\ UNCHANGED << disk, trash, ignoredPaths, shown, operations, acts >>

\* The panes a successful operation has changed. A move tells its target by its path.
\* Mutant of Refreshes: the side the user clicked on, whatever was asked.
RefreshesClicked(op) ==
    IF op.kind \in { "copy", "delete", "rename", "move" } THEN { op.side } ELSE {}

Refreshes(op) ==
    CASE op.kind = "copy" -> { Other(op.side) }
      [] op.kind \in { "delete", "rename" } -> { op.side }
      [] op.kind = "move" -> { op.side } \cup
            { side \in Sides : op.pair[side] = ParentPath(op.destination) }
      [] OTHER -> {}

\* Failed: an alert, and nothing is fetched. Done: the panes as they now are are
\* listed again, and the status of the pair the operation began with is asked for.
PageHears(op) ==
    /\ op.stage \in { "done", "failed" }
    /\ IF op.stage = "failed" \/ ~op.heard
       THEN operations' = operations \ { op } /\ UNCHANGED << panes, requests >>
       ELSE /\ operations' = To(op, "refetching")
            /\ requests' = requests \cup
                    { Request("call", op.pair, [op EXCEPT !.stage = "refetching"]) }
            /\ panes' = [side \in Sides |->
                            IF side \in Refreshes(op) THEN Fetched(panes[side], panePath[side])
                            ELSE panes[side]]
    /\ UNCHANGED << server, panePath, moveSync, view, listings, acts >>

-----------------------------------------------------------------------------
(* Status and listings. *)

\* The interval of an active view; at most one of its requests is under way.
Poll ==
    /\ view.active /\ \A request \in requests : request.kind # "poll"
    /\ requests' = requests \cup { Request("poll", panePath, Nothing) }
    /\ UNCHANGED << server, panePath, moveSync, view, panes, listings, operations, acts >>

ServerReads(request) ==
    /\ ~request.answered
    /\ requests' = (requests \ { request }) \cup
            { [request EXCEPT !.answered = TRUE, !.view = GetComparisonView(request.pair)] }
    /\ UNCHANGED << server, panePath, moveSync, view, panes, listings, operations, acts >>

\* Mutant of Applied: an answer is shown only while nothing is active.
AppliedOnce(request) == IF view.active THEN view ELSE request.view

Applied(request) == request.view

\* applyView. The interval goes with the activity.
StatusArrives(request) ==
    /\ request.answered
    /\ view' = Applied(request)
    /\ requests' = { r \in requests \ { request } : r.kind = "poll" => view'.active }
    /\ operations' = operations \ { request.operation }
    /\ UNCHANGED << server, panePath, moveSync, panes, listings, acts >>

ServerLists(side, fetch) ==
    /\ \A listing \in listings : << listing.side, listing.fetch >> # << side, fetch >>
    /\ listings' = listings \cup { [side |-> side, fetch |-> fetch, answer |-> ListingOf(fetch)] }
    /\ UNCHANGED << server, panePath, moveSync, view, requests, panes, operations, acts >>

ListingArrives(listing) ==
    /\ listings' = listings \ { listing }
    /\ panes' = [panes EXCEPT ![listing.side] =
                    Answered(@, listing.fetch, listing.answer, NoneHidden, {})]
    /\ UNCHANGED << server, panePath, moveSync, view, requests, operations, acts >>

\* The page opens, perhaps onto a comparison that is running.
Init ==
    /\ disk \in Trees /\ trash = {} /\ rows = NoStatuses /\ ignoredPaths = {}
    /\ panePath \in Starts /\ moveSync \in Syncs /\ running \in { << >>, << panePath >> }
    /\ view = NoView /\ requests = { Request("effect", panePath, Nothing) }
    /\ panes = [side \in Sides |-> Mounted(panePath[side])] /\ listings = {}
    /\ operations = {} /\ acts = 0

ServerWorks ==
    \E op \in operations :
        \/ ServerChecks(op)
        \/ \E outcome \in Outcomes : ServerActs(op, outcome)
        \/ ServerRemoves(op)
        \/ ServerMarks(op)
        \/ ServerCompares(op)
        \/ ServerStops(op)
        \/ PageHears(op)

StatusComes == \E request \in requests : ServerReads(request) \/ StatusArrives(request)

RowsCome ==
    \/ \E side \in Sides : \E fetch \in panes[side].fetches : ServerLists(side, fetch)
    \/ \E listing \in listings : ListingArrives(listing)

Next ==
    \/ ServerWorks \/ ComparisonEnds \/ StatusComes \/ RowsCome
    \/ Poll
    \/ SwitchMoveSync \/ Reload \/ Compare \/ Stop
    \/ \E side \in Sides :
        \/ ToggleOwnIgnore(side) \/ NavigateUp(side)
        \/ \E target \in Lineage(panePath[side]) : NavigateToPath(side, target)
        \/ \E name \in Names :
            \/ NavigateInto(side, name)
            \/ CopyToOtherSide(side, name)
            \/ DeleteFromThisSide(side, name)
            \/ ToggleIgnore(side, name)
            \/ \E dragged \in Names : RenameViaDrop(side, name, dragged)
            \/ \E target \in Segments : MoveViaBreadcrumbDrop(side, name, target)

\* The interval goes on, requests are answered, and a comparison comes to its end.
Spec ==
    /\ Init /\ [][Next]_vars
    /\ WF_vars(Poll) /\ WF_vars(StatusComes) /\ WF_vars(ServerWorks) /\ WF_vars(RowsCome)
    /\ WF_vars(ComparisonEnds)

-----------------------------------------------------------------------------

\* All answers in, and nothing more to come unless the user acts.
IsIdle == Calm /\ ~view.active

\* A page at rest shows what is there: the statuses are those of the pair shown,
\* and each pane's rows are its directory's entries; after any operation, on either
\* side, whatever poll or comparison it met on the way.
ShownIsCurrent ==
    IsIdle =>
        /\ view = GetComparisonView(panePath)
        /\ \A side \in Sides :
            IF panes[side].notFound THEN panePath[side] \notin DOMAIN disk
            ELSE Rows(side) = EntriesOf(panePath[side])

\* What an entry is deleted from has no counterpart of it on the other side
\* ("must only ever be offered for an entry with no counterpart", delete-entry.ts).
DeleteIsOneSided ==
    [][ \A op \in operations :
            op.kind = "delete" /\ op.stage = "checked" /\ trash' # trash =>
                Child(op.pair[Other(op.side)], op.source[Len(op.source)]) \notin DOMAIN disk ]_vars

Contents(d, t) == { d[p] : p \in DOMAIN d } \cup { entry[2] : entry \in UNION t }

KeepsContents == Contents(disk, trash) \subseteq Contents(disk', trash')

\* Whatever the user does to entries, no content goes: it is on the disk or in the trash.
NothingIsLost == [][KeepsContents]_vars

\* A comparison shown as active is, once over, no longer shown so, wherever the
\* panes have gone in between.
ActivityEnds == view.active ~> ~view.active
=============================================================================
