---------------------------- MODULE DuplicatePages ----------------------------
(***************************************************************************)
(* The duplicate finder's page (duplicate-finder-view.tsx): the status of  *)
(* the scan (use-scan-status.ts) and, while there are results, one of two  *)
(* tabs: the groups (duplicate-group-list.tsx), or the directories         *)
(* (directory-duplicates-view.tsx) with a dialog of one group's copies     *)
(* (occurrences-dialog.tsx). DuplicateScan says how results come about;    *)
(* here a scan or refresh is no more than its beginning and its end.       *)
(*                                                                         *)
(* A request is two steps, the server's answer and its arrival. What a     *)
(* handler asked for is used whenever it comes, with the handler's own     *)
(* query, key and paths; what an effect asked for only until the effect is *)
(* cleaned up. A group is the number of its checksum.                      *)
(***************************************************************************)
EXTENDS ScanPaths

CONSTANTS
    ContentOf,  \* the group of every file, by path: a number from 1 on
    Top,        \* the directory that is scanned
    PageSize,
    MaxActs,    \* how often the user acts
    Patient     \* the user acts only when no answer is awaited

Files == DOMAIN ContentOf
Dirs == UNION { Lineage(ParentPath(file)) : file \in Files }
Tabs == { "duplicates", "directories" }

VARIABLES
    disk, ignoredPaths,  \* the files there are, the paths left out
    reported, scan,      \* the occurrences on record, and the run
    status, statusCalls, \* what the page knows of the run
    tab, sortDir, hideEmpty,
    view,                \* the tab's own state, gone when it is unmounted
    calls,               \* the tab's requests, and Scan and Stop
    acts

server == << disk, ignoredPaths, reported, scan >>
page == << status, statusCalls, tab, sortDir, hideEmpty, view, calls >>
vars == << server, page, acts >>

-----------------------------------------------------------------------------
(* The server. *)

Copies(group) == { p \in reported : ContentOf[p] = group }
IsIgnored(path) == Lineage(path) \cap ignoredPaths # {}
IsRunning == scan.state = "running"

\* One copy left is no duplicate any more.
Repaired(paths) == { p \in paths : \E q \in paths \ { p } : ContentOf[q] = ContentOf[p] }

\* Each row where as many as its place says come before it. (before: pairs of rows.)
Ordered(rows, before) ==
    [i \in 1..Cardinality(rows) |->
        CHOOSE row \in rows :
            Cardinality({ other \in rows : << other, row >> \in before }) = i - 1]

\* Downwards, ties by checksum; upwards, exactly the reverse.
GroupPrecedes(a, b) == a.count > b.count \/ (a.count = b.count /\ a.what < b.what)

GroupsInOrder(dir) ==
    LET groups == { [what |-> g, count |-> Cardinality(Copies(g))] :
                        g \in { ContentOf[p] : p \in reported } }
    IN  Ordered(groups, { pair \in groups \X groups :
            IF dir = "desc" THEN GroupPrecedes(pair[1], pair[2])
            ELSE GroupPrecedes(pair[2], pair[1]) })

Name(path) == path[Len(path)]

\* A new scan has not recorded any directory.
ChildDirectories(at) ==
    { p \in Dirs \ { Root } : ParentPath(p) = at /\ scan.kind # "scan" }

DuplicatesHere(at) == { p \in reported : ParentPath(p) = at }

DuplicatesBelow(path) == Cardinality({ q \in reported : IsWithinSubtree(q, path) })

\* Whatever the direction, the name decides in the end.
RowPrecedes(a, b, dir) ==
    IF a.count = b.count THEN Name(a.what) < Name(b.what)
    ELSE IF dir = "asc" THEN a.count < b.count ELSE a.count > b.count

RowsInOrder(query) ==
    LET here == ChildDirectories(query.at) \cup DuplicatesHere(query.at)
        rows == { [what |-> p, count |-> DuplicatesBelow(p)] : p \in { q \in here : ~IsIgnored(q) } }
        shown == { row \in rows : query.hideEmpty => row.count > 0 }
    IN  Ordered(shown, { pair \in shown \X shown :
            RowPrecedes(pair[1], pair[2], query.sortDir) })

PageOf(rows, number) ==
    LET from == number * PageSize
    IN  [i \in 1..(IF Len(rows) <= from THEN 0
                   ELSE IF Len(rows) < from + PageSize THEN Len(rows) - from ELSE PageSize) |->
            rows[from + i]]

ListingOf(query) ==
    LET rows == IF query.tab = "duplicates" THEN GroupsInOrder(query.sortDir)
                ELSE RowsInOrder(query)
    IN  [status |-> "ok", rows |-> PageOf(rows, query.page), total |-> Len(rows),
         at |-> query.at]

ScanStatus == [state |-> scan.state, groups |-> Cardinality({ ContentOf[p] : p \in reported })]

CanDelete(path) == ~IsRunning /\ path \in reported \cap disk

PlanFor(path) ==
    LET remaining == Cardinality(Copies(ContentOf[path])) - 1
    IN  [path |-> path, remaining |-> remaining, groupDisappears |-> remaining < 2]

-----------------------------------------------------------------------------
(* The page's state. *)

NoKey == 0
NoListing == [status |-> "none"]
NoTarget == [key |-> NoKey, path |-> << >>]
NoResult == [key |-> NoKey, paths |-> {}, failed |-> FALSE]
NoPlan == [path |-> << >>, remaining |-> 0, groupDisappears |-> FALSE]

\* What useState begins with.
Blank == [page |-> 0, at |-> Top, data |-> NoListing, expanded |-> {},
          target |-> NoTarget, result |-> NoResult, plan |-> NoPlan]

Query(v, t, dirs, hide) ==
    [tab |-> t, at |-> v.at, page |-> v.page, sortDir |-> dirs[t],
     hideEmpty |-> t = "directories" /\ hide]
ThisQuery == Query(view, tab, sortDir, hideEmpty)

Call(kind, from, query, key, path, paths) ==
    [kind |-> kind, from |-> from, query |-> query, key |-> key, path |-> path,
     paths |-> paths, answer |-> [status |-> "awaited"], isHeard |-> TRUE]
StatusCall(kind) == [kind |-> kind, isAnswered |-> FALSE, value |-> [state |-> "none", groups |-> 0]]

HasResults(s) == s.groups > 0
IsOpen == view.target # NoTarget
Shown == IF HasResults(status) THEN { view.data.rows[i] :
            i \in (IF view.data = NoListing THEN {} ELSE DOMAIN view.data.rows) } ELSE {}
IsRow(what) == \E row \in Shown : row.what = what
ShownResult == IF view.result.key = view.target.key THEN view.result ELSE NoResult

Calm == calls = {} /\ \A call \in statusCalls : call.kind = "poll"
IsBusy(kinds, from) == \E c \in calls : c.isHeard /\ c.kind \in kinds /\ c.from = from

UserActs == /\ acts < MaxActs /\ acts' = acts + 1
            /\ Patient => Calm

\* Effects that are cleaned up take their requests with them.
Without(kinds, asked) == { c \in asked : c.kind \notin kinds }
EffectFor(query) == Call("effect", "tab", query, NoKey, << >>, {})

\* The listing's effect runs anew: another query, or a tick.
Relisted(asked, query) == Without({ "effect" }, asked) \cup { EffectFor(query) }

\* What an unmounted component hears is lost, what it has still to do is not.
Unmounted(asked) ==
    { [c EXCEPT !.isHeard = c.from = "page"] : c \in Without({ "effect", "occurrences" }, asked) }

\* Another state of the tab, or other preferences: the effect runs if the query
\* has changed.
Shows(v, t, dirs, hide) ==
    /\ view' = v /\ tab' = t /\ sortDir' = dirs /\ hideEmpty' = hide
    /\ LET asked == IF t = tab THEN calls ELSE Unmounted(calls)
       IN  calls' = IF t = tab /\ Query(v, t, dirs, hide) = ThisQuery THEN asked
                    ELSE Relisted(asked, Query(v, t, dirs, hide))
    /\ UNCHANGED << server, status, statusCalls >>

Asks(call) ==
    /\ calls' = calls \cup { call }
    /\ UNCHANGED << server, status, statusCalls, tab, sortDir, hideEmpty, view >>

-----------------------------------------------------------------------------
(* The user. The dialog is modal. *)

StartScan ==
    /\ UserActs /\ ~IsOpen
    /\ status.state # "running" /\ ~IsBusy({ "scan" }, "page")
    /\ \A call \in statusCalls : call.kind # "started"
    /\ Asks(Call("scan", "page", ThisQuery, NoKey, Top, {}))

\* (A refused start takes the panel's place; it takes a run the page has not heard of.)
StopScan ==
    /\ UserActs /\ ~IsOpen /\ status.state = "running"
    /\ Asks(Call("stop", "page", ThisQuery, NoKey, Top, {}))

SwitchTab ==
    /\ UserActs /\ ~IsOpen /\ HasResults(status)
    /\ Shows(Blank, CHOOSE t \in Tabs : t # tab, sortDir, hideEmpty)

ChangeSort ==
    /\ UserActs /\ ~IsOpen /\ HasResults(status) /\ view.data # NoListing
    /\ Shows([view EXCEPT !.page = 0, !.expanded = {}], tab,
             [sortDir EXCEPT ![tab] = IF @ = "desc" THEN "asc" ELSE "desc"], hideEmpty)

SwitchHideEmpty ==
    /\ UserActs /\ ~IsOpen /\ HasResults(status) /\ tab = "directories" /\ view.data # NoListing
    /\ Shows([view EXCEPT !.page = 0], tab, sortDir, ~hideEmpty)

\* The page's number is the state's, how many there are the listing's. A listing
\* of one page has no buttons.
TurnPage(number) ==
    /\ UserActs /\ ~IsOpen /\ HasResults(status) /\ view.data # NoListing
    /\ view.data.total > PageSize
    /\ \/ number + 1 = view.page
       \/ number = view.page + 1 /\ number * PageSize < view.data.total
    /\ Shows([view EXCEPT !.page = number], tab, sortDir, hideEmpty)

Toggle(group) ==
    /\ UserActs /\ tab = "duplicates" /\ IsRow(group)
    /\ IF \E e \in view.expanded : e[1] = group
       THEN Shows([view EXCEPT !.expanded = { e \in @ : e[1] # group }], tab, sortDir, hideEmpty)
       ELSE Asks(Call("expand", "tab", ThisQuery, group, << >>, {}))

IgnoreOccurrence(group, path) ==
    /\ UserActs /\ tab = "duplicates" /\ IsRow(group)
    /\ << group, path >> \in view.expanded /\ ~IsBusy({ "ignore", "load" }, "tab")
    /\ Asks(Call("ignore", "tab", ThisQuery, group, path, {}))

\* A segment of the breadcrumb, or Up.
IsSegment(path) == path \in Lineage(view.data.at) /\ IsWithinSubtree(path, Top)

Navigate(path) ==
    /\ UserActs /\ ~IsOpen /\ tab = "directories" /\ HasResults(status) /\ view.data # NoListing
    /\ (path \in Dirs /\ IsRow(path)) \/ IsSegment(path)
    /\ Shows([view EXCEPT !.at = path, !.page = 0], tab, sortDir, hideEmpty)

\* Ignore and Rescan of a row, one of each at a time. (An answer to the interval
\* from before could still come after the rescan's own.)
AskForRow(kind, path) ==
    /\ Patient /\ kind = "rescan" => status.state # "running"
    /\ UserActs /\ ~IsOpen /\ tab = "directories" /\ IsRow(path)
    /\ ~IsBusy(IF kind = "ignore" THEN { "ignore", "load" } ELSE { kind }, "tab")
    /\ Asks(Call(kind, "tab", ThisQuery, NoKey, path, {}))

\* (Open during a run, what the dialog loads could be overtaken by a tick's listing.)
OpenOccurrences(path) ==
    /\ Patient => status.state # "running"
    /\ UserActs /\ ~IsOpen /\ tab = "directories" /\ path \in Files /\ IsRow(path)
    /\ view' = [view EXCEPT !.target = [key |-> ContentOf[path], path |-> path]]
    /\ calls' = Without({ "occurrences" }, calls) \cup
                    { Call("occurrences", "dialog", ThisQuery, ContentOf[path], path, {}) }
    /\ UNCHANGED << server, status, statusCalls, tab, sortDir, hideEmpty >>

\* What is left of the dialog's state, a plan too, is there when it opens again.
CloseDialog ==
    /\ UserActs /\ IsOpen
    /\ view' = [view EXCEPT !.target = NoTarget]
    /\ calls' = Without({ "occurrences" }, calls)
    /\ UNCHANGED << server, status, statusCalls, tab, sortDir, hideEmpty >>

\* Ignore, Delete (asks for a plan) and Delete for real (with its plan on show).
AskInDialog(kind, path) ==
    /\ UserActs /\ IsOpen /\ path \in ShownResult.paths
    /\ ~IsBusy({ "ignore", "plan", "delete" }, "dialog")
    /\ kind = "plan" => Cardinality(ShownResult.paths) > 1
    /\ kind = "delete" => view.plan.path = path
    /\ calls' = calls \cup
            { Call(kind, "dialog", ThisQuery, view.target.key, path, ShownResult.paths) }
    /\ view' = [view EXCEPT !.plan = IF kind = "plan" THEN NoPlan ELSE @]
    /\ UNCHANGED << server, status, statusCalls, tab, sortDir, hideEmpty >>

CancelPlan ==
    /\ UserActs /\ IsOpen /\ view.plan.path \in ShownResult.paths
    /\ ~IsBusy({ "ignore", "plan", "delete" }, "dialog")
    /\ view' = [view EXCEPT !.plan = NoPlan]
    /\ UNCHANGED << server, status, statusCalls, tab, sortDir, hideEmpty, calls >>

-----------------------------------------------------------------------------
(* The server answers. *)

Answer(call, answer) ==
    calls' = (calls \ { call }) \cup { [call EXCEPT !.answer = answer] }

Refused == [status |-> "refused"]
Done == [status |-> "ok"]

IsAsked(call, kinds) == call.kind \in kinds /\ call.answer.status = "awaited"

ServerLists(call) ==
    /\ IsAsked(call, { "effect", "load" })
    /\ Answer(call, ListingOf(call.query))
    /\ UNCHANGED << server, status, statusCalls, tab, sortDir, hideEmpty, view, acts >>

ServerListsCopies(call) ==
    /\ IsAsked(call, { "expand", "occurrences" })
    /\ Answer(call, IF Copies(call.key) = {} THEN Refused
                    ELSE [status |-> "ok", paths |-> Copies(call.key)])
    /\ UNCHANGED << server, status, statusCalls, tab, sortDir, hideEmpty, view, acts >>

\* A dry run of a deletion.
ServerPlans(call) ==
    /\ IsAsked(call, { "plan" })
    /\ Answer(call, IF CanDelete(call.path)
                    THEN [status |-> "ok", plan |-> PlanFor(call.path)] ELSE Refused)
    /\ UNCHANGED << server, status, statusCalls, tab, sortDir, hideEmpty, view, acts >>

ServerIgnores(call) ==
    /\ IsAsked(call, { "ignore" })
    /\ ignoredPaths' = ignoredPaths \cup { call.path }
    /\ reported' = Repaired({ p \in reported : ~IsWithinSubtree(p, call.path) })
    /\ Answer(call, Done)
    /\ UNCHANGED << disk, scan, status, statusCalls, tab, sortDir, hideEmpty, view, acts >>

ServerDeletes(call) ==
    /\ IsAsked(call, { "delete" })
    /\ IF CanDelete(call.path)
       THEN /\ disk' = disk \ { call.path }
            /\ reported' = Repaired(reported \ { call.path })
            /\ Answer(call, [status |-> "ok", plan |-> PlanFor(call.path)])
       ELSE Answer(call, Refused) /\ UNCHANGED << disk, reported >>
    /\ UNCHANGED << ignoredPaths, scan, status, statusCalls, tab, sortDir, hideEmpty, view, acts >>

Begins(call) ==
    IF IsRunning \/ IsIgnored(call.path) THEN Answer(call, Refused) /\ UNCHANGED scan
    ELSE /\ scan' = [state |-> "running", kind |-> call.kind, isStopping |-> FALSE]
         /\ Answer(call, Done)

\* With a new scan's number no result of the last one is current any more.
ServerScans(call) ==
    /\ IsAsked(call, { "scan" })
    /\ Begins(call)
    /\ reported' = IF scan' = scan THEN reported ELSE {}
    /\ UNCHANGED << disk, ignoredPaths, status, statusCalls, tab, sortDir, hideEmpty, view, acts >>

ServerRefreshes(call) ==
    /\ IsAsked(call, { "rescan" })
    /\ Begins(call)
    /\ UNCHANGED reported
    /\ UNCHANGED << disk, ignoredPaths, status, statusCalls, tab, sortDir, hideEmpty, view, acts >>

ServerStops(call) ==
    /\ IsAsked(call, { "stop" })
    /\ scan' = [scan EXCEPT !.isStopping = IsRunning]
    /\ Answer(call, Done)
    /\ UNCHANGED << disk, ignoredPaths, reported, status, statusCalls, tab, sortDir, hideEmpty,
                    view, acts >>

\* Stopped, a scan reports some of what there is, a refresh leaves what there was
\* (while it lists; DuplicateScan has the rest).
RunEnds(found) ==
    /\ IsRunning
    /\ found \subseteq { p \in disk : ~IsIgnored(p) }
    /\ ~scan.isStopping => found = { p \in disk : ~IsIgnored(p) }
    /\ scan' = [state |-> IF scan.isStopping THEN "stopped" ELSE "finished",
                kind |-> "none", isStopping |-> FALSE]
    /\ reported' = IF scan.isStopping /\ scan.kind = "rescan" THEN reported ELSE Repaired(found)
    /\ UNCHANGED << disk, ignoredPaths, page, acts >>

-----------------------------------------------------------------------------
(* Answers arrive. *)

Rest(call) == calls \ { call }
IsOk(call) == call.answer.status = "ok"
LoadAfter(call) == [Call("load", call.from, call.query, NoKey, << >>, {}) EXCEPT
                        !.isHeard = call.isHeard]

\* Where the listing is fetched again, and the status after it (onResultsChanged).
ListingArrives(call) ==
    /\ call.kind \in { "effect", "load" } /\ IsOk(call)
    /\ view' = IF call.isHeard THEN [view EXCEPT !.data = call.answer] ELSE view
    /\ calls' = Rest(call)
    /\ statusCalls' = IF call.kind = "load" /\ call.from = "tab"
                      THEN statusCalls \cup { StatusCall("changed") } ELSE statusCalls
    /\ UNCHANGED << server, status, tab, sortDir, hideEmpty, acts >>

\* A group that is gone: the listing is loaded, and nothing else.
OccurrencesArrive(call) ==
    /\ call.kind \in { "expand", "occurrences" } /\ call.answer.status # "awaited"
    /\ LET paths == IF IsOk(call) THEN call.answer.paths ELSE {}
       IN  view' = IF ~call.isHeard THEN view
                   ELSE IF call.kind = "expand"
                   THEN [view EXCEPT !.expanded = IF IsOk(call)
                            THEN { e \in @ : e[1] # call.key } \cup ({ call.key } \X paths)
                            ELSE @]
                   ELSE [view EXCEPT !.result =
                            [key |-> call.key, paths |-> paths, failed |-> ~IsOk(call)]]
    /\ calls' = Rest(call) \cup
            (IF call.kind = "expand" /\ ~IsOk(call)
             THEN { [LoadAfter(call) EXCEPT !.from = "expansion"] } ELSE {})
    /\ UNCHANGED << server, status, statusCalls, tab, sortDir, hideEmpty, acts >>

\* In the groups' tab the path goes at once, with the group if it was the last but one.
Dropped(expanded, group, path) ==
    LET left == { e \in expanded : e[1] = group } \ { << group, path >> }
    IN  { e \in expanded : e[1] # group } \cup (IF Cardinality(left) < 2 THEN {} ELSE left)

IgnoreArrives(call) ==
    /\ call.kind = "ignore" /\ call.from = "tab" /\ IsOk(call)
    /\ view' = IF call.isHeard /\ call.key # NoKey
               THEN [view EXCEPT !.expanded = Dropped(@, call.key, call.path)] ELSE view
    /\ calls' = Rest(call) \cup { LoadAfter(call) }
    /\ UNCHANGED << server, status, statusCalls, tab, sortDir, hideEmpty, acts >>

PlanArrives(call) ==
    /\ call.kind = "plan" /\ call.answer.status # "awaited"
    /\ view' = IF call.isHeard /\ IsOk(call) THEN [view EXCEPT !.plan = call.answer.plan] ELSE view
    /\ calls' = Rest(call)
    /\ UNCHANGED << server, status, statusCalls, tab, sortDir, hideEmpty, acts >>

\* onClose closes whatever is open then; setResult is of the group asked about.
AfterRemoval(call, isGone) ==
    IF isGone THEN [view EXCEPT !.plan = NoPlan, !.target = NoTarget]
    ELSE [view EXCEPT !.plan = NoPlan,
                      !.result = [key |-> call.key, paths |-> call.paths \ { call.path },
                                  failed |-> FALSE]]

\* The listing is loaded, the status is not asked for.
RemovalArrives(call) ==
    /\ call.kind \in { "ignore", "delete" } /\ call.from = "dialog"
    /\ call.answer.status # "awaited"
    /\ IF ~IsOk(call) THEN calls' = Rest(call) /\ UNCHANGED view
       ELSE LET isGone == IF call.kind = "delete" THEN call.answer.plan.groupDisappears
                          ELSE Cardinality(call.paths \ { call.path }) < 2
                closes == isGone /\ call.isHeard
            IN  /\ calls' = (IF closes THEN Without({ "occurrences" }, Rest(call)) ELSE Rest(call))
                                \cup { LoadAfter(call) }
                /\ view' = IF call.isHeard THEN AfterRemoval(call, isGone) ELSE view
    /\ UNCHANGED << server, status, statusCalls, tab, sortDir, hideEmpty, acts >>

RunAnswerArrives(call) ==
    /\ call.kind \in { "scan", "stop", "rescan" } /\ call.answer.status # "awaited"
    /\ calls' = Rest(call)
    /\ statusCalls' = statusCalls \cup
            (IF call.kind = "rescan" /\ ~IsOk(call) THEN {}
             ELSE { StatusCall(IF call.kind = "scan" THEN "started" ELSE "changed") })
    /\ UNCHANGED << server, status, tab, sortDir, hideEmpty, view, acts >>

Poll ==
    /\ status.state = "running" /\ \A call \in statusCalls : call.kind # "poll"
    /\ statusCalls' = statusCalls \cup { StatusCall("poll") }
    /\ UNCHANGED << server, status, tab, sortDir, hideEmpty, view, calls, acts >>

StatusIsRead(call) ==
    /\ ~call.isAnswered
    /\ statusCalls' = (statusCalls \ { call }) \cup
            { [call EXCEPT !.isAnswered = TRUE, !.value = ScanStatus] }
    /\ UNCHANGED << server, status, tab, sortDir, hideEmpty, view, calls, acts >>

\* Every answer is a tick. Results mount the tab, and none unmount it.
\* Mutant of Ticked: only another status is.
TickedIfChanged(value) ==
    IF value = status THEN calls
    ELSE IF ~HasResults(value) THEN Unmounted(calls)
    ELSE Relisted(calls, IF HasResults(status) THEN ThisQuery
                         ELSE Query(Blank, tab, sortDir, hideEmpty))

Ticked(value) ==
    IF ~HasResults(value) THEN Unmounted(calls)
    ELSE Relisted(calls, IF HasResults(status) THEN ThisQuery
                         ELSE Query(Blank, tab, sortDir, hideEmpty))

Applied(value) == value

StatusArrives(call) ==
    /\ call.isAnswered
    /\ status' = Applied(call.value)
    /\ statusCalls' = { s \in statusCalls \ { call } :
                            s.kind = "poll" => status'.state = "running" }
    /\ view' = IF HasResults(status) /\ HasResults(call.value) THEN view ELSE Blank
    /\ calls' = Ticked(call.value)
    /\ UNCHANGED << server, tab, sortDir, hideEmpty, acts >>

\* The page opens on the results of a scan that is over.
Init ==
    /\ disk = Files /\ ignoredPaths = {} /\ reported = Repaired(Files)
    /\ scan = [state |-> "finished", kind |-> "none", isStopping |-> FALSE]
    /\ status = [state |-> "none", groups |-> 0] /\ statusCalls = { StatusCall("first") }
    /\ tab \in Tabs /\ sortDir = [t \in Tabs |-> "desc"] /\ hideEmpty = FALSE
    /\ view = Blank /\ calls = {} /\ acts = 0

Serves ==
    \E call \in calls :
        \/ ServerLists(call) \/ ServerListsCopies(call) \/ ServerPlans(call)
        \/ ServerIgnores(call) \/ ServerDeletes(call)
        \/ ServerScans(call) \/ ServerRefreshes(call) \/ ServerStops(call)

Arrives ==
    \E call \in calls :
        \/ ListingArrives(call) \/ OccurrencesArrive(call) \/ IgnoreArrives(call)
        \/ PlanArrives(call) \/ RemovalArrives(call) \/ RunAnswerArrives(call)

StatusComes == \E call \in statusCalls : StatusIsRead(call) \/ StatusArrives(call)
RunGoesOn == \E found \in SUBSET disk : RunEnds(found)

Next ==
    \/ Serves \/ Arrives \/ Poll \/ StatusComes \/ RunGoesOn
    \/ StartScan \/ StopScan \/ SwitchTab \/ ChangeSort \/ SwitchHideEmpty
    \/ CloseDialog \/ CancelPlan
    \/ \E number \in 0..Cardinality(Files) : TurnPage(number)
    \/ \E path \in Dirs : Navigate(path)
    \/ \E path \in Dirs \cup Files, kind \in { "ignore", "rescan" } : AskForRow(kind, path)
    \/ \E path \in Files :
        \/ OpenOccurrences(path)
        \/ Toggle(ContentOf[path])
        \/ IgnoreOccurrence(ContentOf[path], path)
        \/ \E kind \in { "ignore", "plan", "delete" } : AskInDialog(kind, path)

\* Runs end, requests are answered, and the interval goes on.
Spec ==
    /\ Init /\ [][Next]_vars
    /\ WF_vars(Serves) /\ WF_vars(Arrives) /\ WF_vars(StatusComes) /\ WF_vars(Poll)
    /\ WF_vars(RunGoesOn)

-----------------------------------------------------------------------------

IsAtRest == Calm /\ statusCalls = {} /\ status.state # "running"

\* Whatever was ignored, deleted or scanned, and in whichever order the answers
\* came: at rest the page knows that the run is over, and its listing is the one
\* the server now has for the query on show, counts included.
ResultsAreCurrent ==
    IsAtRest =>
        /\ status.state = scan.state
        /\ HasResults(status) => view.data = ListingOf(ThisQuery)

\* At rest an open dialog has loaded, and shows the copies there are: those it
\* crossed out itself, without asking, are those that the server no longer has.
DialogIsLoaded == IsAtRest /\ IsOpen => ShownResult # NoResult

CopiesAreCurrent ==
    /\ DialogIsLoaded
    /\ IsAtRest /\ IsOpen /\ ~ShownResult.failed => ShownResult.paths = Copies(view.target.key)

\* The tab's group count is that of the results ("has to be refetched too",
\* directory-duplicates-view.tsx).
GroupCountIsCurrent == IsAtRest => status.groups = ScanStatus.groups

\* A page of a listing that has rows shows some of them.
NoPageIsEmpty ==
    IsAtRest /\ HasResults(status) /\ view.data # NoListing /\ view.data.total > 0 =>
        view.data.rows # << >>

\* What is deleted for real leaves as many copies as the plan on show has told.
PlanIsKept ==
    [][ \A path \in disk \ disk' :
            \E call \in calls : call.kind = "delete" /\ call.path = path /\
                (view.plan.path = path =>
                    view.plan.remaining = Cardinality(Copies(ContentOf[path])) - 1) ]_vars

\* A run shown as running is, once over, no longer shown so.
RunIsSeenToEnd == status.state = "running" ~> status.state # "running"
=============================================================================
