------------------------------ MODULE SizeBrowser ------------------------------
(***************************************************************************)
(* The Count and Size page: the directory shown (count-and-size-explorer), *)
(* its scan's state (use-directory-status.ts) and the listing below, with  *)
(* the state of each subdirectory (directory-browser.tsx). Scans are here  *)
(* no more than the states their directories pass through; CountAndSize    *)
(* says how.                                                               *)
(*                                                                         *)
(* A directory is a path; a request is two steps, its answer by the server *)
(* and the arrival. Those of an effect are ignored once the effect has     *)
(* been cleaned up, those of a handler never.                              *)
(***************************************************************************)
EXTENDS PaneFetch, ScanPaths, FiniteSetsExt

CONSTANTS
    Tree,     \* the directories, a set of paths closed upwards
    Start,    \* the one the page opens at
    MayFail,  \* a listing may be refused
    MaxActs,  \* how often the user acts
    Patient   \* the user starts scans, and loads more, only at rest

VARIABLES
    state,           \* of every directory's scan
    path, sortDir,   \* what is shown
    view, statuses,  \* its state as the page knows it, and the answers to come
    entries, hasMore, error,
    listings,        \* the pages of the listing to come
    scanRequests,    \* the scans and stops asked for
    acts

page == << path, sortDir, view, statuses, entries, hasMore, error, listings >>
vars == << state, page, scanRequests, acts >>

-----------------------------------------------------------------------------
(* The server. *)

Below(directory) == { p \in Tree : IsWithinSubtree(p, directory) }
Children(directory) == { p \in Tree \ { Root } : ParentPath(p) = directory }

\* A scan takes every directory below into its queue, a stop all that wait there.
Scanned(directory) ==
    [p \in Tree |-> IF p \in Below(directory) THEN "scanning" ELSE state[p]]

Stopped(directory) ==
    [p \in Tree |-> IF p \in Below(directory) /\ state[p] = "scanning" THEN "stopped"
                    ELSE state[p]]

\* A directory's own state counts those below: it is completed last.
DirectoryEnds(directory) ==
    /\ state[directory] = "scanning"
    /\ \A p \in Below(directory) \ { directory } : state[p] # "scanning"
    /\ state' = [state EXCEPT ![directory] = "completed"]
    /\ UNCHANGED << page, scanRequests, acts >>

\* GET list: the subdirectories by name, one page from the offset on.
ListingOf(listing) ==
    LET names == { p[Len(p)] : p \in Children(listing.path) }
        sorted == Sorted(names, [sortBy |-> "name", sortDir |-> listing.sortDir])
        last == Min({ listing.offset + listing.limit, Len(sorted) })
    IN  [rows |-> [i \in 1..Max({ last - listing.offset, 0 }) |->
                     LET name == sorted[listing.offset + i]
                     IN  [name |-> name, state |-> state[Append(listing.path, name)]]],
         hasMore |-> listing.offset + listing.limit < Len(sorted)]

-----------------------------------------------------------------------------
(* The page. *)

NoAnswer == [rows |-> << >>, hasMore |-> FALSE]

Listing(kind, directory, dir, offset, limit) ==
    [kind |-> kind, path |-> directory, sortDir |-> dir, offset |-> offset, limit |-> limit,
     isAnswered |-> FALSE, isRefused |-> FALSE, answer |-> NoAnswer]

Status(kind, directory) ==
    [kind |-> kind, path |-> directory, isAnswered |-> FALSE, state |-> "none"]

LoadedSoFar == Max({ Len(entries), PageSize })
IsScanning(rows) == \E i \in DOMAIN rows : rows[i].state = "scanning"

\* The effects' clean-up: of the listing on path, sort and tick, of the row poll on
\* any new rows as well.
Fresh(asked) == { l \in asked : l.kind \notin { "effect", "rowpoll" } }

\* The first page is asked for again: the rows loaded further on go with it.
Refetched(directory, dir, asked) ==
    Fresh(asked) \cup { Listing("effect", directory, dir, 0, PageSize) }

Handlers == { l \in listings : l.kind \in { "more", "scanned" } }
HandlersWait == scanRequests # {} \/ Handlers # {} \/ \E s \in statuses : s.kind = "call"

UserActs ==
    /\ acts < MaxActs /\ acts' = acts + 1
    /\ Patient => ~HandlersWait

IsAtRest == listings = {} /\ statuses = {} /\ scanRequests = {}
IsQuiet == view.state # "scanning" /\ ~IsScanning(entries)

IsRow(directory) == \E i \in DOMAIN entries : directory = Append(path, entries[i].name)

Navigate(directory) ==
    /\ UserActs
    /\ \/ IsRow(directory)
       \/ path # Root /\ directory = ParentPath(path)
    /\ path' = directory
    /\ statuses' = { s \in statuses : s.kind = "call" } \cup { Status("effect", directory) }
    /\ listings' = Refetched(directory, sortDir, listings)
    /\ UNCHANGED << state, sortDir, view, entries, hasMore, error, scanRequests >>

SortClicked ==
    /\ UserActs
    /\ sortDir' = IF sortDir = "asc" THEN "desc" ELSE "asc"
    /\ listings' = Refetched(path, sortDir', listings)
    /\ UNCHANGED << state, path, view, statuses, entries, hasMore, error, scanRequests >>

OffersMore == hasMore /\ \A l \in listings : l.kind # "more"

LoadMoreRows ==
    /\ UserActs /\ (Patient => IsAtRest /\ IsQuiet)
    /\ OffersMore
    /\ listings' = listings \cup { Listing("more", path, sortDir, Len(entries), PageSize) }
    /\ UNCHANGED << state, path, sortDir, view, statuses, entries, hasMore, error, scanRequests >>

\* The row shows a scan before the server has heard of one.
ScanEntry(i) ==
    /\ UserActs /\ (Patient => IsAtRest /\ view.state # "scanning")
    /\ entries[i].state # "scanning"
    /\ entries' = [entries EXCEPT ![i].state = "scanning"]
    /\ listings' = { l \in listings : l.kind # "rowpoll" }
    /\ scanRequests' = scanRequests \cup
            { [kind |-> "row", path |-> path, directory |-> Append(path, entries[i].name),
               sortDir |-> sortDir, limit |-> LoadedSoFar] }
    /\ UNCHANGED << state, path, sortDir, view, statuses, hasMore, error >>

ScanOrStop(kind) ==
    /\ UserActs
    /\ IF kind = "stop" THEN view.state = "scanning"
       ELSE /\ \A r \in scanRequests : r.kind # "scan"
            /\ Patient => IsAtRest /\ view.state # "scanning"
    /\ scanRequests' = scanRequests \cup
            { [kind |-> kind, path |-> path, directory |-> path, sortDir |-> sortDir,
               limit |-> LoadedSoFar] }
    /\ UNCHANGED << state, page >>

\* The POST is answered; the handler goes on with the path it began with.
ServerStops(request) ==
    /\ request.kind = "stop"
    /\ scanRequests' = scanRequests \ { request }
    /\ state' = Stopped(request.directory)
    /\ statuses' = statuses \cup { Status("call", request.path) }
    /\ UNCHANGED << path, sortDir, view, entries, hasMore, error, listings, acts >>

ServerScans(request) ==
    /\ request.kind # "stop"
    /\ scanRequests' = scanRequests \ { request }
    /\ state' = Scanned(request.directory)
    /\ IF request.kind = "row"
       THEN /\ listings' = listings \cup
                 { Listing("scanned", request.path, request.sortDir, 0, request.limit) }
            /\ UNCHANGED statuses
       ELSE /\ statuses' = statuses \cup { Status("call", request.path) }
            /\ UNCHANGED listings
    /\ UNCHANGED << path, sortDir, view, entries, hasMore, error, acts >>

\* The two intervals; one request of each is under way at most.
PollStatus ==
    /\ view.state = "scanning" /\ \A s \in statuses : s.kind # "poll"
    /\ statuses' = statuses \cup { Status("poll", path) }
    /\ UNCHANGED << state, path, sortDir, view, entries, hasMore, error, listings,
                    scanRequests, acts >>

PollRows ==
    /\ IsScanning(entries) /\ \A l \in listings : l.kind # "rowpoll"
    /\ listings' = listings \cup { Listing("rowpoll", path, sortDir, 0, LoadedSoFar) }
    /\ UNCHANGED << state, path, sortDir, view, statuses, entries, hasMore, error,
                    scanRequests, acts >>

ServerReads(status) ==
    /\ ~status.isAnswered
    /\ statuses' = (statuses \ { status }) \cup
            { [status EXCEPT !.isAnswered = TRUE, !.state = state[status.path]] }
    /\ UNCHANGED << state, path, sortDir, view, entries, hasMore, error, listings,
                    scanRequests, acts >>

\* Every answer is a tick: the listing is fetched again. Mutant of Ticked: it is not.
NotTicked == listings

Ticked == Refetched(path, sortDir, listings)

StatusArrives(status) ==
    /\ status.isAnswered
    /\ view' = [path |-> status.path, state |-> status.state]
    /\ statuses' = { s \in statuses \ { status } : s.kind = "poll" => view'.state = "scanning" }
    /\ listings' = Ticked
    /\ UNCHANGED << state, path, sortDir, entries, hasMore, error, scanRequests, acts >>

ServerLists(listing, refused) ==
    /\ ~listing.isAnswered /\ (refused => MayFail)
    /\ listings' = (listings \ { listing }) \cup
            { [listing EXCEPT !.isAnswered = TRUE, !.isRefused = refused,
                              !.answer = IF refused THEN NoAnswer ELSE ListingOf(listing)] }
    /\ UNCHANGED << state, path, sortDir, view, statuses, entries, hasMore, error,
                    scanRequests, acts >>

\* New rows restart the row poll. Only the effect clears the error.
ListingArrives(listing) ==
    /\ listing.isAnswered
    /\ LET others == listings \ { listing }
       IN  IF listing.isRefused
           THEN /\ error' = (error \/ listing.kind \in { "effect", "more" })
                /\ listings' = others
                /\ UNCHANGED << entries, hasMore >>
           ELSE /\ error' = (error /\ listing.kind # "effect")
                /\ entries' = (IF listing.kind = "more" THEN entries ELSE << >>)
                                \o listing.answer.rows
                /\ hasMore' = listing.answer.hasMore
                /\ listings' = { l \in others : l.kind # "rowpoll" }
    /\ UNCHANGED << state, path, sortDir, view, statuses, scanRequests, acts >>

Init ==
    /\ state = [p \in Tree |-> "not_scanned"]
    /\ path = Start /\ sortDir = "asc"
    /\ view = [path |-> path, state |-> "none"] /\ statuses = { Status("effect", path) }
    /\ entries = << >> /\ hasMore = FALSE /\ error = FALSE
    /\ listings = Refetched(path, sortDir, {})
    /\ scanRequests = {} /\ acts = 0

StatusComes == \E status \in statuses : ServerReads(status) \/ StatusArrives(status)

RowsCome ==
    \E listing \in listings :
        (\E refused \in BOOLEAN : ServerLists(listing, refused)) \/ ListingArrives(listing)

ScanGoesOn == \E directory \in Tree : DirectoryEnds(directory)
ScanIsAsked == \E request \in scanRequests : ServerScans(request) \/ ServerStops(request)

Next ==
    \/ ScanGoesOn \/ ScanIsAsked \/ StatusComes \/ RowsCome
    \/ PollStatus \/ PollRows
    \/ \E directory \in Tree : Navigate(directory)
    \/ SortClicked \/ LoadMoreRows
    \/ \E i \in DOMAIN entries : ScanEntry(i)
    \/ \E kind \in { "scan", "stop" } : ScanOrStop(kind)

\* Scans end, requests are answered, and the intervals go on.
Spec ==
    /\ Init /\ [][Next]_vars
    /\ WF_vars(ScanGoesOn) /\ WF_vars(ScanIsAsked) /\ WF_vars(StatusComes) /\ WF_vars(RowsCome)
    /\ WF_vars(PollStatus) /\ WF_vars(PollRows)

-----------------------------------------------------------------------------

\* At rest and with no scan on show, the page is of the directory it names: its
\* state, and the beginning of its subdirectories with theirs, in order and without
\* a gap; and it offers more if there is more.
PageIsCurrent ==
    IsAtRest /\ IsQuiet /\ ~error =>
        LET all == ListingOf(Listing("", path, sortDir, 0, Len(entries)))
        IN  /\ view = [path |-> path, state |-> state[path]]
            /\ entries = all.rows /\ hasMore = all.hasMore
            /\ Len(entries) >= Min({ PageSize, Cardinality(Children(path)) })

\* No scan, of the directory or of a row, is shown as running for good.
ScanIsSeenToEnd == ~IsQuiet ~> IsQuiet
=============================================================================
