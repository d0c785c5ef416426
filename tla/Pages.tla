--------------------------------- MODULE Pages ---------------------------------
(***************************************************************************)
(* The four pages. The browser shows one of them at a time and they share  *)
(* nothing in it, so a behaviour is one page's, chosen at the start:       *)
(* `screen`. The variables of the others stay as they are.                 *)
(* The pane's module is extended, the others instantiated; what two of     *)
(* them call by one name is one variable here, which only one of them uses.*)
(***************************************************************************)
EXTENDS ComparisonPane

CONSTANTS
    Patient,                                          \* of every page but the pane
    EntryNames, Folders, Trees, Starts, Syncs,        \* ComparisonPage
    Outcomes, CrossDevice, Apart, ListedAtOnce, MaxOperations,
    Tree, Start, RowsAtOnce, MayRefuse, MaxScanActs,  \* SizeBrowser
    ContentOf, Top, GroupsAtOnce, MaxDuplicateActs    \* DuplicatePages

VARIABLES
    screen,
    disk, trash, rows, ignoredPaths, running, panePath, moveSync,   \* ComparisonPage
    view, requests, panes, listings, operations, acts,
    state, path, sortDir, statuses, entries, hasMore, error,        \* SizeBrowser
    scanRequests,
    reported, scan, status, statusCalls, tab, hideEmpty, calls      \* DuplicatePages

ofPane == << pane, query, directories, statusByName, filters, answers, changes >>
ofComparison == << trash, rows, running, panePath, moveSync, requests, panes, operations >>
ofSizes == << state, path, statuses, entries, hasMore, error, scanRequests >>
ofDuplicates == << reported, scan, status, statusCalls, tab, hideEmpty, calls >>

-----------------------------------------------------------------------------

Comparison == INSTANCE ComparisonPage WITH
    Names <- EntryNames, PageSize <- ListedAtOnce, MaxActs <- MaxOperations

Sizes == INSTANCE SizeBrowser WITH
    PageSize <- RowsAtOnce, MayFail <- MayRefuse, MaxActs <- MaxScanActs

Duplicates == INSTANCE DuplicatePages WITH
    PageSize <- GroupsAtOnce, MaxActs <- MaxDuplicateActs

-----------------------------------------------------------------------------

Off == "off"
NoPaneYet ==
    /\ pane = NewPane /\ query \in Openings /\ directories = [p \in Paths |-> {}]
    /\ statusByName = [name \in Names |-> "none"] /\ filters = {} /\ answers = {} /\ changes = 0
NoComparison ==
    /\ trash = Off /\ rows = Off /\ running = Off /\ panePath = Off /\ moveSync = Off
    /\ requests = Off /\ panes = Off /\ operations = Off
NoSizes ==
    /\ state = Off /\ path = Off /\ statuses = Off /\ entries = Off /\ hasMore = Off
    /\ error = Off /\ scanRequests = Off
NoDuplicates ==
    /\ reported = Off /\ scan = Off /\ status = Off /\ statusCalls = Off /\ tab = Off
    /\ hideEmpty = Off /\ calls = Off

PagesInit ==
    \/ /\ screen = "pane" /\ Init
       /\ NoComparison /\ NoSizes /\ NoDuplicates
       /\ disk = Off /\ ignoredPaths = Off /\ view = Off /\ listings = Off /\ acts = 0
       /\ sortDir = Off
    \/ /\ screen = "comparison" /\ Comparison!Init
       /\ NoPaneYet /\ NoSizes /\ NoDuplicates /\ sortDir = Off
    \/ /\ screen = "sizes" /\ Sizes!Init
       /\ NoPaneYet /\ NoComparison /\ NoDuplicates /\ disk = Off /\ ignoredPaths = Off
    \/ /\ screen = "duplicates" /\ Duplicates!Init
       /\ NoPaneYet /\ NoComparison /\ NoSizes /\ listings = Off

ShowsPane == screen = "pane"
ShowsComparison == screen = "comparison"
ShowsSizes == screen = "sizes"
ShowsDuplicates == screen = "duplicates"

\* A step of one page leaves the others alone.
OnPane(step) ==
    /\ ShowsPane /\ step
    /\ UNCHANGED << screen, disk, ignoredPaths, view, listings, acts, sortDir >>
    /\ UNCHANGED << ofComparison, ofSizes, ofDuplicates >>
OnComparison(step) ==
    /\ ShowsComparison /\ step
    /\ UNCHANGED << screen, ofPane, ofSizes, ofDuplicates, sortDir >>
OnSizes(step) ==
    /\ ShowsSizes /\ step
    /\ UNCHANGED << screen, ofPane, ofComparison, ofDuplicates, disk, ignoredPaths >>
OnDuplicates(step) ==
    /\ ShowsDuplicates /\ step
    /\ UNCHANGED << screen, ofPane, ofComparison, ofSizes, listings >>

PagesNext ==
    \/ OnPane(Next)
    \/ OnComparison(Comparison!Next)
    \/ OnSizes(Sizes!Next)
    \/ OnDuplicates(Duplicates!Next)

pagesVars == << screen, ofPane, ofComparison, ofSizes, ofDuplicates, disk, ignoredPaths, view,
                listings, acts, sortDir >>

\* The fairness of each page's own specification: with the screen fixed, that of a
\* disjunction is that of the page's action.
PagesSpec ==
    /\ PagesInit /\ [][PagesNext]_pagesVars
    /\ WF_pagesVars(\/ OnPane(Arrival)
                    \/ OnComparison(Comparison!RowsCome)
                    \/ OnSizes(Sizes!RowsCome)
                    \/ OnDuplicates(Duplicates!Arrives))
    /\ WF_pagesVars(\/ OnComparison(Comparison!StatusComes)
                    \/ OnSizes(Sizes!StatusComes)
                    \/ OnDuplicates(Duplicates!StatusComes))
    /\ WF_pagesVars(\/ OnComparison(Comparison!ServerWorks)
                    \/ OnSizes(Sizes!ScanIsAsked)
                    \/ OnDuplicates(Duplicates!Serves))
    /\ WF_pagesVars(\/ OnComparison(Comparison!ComparisonEnds)
                    \/ OnSizes(Sizes!ScanGoesOn)
                    \/ OnDuplicates(Duplicates!RunGoesOn))
    /\ WF_pagesVars(\/ OnComparison(Comparison!Poll)
                    \/ OnSizes(Sizes!PollStatus)
                    \/ OnDuplicates(Duplicates!Poll))
    /\ WF_pagesVars(OnSizes(Sizes!PollRows))

-----------------------------------------------------------------------------
(* The properties of the modules, each for its own page. *)

\* The comparison page at rest shows the statuses and entries there are.
ShownIsCurrent == ShowsComparison => Comparison!ShownIsCurrent

\* No operation on entries loses a content.
NothingIsLost == [][ ShowsComparison => Comparison!KeepsContents ]_pagesVars

\* The Count and Size page at rest is of the directory it names.
PageIsCurrent == ShowsSizes => Sizes!PageIsCurrent

\* The duplicate finder's listing at rest is the server's, and so are the copies
\* its dialog shows.
ResultsAreCurrent ==
    ShowsDuplicates => Duplicates!ResultsAreCurrent /\ Duplicates!CopiesAreCurrent

IsShownBusy ==
    \/ ShowsPane /\ pane.loading
    \/ ShowsComparison /\ view.active
    \/ ShowsSizes /\ ~Sizes!IsQuiet
    \/ ShowsDuplicates /\ status.state = "running"

\* What a page shows as under way (a listing that loads, an active comparison, a
\* scan of the directory or of a row, a run) it does not show so for good:
\* LoadingEnds, ActivityEnds, ScanIsSeenToEnd and RunIsSeenToEnd of the modules.
WhatIsShownEnds == IsShownBusy ~> ~IsShownBusy
=============================================================================
