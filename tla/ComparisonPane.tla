---------------------------- MODULE ComparisonPane ----------------------------
(***************************************************************************)
(* One pane (comparison-pane.tsx) over directories too long for one page:  *)
(* its rows come page by page, while the path, the sort and the refresh    *)
(* token change, statuses arrive, and filters are switched.                *)
(***************************************************************************)
EXTENDS PaneFetch

CONSTANTS
    Queries,     \* what the pane can be asked to show: path, sortBy, sortDir
    Names,       \* the names their entries can have
    Openings,    \* those it may begin with
    Directories, \* what the directories may hold, or Missing
    Filters,     \* the filters that are switched
    Statuses,    \* the statuses the poll may bring, a set of functions
    MaxChanges,  \* how often path, sort or refresh token change
    MayFail,     \* a listing may be answered with a failure
    MayBeLost,   \* or not at all: fetch throws, and nothing catches it
    Steady       \* statuses and filters change only while nothing is fetched

ASSUME Switches == { MayFail, MayBeLost, Steady } \subseteq BOOLEAN /\ MaxChanges \in Nat
ASSUME PaneIsAskable ==
    Openings \subseteq Queries /\ \A names \in Directories : IsFiniteSet(names)

VARIABLES
    pane,
    query,        \* what it is to show now
    directories,  \* per path, the names in it, or Missing
    statusByName, filters,
    answers,      \* the answers on their way, each with the fetch it is for
    changes

vars == << pane, query, directories, statusByName, filters, answers, changes >>

Missing == { 0 }

Paths == { asked.path : asked \in Queries }

\* What fetchPage is told: 404, another failure, or a page.
Listing(fetch) ==
    LET names == directories[fetch.query.path]
    IN  IF names = Missing THEN [status |-> "not_found"]
        ELSE ListDirectory(names, fetch.query, fetch.offset)

Renders(changed) == pane' = Rendered(changed, query', statusByName', filters')

HasAnswer(fetch) == \E answer \in answers : answer.fetch = fetch

ServerLists(fetch) ==
    /\ fetch \in pane.fetches /\ ~HasAnswer(fetch)
    /\ answers' = answers \cup { [fetch |-> fetch, result |-> Listing(fetch)] }
    /\ UNCHANGED << pane, query, directories, statusByName, filters, changes >>

ListingFails(fetch, status) ==
    /\ IF status = "lost" THEN MayBeLost ELSE MayFail
    /\ fetch \in pane.fetches /\ ~HasAnswer(fetch)
    /\ answers' = answers \cup { [fetch |-> fetch, result |-> [status |-> status]] }
    /\ UNCHANGED << pane, query, directories, statusByName, filters, changes >>

AnswerArrives(answer) ==
    /\ answers' = answers \ { answer }
    /\ UNCHANGED << query, directories, statusByName, filters, changes >>
    /\ Renders(Answered(pane, answer.fetch, answer.result, statusByName, filters))

\* The effect that resets the pane, for a new path or sort, or a bumped token.
ChangeQuery(asked) ==
    /\ changes < MaxChanges /\ changes' = changes + 1
    /\ query' = asked
    /\ UNCHANGED << directories, statusByName, filters, answers >>
    /\ Renders(FetchFromOffset(pane, asked, 0, TRUE))

LoadMoreClicked ==
    /\ pane.hasMore /\ ~pane.loading
    /\ ~pane.notFound /\ ~pane.error
    /\ UNCHANGED << query, directories, statusByName, filters, answers, changes >>
    /\ Renders(LoadMore(pane, query))

\* Props of the parent; Steady: they change only between two fetches.
IsSteady == Steady => ~pane.busy

StatusesArrive(statuses) ==
    /\ IsSteady
    /\ statusByName' = statuses
    /\ UNCHANGED << query, directories, filters, answers, changes >>
    /\ Renders(pane)

SwitchFilter(filter) ==
    /\ IsSteady
    /\ filters' = IF filter \in filters THEN filters \ { filter } ELSE filters \cup { filter }
    /\ UNCHANGED << query, directories, statusByName, answers, changes >>
    /\ Renders(pane)

\* The first effect has asked for the first page.
Init ==
    /\ query \in Openings
    /\ directories \in [Paths -> Directories]
    /\ pane = FetchFromOffset(NewPane, query, 0, TRUE)
    /\ statusByName = [name \in Names |-> "none"]
    /\ filters \in SUBSET Filters
    /\ answers = {} /\ changes = 0

Arrival ==
    \/ \E fetch \in pane.fetches : ServerLists(fetch)
    \/ \E answer \in answers : AnswerArrives(answer)

Next ==
    \/ Arrival
    \/ \E fetch \in pane.fetches, status \in { "error", "lost" } : ListingFails(fetch, status)
    \/ \E asked \in Queries : ChangeQuery(asked)
    \/ LoadMoreClicked
    \/ \E statuses \in Statuses : StatusesArrive(statuses)
    \/ \E filter \in Filters : SwitchFilter(filter)

\* Requests are answered.
Spec == Init /\ [][Next]_vars /\ WF_vars(Arrival)

-----------------------------------------------------------------------------

Live(fetch) == fetch.generation = pane.generation

TypeOK ==
    /\ query \in Queries /\ filters \subseteq Filters
    /\ \A i \in DOMAIN pane.entries : pane.entries[i] \in Names
    /\ \A fetch \in pane.fetches : fetch.query \in Queries
    /\ \A answer \in answers : answer.fetch \in pane.fetches

\* Refs, spinner and requests agree: the pane is busy exactly while one fetch of
\* its generation is under way, so none is lost and no two append the same page.
OneLiveFetch ==
    /\ pane.busy = pane.loading
    /\ pane.busy => \E fetch \in pane.fetches : Live(fetch)
    /\ \A fetch, other \in pane.fetches :
        Live(fetch) /\ Live(other) => pane.busy /\ fetch = other

\* Whatever overtook what: a pane that is not loading shows the beginning of the
\* directory it is at, in the order it is sorted by, each entry once, and offers
\* more exactly if there is more. (Of a directory that changes between two pages
\* nothing is promised, and none does here.)
RowsAreTheListing ==
    ~pane.loading /\ ~pane.error =>
        LET names == directories[query.path]
        IN  IF names = Missing THEN pane.notFound /\ pane.entries = << >>
            ELSE /\ ~pane.notFound
                 /\ Len(pane.entries) <= Cardinality(names)
                 /\ pane.entries = SubSeq(Sorted(names, query), 1, Len(pane.entries))
                 /\ pane.hasMore <=> Len(pane.entries) < Cardinality(names)

\* With a filter on, a pane at rest shows a page of rows, or all there are, or
\* has fetched as many pages as one call may; and no call fetches more.
EnoughIsVisible ==
    /\ ~pane.loading /\ filters # {} /\ pane.hasMore =>
        \/ CountVisible(pane.entries, statusByName, filters) >= PageSize
        \/ Len(pane.entries) >= MaxAutoPages * PageSize
    /\ \A fetch \in pane.fetches : fetch.pages < MaxAutoPages

\* No change of path, sort or filter leaves the pane loading for good.
LoadingEnds == pane.loading ~> ~pane.loading
=============================================================================
