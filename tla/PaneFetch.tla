------------------------------ MODULE PaneFetch ------------------------------
(***************************************************************************)
(* A pane of the comparison page, as functions of its state: the listing   *)
(* the server gives it (application/directory-comparison/list-directory.ts)*)
(* and fetchFromOffset (comparison-pane.tsx), the one way in which rows    *)
(* come into it.                                                           *)
(*                                                                         *)
(* A name is a number, localeCompare its order. A query is the pane's path *)
(* and sort; Rank[sortBy][name] is the number the server sorts by.         *)
(***************************************************************************)
EXTENDS Naturals, Sequences, FiniteSets

CONSTANTS
    PageSize,      \* how many entries the server is asked for at once
    MaxAutoPages,  \* how many pages one call fetches of its own accord
    Rank

ASSUME PagesAreSome == PageSize \in Nat \ {0} /\ MaxAutoPages \in Nat \ {0}

-----------------------------------------------------------------------------
(* The server. *)

\* Equal ranks are ordered by name, upwards whatever the direction.
Precedes(query, a, b) ==
    LET rank == Rank[query.sortBy]
        up == query.sortDir = "asc"
    IN  IF rank[a] = rank[b] /\ query.sortBy # "name" THEN a < b
        ELSE IF up THEN rank[a] < rank[b] ELSE rank[b] < rank[a]

Sorted(names, query) ==
    [i \in 1..Cardinality(names) |->
        CHOOSE name \in names :
            Cardinality({ other \in names : Precedes(query, other, name) }) = i - 1]

\* Sorted as a whole, then cut.
ListDirectory(names, query, offset) ==
    LET sorted == Sorted(names, query)
        hasMore == offset + PageSize < Len(sorted)
    IN  [status |-> "ok", hasMore |-> hasMore,
         entries |-> SubSeq(sorted, offset + 1,
                            IF hasMore THEN offset + PageSize ELSE Len(sorted))]

-----------------------------------------------------------------------------
(* What is hidden. A name without a status is "none". *)

MatchingStatuses == { "matching", "matching_empty" }

IsEntryHidden(name, statusByName, filters) ==
    \/ "matching" \in filters /\ statusByName[name] \in MatchingStatuses
    \/ "ignored" \in filters /\ statusByName[name] = "ignored"

\* The positions of the rows that are shown.
VisibleEntries(entries, statusByName, filters) ==
    { i \in DOMAIN entries : ~IsEntryHidden(entries[i], statusByName, filters) }

CountVisible(entries, statusByName, filters) ==
    Cardinality(VisibleEntries(entries, statusByName, filters))

\* Mutant of NeedsMoreVisible: more is fetched only when nothing at all is shown.
ShowsNothing(pane, statusByName, filters) ==
    filters # {} /\ CountVisible(pane.entries, statusByName, filters) = 0

NeedsMoreVisible(pane, statusByName, filters) ==
    filters # {} /\ CountVisible(pane.entries, statusByName, filters) < PageSize

-----------------------------------------------------------------------------
(* The pane: `generation` and `busy` are its two refs, `seen` the values   *)
(* with which its auto-continue effect last ran; `fetches` are the calls   *)
(* of fetchFromOffset that await an answer.                                *)

NewPane ==
    [entries |-> << >>, hasMore |-> FALSE, loading |-> FALSE, notFound |-> FALSE,
     error |-> FALSE, generation |-> 0, busy |-> FALSE, seen |-> << FALSE, FALSE >>,
     fetches |-> {}]

\* Mutant of FetchFromOffset: a reset too is refused while something is fetched.
FetchUnlessBusy(pane, query, offset, reset) ==
    IF pane.busy THEN pane
    ELSE LET generation == pane.generation + (IF reset THEN 1 ELSE 0)
         IN  [pane EXCEPT
                !.generation = generation, !.busy = TRUE, !.loading = TRUE,
                !.fetches = @ \cup { [generation |-> generation, query |-> query,
                                      reset |-> reset, offset |-> offset,
                                      collected |-> IF reset THEN << >> ELSE pane.entries,
                                      pages |-> 0, visible |-> 0] }]

\* A reset goes ahead at any time; anything else only if nothing is fetched.
FetchFromOffset(pane, query, offset, reset) ==
    IF ~reset /\ pane.busy THEN pane
    ELSE LET generation == pane.generation + (IF reset THEN 1 ELSE 0)
         IN  [pane EXCEPT
                !.generation = generation, !.busy = TRUE, !.loading = TRUE,
                !.fetches = @ \cup { [generation |-> generation, query |-> query,
                                      reset |-> reset, offset |-> offset,
                                      collected |-> IF reset THEN << >> ELSE pane.entries,
                                      pages |-> 0, visible |-> 0] }]

LoadMore(pane, query) == FetchFromOffset(pane, query, Len(pane.entries), FALSE)

\* Only the fetch that is still current clears the flags.
Ended(pane, fetch) ==
    [pane EXCEPT !.busy = FALSE, !.loading = FALSE, !.fetches = @ \ { fetch }]

\* Mutant of Superseded: no fetch ever takes itself for an old one.
NeverSuperseded(pane, fetch) == FALSE

Superseded(pane, fetch) == fetch.generation # pane.generation

KeepGoing(fetch, visible, page, filters) ==
    filters # {} /\ visible < PageSize /\ page.hasMore /\ fetch.pages + 1 < MaxAutoPages

PageCame(pane, fetch, page, statusByName, filters) ==
    LET collected == fetch.collected \o page.entries
        visible == fetch.visible + CountVisible(page.entries, statusByName, filters)
        shown == [pane EXCEPT !.notFound = FALSE, !.error = FALSE,
                              !.entries = collected, !.hasMore = page.hasMore]
    IN  IF ~KeepGoing(fetch, visible, page, filters) THEN Ended(shown, fetch)
        ELSE [shown EXCEPT !.fetches = (@ \ { fetch }) \cup
                { [fetch EXCEPT !.collected = collected, !.visible = visible,
                                !.pages = @ + 1, !.offset = @ + PageSize] }]

Answered(pane, fetch, answer, statusByName, filters) ==
    IF Superseded(pane, fetch) THEN [pane EXCEPT !.fetches = @ \ { fetch }]
    ELSE CASE answer.status = "not_found" ->
                Ended([pane EXCEPT !.notFound = TRUE, !.error = FALSE,
                                   !.entries = << >>, !.hasMore = FALSE], fetch)
           [] answer.status = "error" ->
                Ended([pane EXCEPT !.notFound = FALSE, !.error = TRUE, !.hasMore = FALSE,
                                   !.entries = IF fetch.reset THEN << >> ELSE @], fetch)
           [] answer.status = "lost" -> Ended(pane, fetch)
           [] answer.status = "ok" -> PageCame(pane, fetch, answer, statusByName, filters)

\* The effect of a render, run before the next one: it acts when one of its two
\* values is another than the last time.
Rendered(pane, query, statusByName, filters) ==
    LET values == << NeedsMoreVisible(pane, statusByName, filters), pane.hasMore >>
        noted == [pane EXCEPT !.seen = values]
    IN  IF pane.seen # values /\ values = << TRUE, TRUE >> THEN LoadMore(noted, query)
        ELSE noted
=============================================================================
