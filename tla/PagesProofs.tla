------------------------- MODULE PagesProofs -------------------------
(***************************************************************************)
(* Proofs about the pages: for every page size, every directory and every  *)
(* bound, the refs and the spinner of a comparison pane agree with the     *)
(* requests under way, and what a pane at rest shows is the beginning of   *)
(* the directory it is at; the Count and Size page at rest shows the       *)
(* directory it names; the comparison page at rest shows the statuses and  *)
(* the entries there are, and none of its operations loses a content; the  *)
(* duplicate finder at rest shows its results and the copies there are.    *)
(***************************************************************************)
EXTENDS Pages, FiniteSetTheorems, FunctionTheorems, SequenceTheorems, TLAPS

-----------------------------------------------------------------------------
(* The bookkeeping of a pane, whichever function changed it last. *)

IsFetch(fetch) ==
    /\ fetch = [generation |-> fetch.generation, query |-> fetch.query,
                reset |-> fetch.reset, offset |-> fetch.offset,
                collected |-> fetch.collected, pages |-> fetch.pages,
                visible |-> fetch.visible]
    /\ fetch.generation \in Nat
    /\ fetch.pages \in Nat /\ fetch.pages < MaxAutoPages

HasFields(p) ==
    p = [entries |-> p.entries, hasMore |-> p.hasMore, loading |-> p.loading,
         notFound |-> p.notFound, error |-> p.error, generation |-> p.generation,
         busy |-> p.busy, seen |-> p.seen, fetches |-> p.fetches]

IsPane(p) ==
    /\ HasFields(p)
    /\ p.generation \in Nat /\ p.busy \in BOOLEAN /\ p.loading = p.busy
    /\ \A fetch \in p.fetches : IsFetch(fetch)

\* The live fetch is the only one, and there is one exactly while the pane is busy;
\* no fetch is ahead of the pane.
Booked(p) ==
    /\ IsPane(p)
    /\ \A fetch \in p.fetches : fetch.generation <= p.generation
    /\ p.busy => \E fetch \in p.fetches : fetch.generation = p.generation
    /\ \A fetch, other \in p.fetches :
        fetch.generation = p.generation /\ other.generation = p.generation
            => p.busy /\ fetch = other

\* A call either changes nothing or starts the one live fetch.
LEMMA FetchBooked ==
    ASSUME NEW p, Booked(p), NEW asked, NEW offset, NEW reset \in BOOLEAN
    PROVE  /\ Booked(FetchFromOffset(p, asked, offset, reset))
           /\ p.fetches \subseteq FetchFromOffset(p, asked, offset, reset).fetches
  <1> DEFINE q == FetchFromOffset(p, asked, offset, reset)
             generation == p.generation + (IF reset THEN 1 ELSE 0)
             new == [generation |-> generation, query |-> asked, reset |-> reset,
                     offset |-> offset,
                     collected |-> IF reset THEN << >> ELSE p.entries,
                     pages |-> 0, visible |-> 0]
  <1>1. CASE ~reset /\ p.busy
    BY <1>1 DEF FetchFromOffset
  <1>2. CASE reset \/ ~p.busy
    <2>1. q = [p EXCEPT !.generation = generation, !.busy = TRUE, !.loading = TRUE,
                        !.fetches = @ \cup { new }]
      BY <1>2 DEF FetchFromOffset, Booked, IsPane
    <2>2. q = [entries |-> p.entries, hasMore |-> p.hasMore, loading |-> TRUE,
               notFound |-> p.notFound, error |-> p.error, generation |-> generation,
               busy |-> TRUE, seen |-> p.seen, fetches |-> p.fetches \cup { new }]
      BY <2>1 DEF Booked, IsPane, HasFields
    <2>3. generation \in Nat /\ p.generation \in Nat
      BY DEF Booked, IsPane, HasFields
    <2>4. IsFetch(new)
      BY <2>3, PagesAreSome DEF IsFetch
    <2>5. IsPane(q)
      BY <2>2, <2>3, <2>4 DEF IsPane, HasFields, Booked
    <2>6. \A fetch \in p.fetches : fetch.generation \in Nat /\ fetch.generation < generation
      BY <1>2, <2>3 DEF Booked, IsPane, HasFields, IsFetch
    <2>7. new.generation = generation /\ q.generation = generation /\ q.busy
          /\ q.fetches = p.fetches \cup { new }
      BY <2>2
    <2> HIDE DEF q, new, generation
    <2>8. Booked(q)
      BY <2>3, <2>5, <2>6, <2>7 DEF Booked
    <2> QED
      BY <2>7, <2>8 DEF q
  <1> QED
    BY <1>1, <1>2 DEF Booked, IsPane, HasFields

\* The effect of a render changes what it noted, and may start a fetch.
LEMMA RenderedBooked ==
    ASSUME NEW p, Booked(p), NEW asked, NEW byName, NEW switched
    PROVE  /\ Booked(Rendered(p, asked, byName, switched))
           /\ p.fetches \subseteq Rendered(p, asked, byName, switched).fetches
  <1> DEFINE values == << NeedsMoreVisible(p, byName, switched), p.hasMore >>
             noted == [p EXCEPT !.seen = values]
  <1>1. noted = [entries |-> p.entries, hasMore |-> p.hasMore, loading |-> p.loading,
                 notFound |-> p.notFound, error |-> p.error, generation |-> p.generation,
                 busy |-> p.busy, seen |-> values, fetches |-> p.fetches]
    BY DEF Booked, IsPane, HasFields
  <1>2. \/ Rendered(p, asked, byName, switched) = noted
        \/ Rendered(p, asked, byName, switched) =
             FetchFromOffset(noted, asked, Len(noted.entries), FALSE)
    BY DEF Rendered, LoadMore
  <1> HIDE DEF values
  <1>3. Booked(noted) /\ noted.fetches = p.fetches
    BY <1>1 DEF Booked, IsPane, HasFields
  <1> HIDE DEF noted
  <1> QED
    BY <1>2, <1>3, FetchBooked

-----------------------------------------------------------------------------
(* Answers. *)

Answer(result) == result.status \in { "not_found", "error", "lost", "ok" }

\* Whatever fields an answer sets, the fetch it ends is the one that goes, and the
\* pane stops loading.
LEMMA EndedBooked ==
    ASSUME NEW p, Booked(p), NEW fetch \in p.fetches, fetch.generation = p.generation,
           NEW q, IsPane(q), q.generation = p.generation, q.fetches = p.fetches
    PROVE  /\ Booked(Ended(q, fetch))
           /\ Ended(q, fetch).fetches = p.fetches \ { fetch }
  <1>0. HasFields(q)
    BY DEF IsPane
  <1> DEFINE ended == Ended(q, fetch)
  <1>a. ended = [q EXCEPT !.busy = FALSE, !.loading = FALSE, !.fetches = @ \ { fetch }]
    BY DEF Ended
  <1> HIDE DEF ended
  <1>1. ended =
          [entries |-> q.entries, hasMore |-> q.hasMore, loading |-> FALSE,
           notFound |-> q.notFound, error |-> q.error, generation |-> q.generation,
           busy |-> FALSE, seen |-> q.seen, fetches |-> q.fetches \ { fetch }]
    BY <1>0, <1>a DEF HasFields
  <1>2. /\ IsPane(ended) /\ ended.generation = p.generation
        /\ ended.busy = FALSE /\ ended.fetches = p.fetches \ { fetch }
    BY <1>1 DEF IsPane, HasFields
  <1>3. \A other \in p.fetches \ { fetch } : other.generation # p.generation
    BY DEF Booked
  <1>4. Booked(ended)
    BY <1>2, <1>3 DEF Booked
  <1> QED
    BY <1>2, <1>4 DEF ended

\* The answer of an old fetch only goes.
LEMMA SupersededBooked ==
    ASSUME NEW p, Booked(p), NEW fetch \in p.fetches, fetch.generation # p.generation,
           NEW q, q = [p EXCEPT !.fetches = @ \ { fetch }]
    PROVE  Booked(q) /\ q.fetches = p.fetches \ { fetch }
  <1>0. HasFields(p)
    BY DEF Booked, IsPane
  <1>1. q = [entries |-> p.entries, hasMore |-> p.hasMore, loading |-> p.loading,
             notFound |-> p.notFound, error |-> p.error, generation |-> p.generation,
             busy |-> p.busy, seen |-> p.seen, fetches |-> p.fetches \ { fetch }]
    BY <1>0 DEF HasFields
  <1>2. IsPane(q) /\ q.generation = p.generation /\ q.busy = p.busy
        /\ q.fetches = p.fetches \ { fetch }
    BY <1>1 DEF Booked, IsPane, HasFields
  <1> QED
    BY <1>2 DEF Booked

\* A page ends its fetch, or the fetch goes on to the next one in its place.
LEMMA PageBooked ==
    ASSUME NEW p, Booked(p), NEW fetch \in p.fetches, fetch.generation = p.generation,
           NEW page, NEW byName, NEW switched
    PROVE  /\ Booked(PageCame(p, fetch, page, byName, switched))
           /\ p.fetches \ { fetch } \subseteq
                PageCame(p, fetch, page, byName, switched).fetches
  <1> DEFINE collected == fetch.collected \o page.entries
             visible == fetch.visible + CountVisible(page.entries, byName, switched)
             shown == [p EXCEPT !.notFound = FALSE, !.error = FALSE,
                                !.entries = collected, !.hasMore = page.hasMore]
             next == [fetch EXCEPT !.collected = collected, !.visible = visible,
                                   !.pages = @ + 1, !.offset = @ + PageSize]
             q == PageCame(p, fetch, page, byName, switched)
  <1>0. HasFields(p)
    BY DEF Booked, IsPane
  <1>a. shown = [p EXCEPT !.notFound = FALSE, !.error = FALSE,
                          !.entries = collected, !.hasMore = page.hasMore]
    OBVIOUS
  <1> HIDE DEF shown
  <1>1. shown = [entries |-> collected, hasMore |-> page.hasMore, loading |-> p.loading,
                 notFound |-> FALSE, error |-> FALSE, generation |-> p.generation,
                 busy |-> p.busy, seen |-> p.seen, fetches |-> p.fetches]
    BY <1>0, <1>a DEF HasFields
  <1>2. /\ IsPane(shown) /\ shown.generation = p.generation
        /\ shown.fetches = p.fetches /\ shown.busy = p.busy
    BY <1>1 DEF Booked, IsPane, HasFields
  <1>3. CASE ~KeepGoing(fetch, visible, page, switched)
    <2>1. q = Ended(shown, fetch)
      BY <1>3 DEF PageCame, shown
    <2> HIDE DEF q
    <2> QED
      BY <2>1, <1>2, EndedBooked DEF q
  <1>4. CASE KeepGoing(fetch, visible, page, switched)
    <2>1. q = [shown EXCEPT !.fetches = (@ \ { fetch }) \cup { next }]
      BY <1>4 DEF PageCame, shown
    <2>2. IsFetch(fetch)
      BY DEF Booked, IsPane, HasFields
    <2>3. fetch.pages + 1 < MaxAutoPages
      BY <1>4 DEF KeepGoing
    <2>a. next = [fetch EXCEPT !.collected = collected, !.visible = visible,
                               !.pages = @ + 1, !.offset = @ + PageSize]
      OBVIOUS
    <2> HIDE DEF collected, visible, next
    <2>4. next = [generation |-> fetch.generation, query |-> fetch.query,
                  reset |-> fetch.reset, offset |-> fetch.offset + PageSize,
                  collected |-> collected, pages |-> fetch.pages + 1,
                  visible |-> visible]
      BY <2>2, <2>a DEF IsFetch
    <2>5. IsFetch(next) /\ next.generation = p.generation
      BY <2>2, <2>3, <2>4 DEF IsFetch
    <2> HIDE DEF q
    <2>6. q = [entries |-> shown.entries, hasMore |-> shown.hasMore,
               loading |-> shown.loading, notFound |-> shown.notFound,
               error |-> shown.error, generation |-> shown.generation,
               busy |-> shown.busy, seen |-> shown.seen,
               fetches |-> (p.fetches \ { fetch }) \cup { next }]
      BY <2>1, <1>2 DEF IsPane, HasFields
    <2>7. /\ IsPane(q) /\ q.generation = p.generation /\ q.busy = p.busy
          /\ q.fetches = (p.fetches \ { fetch }) \cup { next }
      BY <2>5, <2>6, <1>2 DEF IsPane, HasFields
    <2>8. p.busy /\ \A other \in p.fetches \ { fetch } : other.generation # p.generation
      BY DEF Booked
    <2>9. p.generation \in Nat
      BY DEF Booked, IsPane, HasFields
    <2>10. Booked(q)
      BY <2>5, <2>7, <2>8, <2>9 DEF Booked
    <2> QED
      BY <2>7, <2>10 DEF q
  <1> QED
    BY <1>3, <1>4

\* An answer takes its own fetch away, or on to the next page, and no other.
LEMMA AnsweredBooked ==
    ASSUME NEW p, Booked(p), NEW fetch \in p.fetches, NEW answer, Answer(answer),
           NEW byName, NEW switched
    PROVE  /\ Booked(Answered(p, fetch, answer, byName, switched))
           /\ p.fetches \ { fetch } \subseteq
                Answered(p, fetch, answer, byName, switched).fetches
  <1> DEFINE q == Answered(p, fetch, answer, byName, switched)
  <1>0. HasFields(p)
    BY DEF Booked, IsPane
  <1>1. CASE fetch.generation # p.generation
    <2>1. q = [p EXCEPT !.fetches = @ \ { fetch }]
      BY <1>1 DEF Answered, Superseded
    <2> HIDE DEF q
    <2> QED
      BY <1>1, <2>1, SupersededBooked DEF q
  <1>2. CASE fetch.generation = p.generation
    <2>1. CASE answer.status = "not_found"
      <3> DEFINE r == [p EXCEPT !.notFound = TRUE, !.error = FALSE,
                                !.entries = << >>, !.hasMore = FALSE]
      <3>1. q = Ended(r, fetch)
        BY <1>2, <2>1 DEF Answered, Superseded
      <3>a. r = [p EXCEPT !.notFound = TRUE, !.error = FALSE,
                          !.entries = << >>, !.hasMore = FALSE]
        OBVIOUS
      <3> HIDE DEF r
      <3>2. r = [entries |-> << >>, hasMore |-> FALSE, loading |-> p.loading,
                 notFound |-> TRUE, error |-> FALSE, generation |-> p.generation,
                 busy |-> p.busy, seen |-> p.seen, fetches |-> p.fetches]
        BY <1>0, <3>a DEF HasFields
      <3>3. IsPane(r) /\ r.generation = p.generation /\ r.fetches = p.fetches
        BY <3>2 DEF Booked, IsPane, HasFields
      <3> HIDE DEF q
      <3> QED
        BY <1>2, <3>1, <3>3, EndedBooked DEF q
    <2>2. CASE answer.status = "error"
      <3> DEFINE r == [p EXCEPT !.notFound = FALSE, !.error = TRUE, !.hasMore = FALSE,
                                !.entries = IF fetch.reset THEN << >> ELSE @]
      <3>1. q = Ended(r, fetch)
        BY <1>2, <2>2 DEF Answered, Superseded
      <3>a. r = [p EXCEPT !.notFound = FALSE, !.error = TRUE, !.hasMore = FALSE,
                          !.entries = IF fetch.reset THEN << >> ELSE @]
        OBVIOUS
      <3> HIDE DEF r
      <3>2. r = [entries |-> IF fetch.reset THEN << >> ELSE p.entries,
                 hasMore |-> FALSE, loading |-> p.loading,
                 notFound |-> FALSE, error |-> TRUE, generation |-> p.generation,
                 busy |-> p.busy, seen |-> p.seen, fetches |-> p.fetches]
        BY <1>0, <3>a DEF HasFields
      <3>3. IsPane(r) /\ r.generation = p.generation /\ r.fetches = p.fetches
        BY <3>2 DEF Booked, IsPane, HasFields
      <3> HIDE DEF q
      <3> QED
        BY <1>2, <3>1, <3>3, EndedBooked DEF q
    <2>3. CASE answer.status = "lost"
      <3>1. q = Ended(p, fetch)
        BY <1>2, <2>3 DEF Answered, Superseded
      <3>2. IsPane(p)
        BY DEF Booked
      <3> HIDE DEF q
      <3> QED
        BY <1>2, <3>1, <3>2, EndedBooked DEF q
    <2>4. CASE answer.status = "ok"
      <3>1. q = PageCame(p, fetch, answer, byName, switched)
        BY <1>2, <2>4 DEF Answered, Superseded
      <3> HIDE DEF q
      <3> QED
        BY <1>2, <3>1, PageBooked DEF q
    <2> QED
      BY <2>1, <2>2, <2>3, <2>4 DEF Answer
  <1> QED
    BY <1>1, <1>2

-----------------------------------------------------------------------------
(* The invariant: the pane is booked, and every answer is the only one for a *)
(* fetch that is under way.                                                  *)

AnswersAreAwaited ==
    /\ \A answer \in answers : answer.fetch \in pane.fetches /\ Answer(answer.result)
    /\ \A answer, other \in answers : answer.fetch = other.fetch => answer = other

IInv == Booked(pane) /\ AnswersAreAwaited

LEMMA NewPaneBooked == Booked(NewPane)
  <1>1. NewPane.fetches = {} /\ NewPane.generation = 0 /\ ~NewPane.busy
    BY DEF NewPane
  <1>2. IsPane(NewPane)
    BY DEF NewPane, IsPane, HasFields
  <1> QED
    BY <1>1, <1>2 DEF Booked

LEMMA InitInv == Init => IInv
  <1> SUFFICES ASSUME Init PROVE IInv
    OBVIOUS
  <1>1. Booked(FetchFromOffset(NewPane, query, 0, TRUE))
    BY NewPaneBooked, FetchBooked
  <1> QED
    BY <1>1 DEF Init, IInv, AnswersAreAwaited

\* A new answer for a fetch that has none.
LEMMA AnswerSent ==
    ASSUME IInv, NEW fetch \in pane.fetches, ~HasAnswer(fetch), NEW result, Answer(result),
           answers' = answers \cup { [fetch |-> fetch, result |-> result] },
           pane' = pane
    PROVE  IInv'
  <1>1. Booked(pane')
    BY DEF IInv
  <1>2. AnswersAreAwaited'
    BY DEF IInv, AnswersAreAwaited, HasAnswer, Answer
  <1> QED
    BY <1>1, <1>2 DEF IInv, Booked, IsPane, HasFields, IsFetch

\* A render after a change that leaves the awaited fetches in place.
LEMMA RenderKeeps ==
    ASSUME NEW changed, Booked(changed), Renders(changed),
           \A answer \in answers' : answer.fetch \in changed.fetches /\ Answer(answer.result),
           \A answer, other \in answers' : answer.fetch = other.fetch => answer = other
    PROVE  IInv'
  <1>1. Booked(pane') /\ changed.fetches \subseteq pane'.fetches
    BY RenderedBooked DEF Renders
  <1>2. AnswersAreAwaited'
    BY <1>1 DEF AnswersAreAwaited, Answer
  <1> QED
    BY <1>1, <1>2 DEF IInv, Booked, IsPane, HasFields, IsFetch

LEMMA NextInv == IInv /\ [Next]_vars => IInv'
  <1> SUFFICES ASSUME IInv, [Next]_vars PROVE IInv'
    OBVIOUS
  <1>0. Booked(pane) /\ AnswersAreAwaited
    BY DEF IInv
  <1>1. ASSUME NEW fetch \in pane.fetches, ServerLists(fetch) PROVE IInv'
    <2>1. Answer(Listing(fetch))
      BY DEF Answer, Listing, ListDirectory
    <2> QED
      BY <1>1, <2>1, AnswerSent DEF ServerLists
  <1>2. ASSUME NEW fetch \in pane.fetches, NEW kind \in { "error", "lost" },
               ListingFails(fetch, kind)
        PROVE  IInv'
    <2>1. Answer([status |-> kind])
      BY DEF Answer
    <2> QED
      BY <1>2, <2>1, AnswerSent DEF ListingFails
  <1>3. ASSUME NEW answer \in answers, AnswerArrives(answer) PROVE IInv'
    <2> DEFINE changed == Answered(pane, answer.fetch, answer.result, statusByName, filters)
    <2>1. answer.fetch \in pane.fetches /\ Answer(answer.result)
      BY <1>0 DEF AnswersAreAwaited
    <2>2. Booked(changed) /\ pane.fetches \ { answer.fetch } \subseteq changed.fetches
      BY <1>0, <2>1, AnsweredBooked
    <2>3. Renders(changed) /\ answers' = answers \ { answer }
      BY <1>3 DEF AnswerArrives
    <2> HIDE DEF changed
    <2> QED
      BY <1>0, <2>2, <2>3, RenderKeeps DEF AnswersAreAwaited
  <1>4. ASSUME NEW asked \in Queries, ChangeQuery(asked) PROVE IInv'
    BY <1>0, <1>4, FetchBooked, RenderKeeps DEF ChangeQuery, AnswersAreAwaited
  <1>5. ASSUME LoadMoreClicked PROVE IInv'
    BY <1>0, <1>5, FetchBooked, RenderKeeps DEF LoadMoreClicked, LoadMore, AnswersAreAwaited
  <1>6. ASSUME NEW byName, StatusesArrive(byName) PROVE IInv'
    BY <1>0, <1>6, RenderKeeps DEF StatusesArrive, AnswersAreAwaited
  <1>7. ASSUME NEW filter, SwitchFilter(filter) PROVE IInv'
    BY <1>0, <1>7, RenderKeeps DEF SwitchFilter, AnswersAreAwaited
  <1>8. CASE UNCHANGED vars
    BY <1>0, <1>8 DEF vars, IInv, Booked, IsPane, HasFields, IsFetch, AnswersAreAwaited, Answer
  <1> QED
    BY <1>1, <1>2, <1>3, <1>4, <1>5, <1>6, <1>7, <1>8 DEF Next, Arrival

\* Of the calls that overtake one another in a pane, however many and for whatever
\* path, sort and page, exactly the last is live while the pane is busy and none
\* is when it is not: OneLiveFetch, for every page size and every directory.
THEOREM PaneHasOneLiveFetch == Spec => []OneLiveFetch
  <1>1. IInv => OneLiveFetch
    BY DEF IInv, Booked, IsPane, OneLiveFetch, Live
  <1> QED
    BY <1>1, InitInv, NextInv, PTL DEF Spec

-----------------------------------------------------------------------------
(* The beginning of a listing, and the page that goes on from it. *)

Prefix(listed, s) ==
    Len(listed) \in Nat /\ Len(listed) <= Len(s) /\ listed = SubSeq(s, 1, Len(listed))

LEMMA SortedIsSeq ==
    ASSUME NEW names, IsFiniteSet(names), NEW asked
    PROVE  \E T : /\ Sorted(names, asked) \in Seq(T)
                  /\ Len(Sorted(names, asked)) = Cardinality(names)
  <1> DEFINE s == Sorted(names, asked)
             n == Cardinality(names)
             T == { s[i] : i \in 1..n }
  <1>1. n \in Nat
    BY FS_CardinalityType
  <1>2. s \in [1..n -> T]
    BY DEF Sorted
  <1> HIDE DEF s, T, n
  <1>3. s \in Seq(T) /\ Len(s) = n
    BY <1>1, <1>2
  <1> QED
    BY <1>3 DEF s, n

LEMMA EmptyPrefix ==
    ASSUME NEW T, NEW s \in Seq(T)
    PROVE  Prefix(<< >>, s)
  <1>1. SubSeq(s, 1, 0) = << >>
    BY SubSeqEmpty
  <1> QED
    BY <1>1, LenProperties, EmptySeq DEF Prefix

LEMMA SubSeqsJoin ==
    ASSUME NEW T, NEW s \in Seq(T), NEW k \in Nat, NEW n \in Nat, k <= n, n <= Len(s)
    PROVE  SubSeq(s, 1, k) \o SubSeq(s, k + 1, n) = SubSeq(s, 1, n)
  <1> DEFINE a == SubSeq(s, 1, k)
             b == SubSeq(s, k + 1, n)
             c == SubSeq(s, 1, n)
  <1>0. Len(s) \in Nat /\ \A i \in 1..Len(s) : s[i] \in T
    BY LenProperties, ElementOfSeq
  <1>1. a \in Seq(T) /\ Len(a) = k /\ \A i \in 1..k : a[i] = s[i]
    <2>1. \A i \in 1..k : s[i] \in T
      BY <1>0
    <2> QED
      BY <2>1, SubSeqProperties, Z3
  <1>2. b \in Seq(T) /\ Len(b) = n - k /\ \A i \in 1..(n - k) : b[i] = s[k + i]
    <2>1. \A i \in (k + 1)..n : s[i] \in T
      BY <1>0
    <2>2. /\ b \in Seq(T)
          /\ Len(b) = IF k + 1 <= n THEN n - (k + 1) + 1 ELSE 0
          /\ \A i \in 1..(n - (k + 1) + 1) : b[i] = s[k + 1 + i - 1]
      BY <2>1, SubSeqProperties
    <2> HIDE DEF b
    <2> QED
      BY <2>2
  <1>3. c \in Seq(T) /\ Len(c) = n /\ \A i \in 1..n : c[i] = s[i]
    <2>1. \A i \in 1..n : s[i] \in T
      BY <1>0
    <2> QED
      BY <2>1, SubSeqProperties, Z3
  <1> HIDE DEF a, b, c
  <1>4. /\ a \o b \in Seq(T) /\ Len(a \o b) = n
        /\ \A i \in 1..n : (a \o b)[i] = IF i <= k THEN a[i] ELSE b[i - k]
    <2>1. /\ a \o b \in Seq(T) /\ Len(a \o b) = Len(a) + Len(b)
          /\ \A i \in 1..Len(a) + Len(b) : (a \o b)[i] =
                IF i <= Len(a) THEN a[i] ELSE b[i - Len(a)]
      BY <1>1, <1>2, ConcatProperties
    <2> QED
      BY <2>1, <1>1, <1>2
  <1>5. ASSUME NEW i \in 1..n PROVE (a \o b)[i] = c[i]
    <2>1. CASE i <= k
      <3>1. i \in 1..k
        BY <2>1
      <3> QED
        BY <2>1, <3>1, <1>1, <1>3, <1>4
    <2>2. CASE ~(i <= k)
      <3>1. i - k \in 1..(n - k) /\ k + (i - k) = i
        BY <2>2
      <3>2. b[i - k] = s[k + (i - k)]
        BY <3>1, <1>2
      <3> QED
        BY <2>2, <3>1, <3>2, <1>3, <1>4
    <2> QED
      BY <2>1, <2>2
  <1>6. a \o b = c
    BY <1>3, <1>4, <1>5, SeqEqual
  <1> QED
    BY <1>6 DEF a, b, c

\* A page that goes on where the rows end, says whether there is more, and is a
\* whole one if so.
Continues(listed, page, s) ==
    /\ Prefix(listed \o page.entries, s)
    /\ page.hasMore <=> Len(listed \o page.entries) < Len(s)
    /\ page.hasMore => Len(listed \o page.entries) = Len(listed) + PageSize

\* So does what is asked for where the rows end.
LEMMA PageGoesOn ==
    ASSUME NEW names, IsFiniteSet(names), NEW asked, NEW listed,
           Prefix(listed, Sorted(names, asked))
    PROVE  Continues(listed, ListDirectory(names, asked, Len(listed)), Sorted(names, asked))
  <1> SUFFICES ASSUME NEW page, page = ListDirectory(names, asked, Len(listed))
               PROVE  Continues(listed, page, Sorted(names, asked))
    OBVIOUS
  <1> DEFINE s == Sorted(names, asked)
             k == Len(listed)
             n == IF k + PageSize < Len(s) THEN k + PageSize ELSE Len(s)
  <1>1. PICK T : s \in Seq(T)
    BY SortedIsSeq
  <1>2. page.entries = SubSeq(s, k + 1, n) /\ page.hasMore = (k + PageSize < Len(s))
    BY DEF ListDirectory
  <1>3. k \in Nat /\ Len(s) \in Nat /\ k <= Len(s) /\ listed = SubSeq(s, 1, k)
    BY <1>1, LenProperties DEF Prefix
  <1> HIDE DEF s, k
  <1>4. n \in Nat /\ k <= n /\ n <= Len(s)
    BY <1>3, PagesAreSome
  <1> HIDE DEF n
  <1>5. listed \o page.entries = SubSeq(s, 1, n)
    BY <1>1, <1>2, <1>3, <1>4, SubSeqsJoin
  <1>6. Len(SubSeq(s, 1, n)) = n
    <2>1. \A i \in 1..n : s[i] \in T
      BY <1>1, <1>3, <1>4, ElementOfSeq
    <2> QED
      BY <1>4, <2>1, SubSeqProperties, Z3
  <1>7. Prefix(listed \o page.entries, s) /\ Len(listed \o page.entries) = n
    BY <1>4, <1>5, <1>6 DEF Prefix
  <1>8. CASE k + PageSize < Len(s)
    <2>1. page.hasMore = TRUE /\ n = k + PageSize
      BY <1>2, <1>8 DEF n
    <2>2. n < Len(s)
      BY <1>8, <2>1
    <2> QED
      BY <1>7, <2>1, <2>2 DEF s, k, Continues
  <1>9. CASE ~(k + PageSize < Len(s))
    <2>1. ~page.hasMore
      BY <1>2, <1>9, Zenon
    <2>2. n = Len(s)
      BY <1>9 DEF n
    <2>3. ~(n < Len(s))
      BY <1>3, <2>2
    <2> QED
      BY <1>7, <2>1, <2>3 DEF s, k, Continues
  <1> QED
    BY <1>8, <1>9

-----------------------------------------------------------------------------
(* What a pane knows of the directory it is at: a pane at rest shows the       *)
(* beginning of it, and the live fetch goes on from such a beginning.          *)

At(dirs, asked) == Sorted(dirs[asked.path], asked)

GoesOn(fetch, asked, dirs) ==
    /\ fetch.query = asked
    /\ Prefix(fetch.collected, At(dirs, asked))
    /\ fetch.offset = Len(fetch.collected)

ShowsBeginning(some, more, notFound, asked, dirs) ==
    /\ dirs[asked.path] = Missing => notFound /\ some = << >> /\ ~more
    /\ dirs[asked.path] # Missing =>
        /\ ~notFound /\ Prefix(some, At(dirs, asked))
        /\ more <=> Len(some) < Len(At(dirs, asked))

Right(p, asked, dirs) ==
    /\ \A fetch \in p.fetches :
        fetch.generation = p.generation => GoesOn(fetch, asked, dirs)
    /\ ~p.busy =>
        /\ p.hasMore => ~p.error
        /\ ~p.error => ShowsBeginning(p.entries, p.hasMore, p.notFound, asked, dirs)

\* The live fetch of a pane, and where it is.
LiveIs(p, asked, offset, listed) ==
    p.busy /\ \A fetch \in p.fetches : fetch.generation = p.generation =>
        fetch.query = asked /\ fetch.offset = offset /\ fetch.collected = listed

\* What a call that goes ahead starts.
LEMMA FetchStarts ==
    ASSUME NEW p, Booked(p), NEW asked, NEW offset, NEW reset \in BOOLEAN, reset \/ ~p.busy
    PROVE  LiveIs(FetchFromOffset(p, asked, offset, reset), asked, offset,
                  IF reset THEN << >> ELSE p.entries)
  <1> DEFINE generation == p.generation + (IF reset THEN 1 ELSE 0)
             listed == IF reset THEN << >> ELSE p.entries
             new == [generation |-> generation, query |-> asked, reset |-> reset,
                     offset |-> offset, collected |-> listed, pages |-> 0, visible |-> 0]
             q == FetchFromOffset(p, asked, offset, reset)
  <1>0. HasFields(p) /\ p.generation \in Nat
    BY DEF Booked, IsPane
  <1>1. q = [p EXCEPT !.generation = generation, !.busy = TRUE, !.loading = TRUE,
                      !.fetches = @ \cup { new }]
    BY DEF FetchFromOffset
  <1> HIDE DEF q, listed
  <1>2. q.busy /\ q.generation = generation /\ q.fetches = p.fetches \cup { new }
    BY <1>0, <1>1 DEF HasFields
  <1>3. \A fetch \in p.fetches : fetch.generation # generation
    BY <1>0 DEF Booked, IsPane, IsFetch
  <1>4. LiveIs(q, asked, offset, listed)
    BY <1>2, <1>3 DEF LiveIs
  <1> QED
    BY <1>4 DEF q, listed

\* A new path, sort or token: the rows are collected from the first one on.
LEMMA ResetRight ==
    ASSUME NEW p, Booked(p), NEW asked, NEW dirs, IsFiniteSet(dirs[asked.path])
    PROVE  Right(FetchFromOffset(p, asked, 0, TRUE), asked, dirs)
  <1>1. Prefix(<< >>, At(dirs, asked)) /\ Len(<< >>) = 0
    BY SortedIsSeq, EmptyPrefix DEF At
  <1>2. LiveIs(FetchFromOffset(p, asked, 0, TRUE), asked, 0, << >>)
    BY FetchStarts
  <1> QED
    BY <1>1, <1>2 DEF Right, GoesOn, LiveIs

\* More: they are collected from the rows shown on.
LEMMA LoadMoreRight ==
    ASSUME NEW p, Booked(p), NEW asked, NEW dirs, Right(p, asked, dirs), p.hasMore
    PROVE  Right(LoadMore(p, asked), asked, dirs)
  <1>1. CASE p.busy
    BY <1>1 DEF LoadMore, FetchFromOffset
  <1>2. CASE ~p.busy
    <2>1. Prefix(p.entries, At(dirs, asked))
      BY <1>2 DEF Right, ShowsBeginning
    <2>2. LiveIs(LoadMore(p, asked), asked, Len(p.entries), p.entries)
      BY <1>2, FetchStarts DEF LoadMore
    <2> QED
      BY <2>1, <2>2 DEF Right, GoesOn, LiveIs
  <1> QED
    BY <1>1, <1>2

\* The effect asks for more only where there is more.
LEMMA RenderedRight ==
    ASSUME NEW p, Booked(p), NEW asked, NEW dirs, Right(p, asked, dirs),
           NEW byName, NEW switched
    PROVE  Right(Rendered(p, asked, byName, switched), asked, dirs)
  <1> DEFINE values == << NeedsMoreVisible(p, byName, switched), p.hasMore >>
             noted == [p EXCEPT !.seen = values]
  <1>0. HasFields(p)
    BY DEF Booked, IsPane
  <1>1. noted = [entries |-> p.entries, hasMore |-> p.hasMore, loading |-> p.loading,
                 notFound |-> p.notFound, error |-> p.error, generation |-> p.generation,
                 busy |-> p.busy, seen |-> values, fetches |-> p.fetches]
    BY <1>0 DEF HasFields
  <1>2. \/ Rendered(p, asked, byName, switched) = noted
        \/ /\ Rendered(p, asked, byName, switched) = LoadMore(noted, asked)
           /\ p.hasMore
    BY DEF Rendered
  <1> HIDE DEF values
  <1>3. Booked(noted)
    BY <1>1 DEF Booked, IsPane, HasFields
  <1>4. Right(noted, asked, dirs) /\ noted.hasMore = p.hasMore
    BY <1>1 DEF Right
  <1> HIDE DEF noted
  <1> QED
    BY <1>2, <1>3, <1>4, LoadMoreRight

\* An answer that ends the live fetch leaves the pane at rest with what it set.
LEMMA EndedRight ==
    ASSUME NEW p, Booked(p), NEW fetch \in p.fetches, fetch.generation = p.generation,
           NEW q, HasFields(q), q.generation = p.generation, q.fetches = p.fetches,
           NEW asked, NEW dirs, q.hasMore => ~q.error,
           ~q.error => ShowsBeginning(q.entries, q.hasMore, q.notFound, asked, dirs)
    PROVE  Right(Ended(q, fetch), asked, dirs)
  <1> DEFINE ended == Ended(q, fetch)
  <1>1. ended = [q EXCEPT !.busy = FALSE, !.loading = FALSE, !.fetches = @ \ { fetch }]
    BY DEF Ended
  <1> HIDE DEF ended
  <1>2. ended = [entries |-> q.entries, hasMore |-> q.hasMore, loading |-> FALSE,
                 notFound |-> q.notFound, error |-> q.error, generation |-> q.generation,
                 busy |-> FALSE, seen |-> q.seen, fetches |-> q.fetches \ { fetch }]
    BY <1>1 DEF HasFields
  <1>3. \A other \in p.fetches \ { fetch } : other.generation # p.generation
    BY DEF Booked
  <1>4. Right(ended, asked, dirs)
    BY <1>2, <1>3 DEF Right
  <1> QED
    BY <1>4 DEF ended

\* A page shows a longer beginning, whether or not the call goes on from it.
LEMMA PageRight ==
    ASSUME NEW p, Booked(p), NEW fetch \in p.fetches, fetch.generation = p.generation,
           NEW asked, NEW dirs, GoesOn(fetch, asked, dirs),
           IsFiniteSet(dirs[asked.path]), dirs[asked.path] # Missing,
           NEW page, page = ListDirectory(dirs[asked.path], asked, fetch.offset),
           NEW byName, NEW switched
    PROVE  Right(PageCame(p, fetch, page, byName, switched), asked, dirs)
  <1> DEFINE collected == fetch.collected \o page.entries
             visible == fetch.visible + CountVisible(page.entries, byName, switched)
             shown == [p EXCEPT !.notFound = FALSE, !.error = FALSE,
                                !.entries = collected, !.hasMore = page.hasMore]
             next == [fetch EXCEPT !.collected = collected, !.visible = visible,
                                   !.pages = @ + 1, !.offset = @ + PageSize]
             q == PageCame(p, fetch, page, byName, switched)
  <1>0. HasFields(p) /\ IsFetch(fetch)
    BY DEF Booked, IsPane
  <1>1. /\ Prefix(collected, At(dirs, asked))
        /\ page.hasMore <=> Len(collected) < Len(At(dirs, asked))
        /\ page.hasMore => Len(collected) = fetch.offset + PageSize
    <2>1. /\ Prefix(fetch.collected, Sorted(dirs[asked.path], asked))
          /\ fetch.offset = Len(fetch.collected)
      BY DEF GoesOn, At
    <2>2. page = ListDirectory(dirs[asked.path], asked, Len(fetch.collected))
      BY <2>1
    <2>3. Continues(fetch.collected, page, Sorted(dirs[asked.path], asked))
      BY <2>1, <2>2, PageGoesOn
    <2> QED
      BY <2>1, <2>3 DEF At, Continues
  <1> HIDE DEF collected, visible
  <1>2. shown = [entries |-> collected, hasMore |-> page.hasMore, loading |-> p.loading,
                 notFound |-> FALSE, error |-> FALSE, generation |-> p.generation,
                 busy |-> p.busy, seen |-> p.seen, fetches |-> p.fetches]
    <2>1. shown = [p EXCEPT !.notFound = FALSE, !.error = FALSE,
                            !.entries = collected, !.hasMore = page.hasMore]
      OBVIOUS
    <2> HIDE DEF shown
    <2> QED
      BY <1>0, <2>1 DEF HasFields
  <1>3. CASE ~KeepGoing(fetch, visible, page, switched)
    <2>1. q = Ended(shown, fetch)
      BY <1>3 DEF PageCame, collected, visible
    <2> HIDE DEF q, shown
    <2>2. /\ HasFields(shown) /\ shown.generation = p.generation
          /\ shown.fetches = p.fetches /\ ~shown.error /\ ~shown.notFound
          /\ shown.entries = collected /\ shown.hasMore = page.hasMore
      BY <1>2 DEF HasFields
    <2>3. ShowsBeginning(shown.entries, shown.hasMore, shown.notFound, asked, dirs)
      BY <1>1, <2>2 DEF ShowsBeginning
    <2> QED
      BY <2>1, <2>2, <2>3, EndedRight DEF q
  <1>4. CASE KeepGoing(fetch, visible, page, switched)
    <2>1. q = [shown EXCEPT !.fetches = (@ \ { fetch }) \cup { next }]
      BY <1>4 DEF PageCame, collected, visible
    <2>2. next = [generation |-> fetch.generation, query |-> fetch.query,
                  reset |-> fetch.reset, offset |-> fetch.offset + PageSize,
                  collected |-> collected, pages |-> fetch.pages + 1,
                  visible |-> visible]
      <3>1. next = [fetch EXCEPT !.collected = collected, !.visible = visible,
                                 !.pages = @ + 1, !.offset = @ + PageSize]
        OBVIOUS
      <3> HIDE DEF next
      <3> QED
        BY <1>0, <3>1 DEF IsFetch
    <2> HIDE DEF q, shown, next
    <2>3. q = [entries |-> collected, hasMore |-> page.hasMore, loading |-> p.loading,
               notFound |-> FALSE, error |-> FALSE, generation |-> p.generation,
               busy |-> p.busy, seen |-> p.seen,
               fetches |-> (p.fetches \ { fetch }) \cup { next }]
      BY <1>2, <2>1
    <2>4. page.hasMore
      BY <1>4 DEF KeepGoing
    <2>5. GoesOn(next, asked, dirs)
      <3>1. /\ next.query = fetch.query /\ next.collected = collected
            /\ next.offset = fetch.offset + PageSize
        BY <2>2
      <3> QED
        BY <1>1, <2>4, <3>1 DEF GoesOn
    <2>6. p.busy /\ \A other \in p.fetches \ { fetch } : other.generation # p.generation
      BY DEF Booked
    <2>7. Right(q, asked, dirs)
      BY <2>3, <2>5, <2>6 DEF Right
    <2> QED
      BY <2>7 DEF q
  <1> QED
    BY <1>3, <1>4

\* Whatever a fetch is told, if it is a failure or what the directory holds.
LEMMA AnsweredRight ==
    ASSUME NEW p, Booked(p), NEW fetch \in p.fetches, NEW asked, NEW dirs,
           Right(p, asked, dirs), IsFiniteSet(dirs[asked.path]),
           NEW answer,
           \/ answer.status = "error"
           \/ dirs[fetch.query.path] = Missing /\ answer = [status |-> "not_found"]
           \/ /\ dirs[fetch.query.path] # Missing
              /\ answer = ListDirectory(dirs[fetch.query.path], fetch.query, fetch.offset),
           NEW byName, NEW switched
    PROVE  Right(Answered(p, fetch, answer, byName, switched), asked, dirs)
  <1> DEFINE q == Answered(p, fetch, answer, byName, switched)
  <1>0. HasFields(p)
    BY DEF Booked, IsPane
  <1>1. CASE fetch.generation # p.generation
    <2>1. q = [p EXCEPT !.fetches = @ \ { fetch }]
      BY <1>1 DEF Answered, Superseded
    <2> HIDE DEF q
    <2>2. q = [entries |-> p.entries, hasMore |-> p.hasMore, loading |-> p.loading,
               notFound |-> p.notFound, error |-> p.error, generation |-> p.generation,
               busy |-> p.busy, seen |-> p.seen, fetches |-> p.fetches \ { fetch }]
      BY <1>0, <2>1 DEF HasFields
    <2>3. Right(q, asked, dirs)
      BY <2>2 DEF Right
    <2> QED
      BY <2>3 DEF q
  <1>2. CASE fetch.generation = p.generation
    <2>0. GoesOn(fetch, asked, dirs)
      BY <1>2 DEF Right
    <2>1. CASE answer.status = "error"
      <3> DEFINE r == [p EXCEPT !.notFound = FALSE, !.error = TRUE, !.hasMore = FALSE,
                                !.entries = IF fetch.reset THEN << >> ELSE @]
      <3>1. q = Ended(r, fetch)
        BY <1>2, <2>1 DEF Answered, Superseded
      <3>2. r = [p EXCEPT !.notFound = FALSE, !.error = TRUE, !.hasMore = FALSE,
                          !.entries = IF fetch.reset THEN << >> ELSE @]
        OBVIOUS
      <3> HIDE DEF r, q
      <3>3. r = [entries |-> IF fetch.reset THEN << >> ELSE p.entries,
                 hasMore |-> FALSE, loading |-> p.loading,
                 notFound |-> FALSE, error |-> TRUE, generation |-> p.generation,
                 busy |-> p.busy, seen |-> p.seen, fetches |-> p.fetches]
        BY <1>0, <3>2 DEF HasFields
      <3>4. /\ HasFields(r) /\ r.generation = p.generation /\ r.fetches = p.fetches
            /\ ~r.hasMore /\ r.error
        BY <3>3 DEF HasFields
      <3> QED
        BY <1>2, <3>1, <3>4, EndedRight DEF q
    <2>2. CASE dirs[fetch.query.path] = Missing /\ answer = [status |-> "not_found"]
      <3> DEFINE r == [p EXCEPT !.notFound = TRUE, !.error = FALSE,
                                !.entries = << >>, !.hasMore = FALSE]
      <3>1. q = Ended(r, fetch)
        BY <1>2, <2>2 DEF Answered, Superseded
      <3>2. r = [p EXCEPT !.notFound = TRUE, !.error = FALSE,
                          !.entries = << >>, !.hasMore = FALSE]
        OBVIOUS
      <3> HIDE DEF r, q
      <3>3. r = [entries |-> << >>, hasMore |-> FALSE, loading |-> p.loading,
                 notFound |-> TRUE, error |-> FALSE, generation |-> p.generation,
                 busy |-> p.busy, seen |-> p.seen, fetches |-> p.fetches]
        BY <1>0, <3>2 DEF HasFields
      <3>4. /\ HasFields(r) /\ r.generation = p.generation /\ r.fetches = p.fetches
            /\ ~r.hasMore /\ r.notFound /\ r.entries = << >>
        BY <3>3 DEF HasFields
      <3>5. ShowsBeginning(r.entries, r.hasMore, r.notFound, asked, dirs)
        BY <2>0, <2>2, <3>4 DEF GoesOn, ShowsBeginning
      <3> QED
        BY <1>2, <3>1, <3>4, <3>5, EndedRight DEF q
    <2>3. CASE /\ dirs[fetch.query.path] # Missing
               /\ answer = ListDirectory(dirs[fetch.query.path], fetch.query, fetch.offset)
      <3>1. answer.status = "ok"
        BY <2>3 DEF ListDirectory
      <3>2. q = PageCame(p, fetch, answer, byName, switched)
        BY <1>2, <3>1 DEF Answered, Superseded
      <3>3. fetch.query = asked
        BY <2>0 DEF GoesOn
      <3> HIDE DEF q
      <3> QED
        BY <1>2, <2>0, <2>3, <3>2, <3>3, PageRight DEF q
    <2> QED
      BY <2>1, <2>2, <2>3
  <1> QED
    BY <1>1, <1>2

-----------------------------------------------------------------------------
(* The invariant, if every listing that is asked for is answered: the pane is  *)
(* right about the directory it is at, and an answer is a failure or tells what *)
(* the directory it was asked about holds.                                      *)

AnswersAreTrue ==
    \A answer \in answers :
        answer.result.status = "error" \/ answer.result = Listing(answer.fetch)

RInv ==
    /\ IInv
    /\ query \in Queries /\ directories \in [Paths -> Directories]
    /\ Right(pane, query, directories)
    /\ AnswersAreTrue

LEMMA DirectoriesAreFinite ==
    ASSUME NEW asked \in Queries, directories \in [Paths -> Directories]
    PROVE  IsFiniteSet(directories[asked.path])
  BY PaneIsAskable DEF Paths

LEMMA InitRight == Init => RInv
  <1> SUFFICES ASSUME Init PROVE RInv
    OBVIOUS
  <1>1. query \in Queries /\ directories \in [Paths -> Directories] /\ answers = {}
    BY PaneIsAskable DEF Init
  <1>2. Right(pane, query, directories)
    BY <1>1, NewPaneBooked, DirectoriesAreFinite, ResetRight DEF Init
  <1> QED
    BY <1>1, <1>2, InitInv DEF RInv, AnswersAreTrue

LEMMA NextRight ==
    ASSUME ~MayBeLost, RInv, [Next]_vars
    PROVE  RInv'
  <1>1. IInv' /\ IInv
    BY NextInv DEF RInv
  <1>2. /\ Booked(pane) /\ Right(pane, query, directories) /\ AnswersAreTrue
        /\ AnswersAreAwaited /\ query \in Queries /\ directories \in [Paths -> Directories]
    BY DEF RInv, IInv
  \* What is left to show of a step that renders, and of one that only sends.
  <1>3. ASSUME NEW changed, Booked(changed), Renders(changed),
               query' \in Queries, directories' = directories,
               Right(changed, query', directories), answers' \subseteq answers
        PROVE  RInv'
    <2>1. Right(pane', query', directories)
      BY <1>3, RenderedRight DEF Renders
    <2>2. AnswersAreTrue'
      BY <1>2, <1>3 DEF AnswersAreTrue, Listing
    <2> QED
      BY <1>1, <1>2, <1>3, <2>1, <2>2 DEF RInv
  <1>4. ASSUME NEW fetch, NEW result, result.status = "error" \/ result = Listing(fetch),
               answers' = answers \cup { [fetch |-> fetch, result |-> result] },
               UNCHANGED << pane, query, directories >>
        PROVE  RInv'
    <2>1. AnswersAreTrue'
      BY <1>2, <1>4 DEF AnswersAreTrue, Listing
    <2> QED
      BY <1>1, <1>2, <1>4, <2>1 DEF RInv
  <1>5. ASSUME NEW fetch \in pane.fetches, ServerLists(fetch) PROVE RInv'
    BY <1>4, <1>5 DEF ServerLists
  <1>6. ASSUME NEW fetch \in pane.fetches, NEW kind \in { "error", "lost" },
               ListingFails(fetch, kind)
        PROVE  RInv'
    <2>1. kind = "error"
      BY <1>6 DEF ListingFails
    <2> QED
      BY <1>4, <1>6, <2>1 DEF ListingFails
  <1>7. ASSUME NEW answer \in answers, AnswerArrives(answer) PROVE RInv'
    <2> DEFINE changed == Answered(pane, answer.fetch, answer.result, statusByName, filters)
    <2>1. answer.fetch \in pane.fetches /\ Answer(answer.result)
      BY <1>2 DEF AnswersAreAwaited
    <2>2. Booked(changed)
      BY <1>2, <2>1, AnsweredBooked
    <2>3. \/ answer.result.status = "error"
          \/ /\ directories[answer.fetch.query.path] = Missing
             /\ answer.result = [status |-> "not_found"]
          \/ /\ directories[answer.fetch.query.path] # Missing
             /\ answer.result = ListDirectory(directories[answer.fetch.query.path],
                                              answer.fetch.query, answer.fetch.offset)
      BY <1>2 DEF AnswersAreTrue, Listing
    <2>4. IsFiniteSet(directories[query.path])
      BY <1>2, DirectoriesAreFinite
    <2>5. Right(changed, query, directories)
      BY <1>2, <2>1, <2>3, <2>4, AnsweredRight
    <2>6. /\ Renders(changed) /\ answers' = answers \ { answer }
          /\ UNCHANGED << query, directories >>
      BY <1>7 DEF AnswerArrives
    <2> HIDE DEF changed
    <2> QED
      BY <1>2, <1>3, <2>2, <2>5, <2>6
  <1>8. ASSUME NEW asked \in Queries, ChangeQuery(asked) PROVE RInv'
    <2> DEFINE changed == FetchFromOffset(pane, asked, 0, TRUE)
    <2>1. Booked(changed)
      BY <1>2, FetchBooked
    <2>2. Right(changed, asked, directories)
      BY <1>2, DirectoriesAreFinite, ResetRight
    <2>3. /\ Renders(changed) /\ query' = asked
          /\ UNCHANGED << answers, directories >>
      BY <1>8 DEF ChangeQuery
    <2> HIDE DEF changed
    <2> QED
      BY <1>3, <2>1, <2>2, <2>3
  <1>9. ASSUME LoadMoreClicked PROVE RInv'
    <2> DEFINE changed == LoadMore(pane, query)
    <2>1. Booked(changed)
      BY <1>2, FetchBooked DEF LoadMore
    <2>2. /\ Renders(changed) /\ pane.hasMore
          /\ UNCHANGED << answers, query, directories >>
      BY <1>9 DEF LoadMoreClicked
    <2>3. Right(changed, query, directories)
      BY <1>2, <2>2, LoadMoreRight
    <2> HIDE DEF changed
    <2> QED
      BY <1>2, <1>3, <2>1, <2>2, <2>3
  <1>10. ASSUME NEW byName, StatusesArrive(byName) PROVE RInv'
    BY <1>2, <1>3, <1>10 DEF StatusesArrive
  <1>11. ASSUME NEW filter, SwitchFilter(filter) PROVE RInv'
    BY <1>2, <1>3, <1>11 DEF SwitchFilter
  <1>12. CASE UNCHANGED vars
    BY <1>1, <1>2, <1>12 DEF vars, RInv, AnswersAreTrue, Listing
  <1> QED
    BY <1>5, <1>6, <1>7, <1>8, <1>9, <1>10, <1>11, <1>12 DEF Next, Arrival

\* Whatever overtakes what, and however many rows, pages, calls and failures there
\* are: a pane at rest shows the beginning of the directory it is at, as it is
\* sorted, and offers more exactly if there is more: RowsAreTheListing. Only of a
\* listing that is never answered nothing is known.
THEOREM PaneShowsTheListing ==
    ASSUME ~MayBeLost
    PROVE  Spec => []RowsAreTheListing
  <1>1. RInv => RowsAreTheListing
    <2> SUFFICES ASSUME RInv, ~pane.loading, ~pane.error
                 PROVE  LET names == directories[query.path]
                        IN  IF names = Missing THEN pane.notFound /\ pane.entries = << >>
                            ELSE /\ ~pane.notFound
                                 /\ Len(pane.entries) <= Cardinality(names)
                                 /\ pane.entries =
                                        SubSeq(Sorted(names, query), 1, Len(pane.entries))
                                 /\ pane.hasMore <=> Len(pane.entries) < Cardinality(names)
      BY DEF RowsAreTheListing
    <2>1. ~pane.busy
      BY DEF RInv, IInv, Booked, IsPane
    <2>2. ShowsBeginning(pane.entries, pane.hasMore, pane.notFound, query, directories)
      BY <2>1 DEF RInv, Right
    <2>3. Len(At(directories, query)) = Cardinality(directories[query.path])
      BY DirectoriesAreFinite, SortedIsSeq DEF RInv, At
    <2> QED
      BY <2>2, <2>3 DEF ShowsBeginning, Prefix, At
  <1>2. RInv /\ [Next]_vars => RInv'
    BY NextRight
  <1> QED
    BY <1>1, <1>2, InitRight, PTL DEF Spec

-----------------------------------------------------------------------------
(* Counting what is shown: the rows of two pieces are counted one by one.     *)

LEMMA CountIsNat ==
    ASSUME NEW T, NEW listed \in Seq(T), NEW byName, NEW switched
    PROVE  /\ CountVisible(listed, byName, switched) \in Nat
           /\ IsFiniteSet(VisibleEntries(listed, byName, switched))
  <1>1. DOMAIN listed = 1..Len(listed) /\ Len(listed) \in Nat
    BY LenProperties
  <1>2. IsFiniteSet(1..Len(listed))
    BY <1>1, FS_Interval
  <1>3. VisibleEntries(listed, byName, switched) \in SUBSET (1..Len(listed))
    BY <1>1 DEF VisibleEntries
  <1>4. IsFiniteSet(VisibleEntries(listed, byName, switched))
    BY <1>2, <1>3, FS_Subset
  <1> QED
    BY <1>4, FS_CardinalityType DEF CountVisible

LEMMA CountsJoin ==
    ASSUME NEW T, NEW a \in Seq(T), NEW b \in Seq(T), NEW byName, NEW switched
    PROVE  CountVisible(a \o b, byName, switched) =
             CountVisible(a, byName, switched) + CountVisible(b, byName, switched)
  <1> DEFINE Shown(listed) == VisibleEntries(listed, byName, switched)
             n == Len(a)
             m == Len(b)
             moved == { i \in (n + 1)..(n + m) : i \in Shown(a \o b) }
  <1>1. n \in Nat /\ m \in Nat /\ DOMAIN a = 1..n /\ DOMAIN b = 1..m
    BY LenProperties
  <1>2. /\ a \o b \in Seq(T) /\ Len(a \o b) = n + m
        /\ \A i \in 1..(n + m) : (a \o b)[i] = IF i <= n THEN a[i] ELSE b[i - n]
    BY ConcatProperties
  <1>3. DOMAIN (a \o b) = 1..(n + m)
    BY <1>2, LenProperties
  <1>4. \A i \in 1..n : i \in Shown(a \o b) <=> i \in Shown(a)
    <2> SUFFICES ASSUME NEW i \in 1..n PROVE i \in Shown(a \o b) <=> i \in Shown(a)
      OBVIOUS
    <2>1. i \in 1..(n + m) /\ (a \o b)[i] = a[i]
      BY <1>1, <1>2
    <2> QED
      BY <1>1, <1>3, <2>1 DEF VisibleEntries
  <1>5. \A j \in 1..m : n + j \in Shown(a \o b) <=> j \in Shown(b)
    <2> SUFFICES ASSUME NEW j \in 1..m PROVE n + j \in Shown(a \o b) <=> j \in Shown(b)
      OBVIOUS
    <2>1. n + j \in 1..(n + m) /\ ~(n + j <= n) /\ (n + j) - n = j
      BY <1>1
    <2>2. (a \o b)[n + j] = b[j]
      BY <1>2, <2>1
    <2> QED
      BY <1>1, <1>3, <2>1, <2>2 DEF VisibleEntries
  <1>6. /\ Shown(a) \subseteq 1..n /\ Shown(b) \subseteq 1..m
        /\ Shown(a \o b) \subseteq 1..(n + m)
    BY <1>1, <1>3 DEF VisibleEntries
  <1>7. IsFiniteSet(Shown(a)) /\ IsFiniteSet(Shown(b)) /\ IsFiniteSet(Shown(a \o b))
    BY <1>2, CountIsNat
  <1> HIDE DEF n, m, Shown
  <1>8. moved \in SUBSET Shown(a \o b)
    OBVIOUS
  <1>9. IsFiniteSet(moved)
    BY <1>7, <1>8, FS_Subset
  <1>10. Shown(a \o b) = Shown(a) \cup moved /\ Shown(a) \cap moved = {}
    BY <1>1, <1>4, <1>6
  <1>11. Cardinality(moved) = Cardinality(Shown(b))
    <2> DEFINE f == [j \in Shown(b) |-> n + j]
    <2>1. f \in [Shown(b) -> moved]
      BY <1>1, <1>5, <1>6
    <2>2. \A i, j \in Shown(b) : f[i] = f[j] => i = j
      BY <1>1, <1>6
    <2>3. \A k \in moved : \E j \in Shown(b) : f[j] = k
      <3> SUFFICES ASSUME NEW k \in moved PROVE \E j \in Shown(b) : f[j] = k
        OBVIOUS
      <3>1. k - n \in 1..m /\ n + (k - n) = k
        BY <1>1
      <3>2. k - n \in Shown(b)
        BY <1>5, <3>1
      <3> QED
        BY <3>1, <3>2
    <2> HIDE DEF f, moved
    <2>4. f \in Bijection(Shown(b), moved)
      BY <2>1, <2>2, <2>3, Fun_IsBij
    <2> QED
      BY <1>7, <2>4, Fun_ExistsBij, FS_Bijection DEF ExistsBijection
  <1>12. Cardinality(Shown(a)) \in Nat /\ Cardinality(moved) \in Nat
    BY <1>7, <1>9, FS_CardinalityType
  <1> HIDE DEF moved
  <1>13. Cardinality(Shown(a) \cup moved) = Cardinality(Shown(a)) + Cardinality(moved)
    <2>1. Cardinality(Shown(a) \cap moved) = 0
      BY <1>10, FS_EmptySet
    <2>2. Cardinality(Shown(a) \cup moved) =
            Cardinality(Shown(a)) + Cardinality(moved) - Cardinality(Shown(a) \cap moved)
      BY <1>7, <1>9, FS_Union
    <2> QED
      BY <1>12, <2>1, <2>2
  <1>14. Cardinality(Shown(a \o b)) = Cardinality(Shown(a)) + Cardinality(Shown(b))
    BY <1>10, <1>11, <1>13
  <1> QED
    BY <1>14 DEF CountVisible, Shown

\* What a listing begins with is a sequence, and so is the page that goes on.
LEMMA PrefixIsSeq ==
    ASSUME NEW T, NEW s \in Seq(T), NEW listed, Prefix(listed, s)
    PROVE  listed \in Seq(T)
  <1>1. Len(s) \in Nat /\ Len(listed) \in Nat /\ Len(listed) <= Len(s)
    BY LenProperties DEF Prefix
  <1>2. \A i \in 1..Len(listed) : s[i] \in T
    BY <1>1, ElementOfSeq
  <1>3. SubSeq(s, 1, Len(listed)) \in Seq(T)
    BY <1>1, <1>2, SubSeqProperties
  <1> QED
    BY <1>3 DEF Prefix

LEMMA PageIsSeq ==
    ASSUME NEW names, NEW asked, NEW T, Sorted(names, asked) \in Seq(T), NEW offset \in Nat
    PROVE  /\ ListDirectory(names, asked, offset).entries \in Seq(T)
           /\ ListDirectory(names, asked, offset).hasMore \in BOOLEAN
  <1> DEFINE s == Sorted(names, asked)
             more == offset + PageSize < Len(s)
             last == IF more THEN offset + PageSize ELSE Len(s)
  <1>1. Len(s) \in Nat /\ last \in Nat /\ last <= Len(s)
    BY LenProperties, PagesAreSome
  <1>2. \A i \in (offset + 1)..last : s[i] \in T
    BY <1>1, ElementOfSeq
  <1>3. SubSeq(s, offset + 1, last) \in Seq(T)
    BY <1>1, <1>2, SubSeqProperties
  <1> QED
    BY <1>3 DEF ListDirectory

-----------------------------------------------------------------------------
(* How much a pane shows: the live fetch counts no row that is hidden and      *)
(* collects a whole page each time; what the effect noted at rest is the       *)
(* present, and if that is a want for more, the pane is long already.          *)

Counts(fetch, byName, switched) ==
    /\ fetch.visible \in Nat
    /\ fetch.visible <= CountVisible(fetch.collected, byName, switched)
    /\ fetch.pages * PageSize <= Len(fetch.collected)

Counted(p, byName, switched) ==
    /\ p.hasMore \in BOOLEAN
    /\ \A fetch \in p.fetches :
        fetch.generation = p.generation => Counts(fetch, byName, switched)

Wants(p, byName, switched) == NeedsMoreVisible(p, byName, switched) /\ p.hasMore

Long(p) == Len(p.entries) >= MaxAutoPages * PageSize

\* Before the effect runs, at rest: what it would not notice a second time.
Satisfied(p, byName, switched) ==
    ~p.busy /\ Wants(p, byName, switched) /\ p.seen = << TRUE, TRUE >> => Long(p)

\* After it has run.
Noticed(p, byName, switched) ==
    ~p.busy =>
        /\ p.seen = << NeedsMoreVisible(p, byName, switched), p.hasMore >>
        /\ Wants(p, byName, switched) => Long(p)

\* A call that goes ahead has counted nothing yet.
LEMMA FetchCounts ==
    ASSUME NEW p, Booked(p), NEW asked, NEW offset, NEW reset \in BOOLEAN, reset \/ ~p.busy,
           NEW T, (IF reset THEN << >> ELSE p.entries) \in Seq(T), p.hasMore \in BOOLEAN,
           NEW byName, NEW switched
    PROVE  LET q == FetchFromOffset(p, asked, offset, reset)
           IN  q.busy /\ Counted(q, byName, switched)
  <1> DEFINE generation == p.generation + (IF reset THEN 1 ELSE 0)
             listed == IF reset THEN << >> ELSE p.entries
             new == [generation |-> generation, query |-> asked, reset |-> reset,
                     offset |-> offset, collected |-> listed, pages |-> 0, visible |-> 0]
             q == FetchFromOffset(p, asked, offset, reset)
  <1>0. HasFields(p) /\ p.generation \in Nat
    BY DEF Booked, IsPane
  <1>1. q = [p EXCEPT !.generation = generation, !.busy = TRUE, !.loading = TRUE,
                      !.fetches = @ \cup { new }]
    BY DEF FetchFromOffset
  <1>2. CountVisible(listed, byName, switched) \in Nat /\ Len(listed) \in Nat
    BY CountIsNat, LenProperties
  <1> HIDE DEF q, listed
  <1>3. /\ q.busy /\ q.hasMore = p.hasMore /\ q.generation = generation
        /\ q.fetches = p.fetches \cup { new }
    BY <1>0, <1>1 DEF HasFields
  <1>4. \A fetch \in p.fetches : fetch.generation # generation
    BY <1>0 DEF Booked, IsPane, IsFetch
  <1>5. Counts(new, byName, switched)
    BY <1>2, PagesAreSome DEF Counts
  <1>6. Counted(q, byName, switched)
    BY <1>3, <1>4, <1>5 DEF Counted
  <1> QED
    BY <1>3, <1>6 DEF q

\* Where there is more, the rows a call goes on from are a sequence.
LEMMA ShownIsSeq ==
    ASSUME NEW p, NEW asked, NEW dirs, Right(p, asked, dirs), ~p.busy, p.hasMore,
           IsFiniteSet(dirs[asked.path])
    PROVE  \E T : p.entries \in Seq(T)
  <1>1. ShowsBeginning(p.entries, p.hasMore, p.notFound, asked, dirs)
    BY DEF Right
  <1>2. Prefix(p.entries, At(dirs, asked))
    BY <1>1 DEF ShowsBeginning
  <1>3. PICK T : At(dirs, asked) \in Seq(T)
    BY SortedIsSeq DEF At
  <1> QED
    BY <1>2, <1>3, PrefixIsSeq

LEMMA RenderedCounts ==
    ASSUME NEW p, Booked(p), NEW asked, NEW dirs, Right(p, asked, dirs),
           IsFiniteSet(dirs[asked.path]), NEW byName, NEW switched,
           Counted(p, byName, switched), Satisfied(p, byName, switched)
    PROVE  /\ Counted(Rendered(p, asked, byName, switched), byName, switched)
           /\ Noticed(Rendered(p, asked, byName, switched), byName, switched)
  <1> DEFINE needs == NeedsMoreVisible(p, byName, switched)
             values == << needs, p.hasMore >>
             noted == [p EXCEPT !.seen = values]
             q == Rendered(p, asked, byName, switched)
  <1>0. HasFields(p) /\ p.hasMore \in BOOLEAN /\ needs \in BOOLEAN
    BY DEF Booked, IsPane, Counted, NeedsMoreVisible
  <1>1. noted = [entries |-> p.entries, hasMore |-> p.hasMore, loading |-> p.loading,
                 notFound |-> p.notFound, error |-> p.error, generation |-> p.generation,
                 busy |-> p.busy, seen |-> values, fetches |-> p.fetches]
    BY <1>0 DEF HasFields
  <1>2. \/ /\ q = noted
           /\ p.seen = values \/ values # << TRUE, TRUE >>
        \/ q = LoadMore(noted, asked) /\ values = << TRUE, TRUE >>
    BY DEF Rendered
  <1>3. values = << TRUE, TRUE >> <=> Wants(p, byName, switched)
    BY <1>0 DEF Wants
  <1>a. values = << NeedsMoreVisible(p, byName, switched), p.hasMore >>
    OBVIOUS
  <1> HIDE DEF values, needs
  <1>4. /\ noted.entries = p.entries /\ noted.hasMore = p.hasMore /\ noted.busy = p.busy
        /\ noted.seen = values /\ noted.fetches = p.fetches
        /\ noted.generation = p.generation
    BY <1>1
  <1>5. Booked(noted)
    BY <1>1 DEF Booked, IsPane, HasFields
  <1>6. Counted(noted, byName, switched)
    BY <1>4 DEF Counted
  <1>7. NeedsMoreVisible(noted, byName, switched) = NeedsMoreVisible(p, byName, switched)
    BY <1>4 DEF NeedsMoreVisible
  <1> HIDE DEF noted, q
  <1>8. CASE q = noted /\ (p.seen = values \/ values # << TRUE, TRUE >>)
    <2>1. Wants(noted, byName, switched) <=> Wants(p, byName, switched)
      BY <1>4, <1>7 DEF Wants
    <2>2. ~noted.busy /\ Wants(noted, byName, switched) => Long(noted)
      BY <1>3, <1>4, <1>8, <2>1 DEF Satisfied, Long
    <2>3. Noticed(noted, byName, switched)
      BY <1>4, <1>7, <1>a, <2>2 DEF Noticed
    <2> QED
      BY <1>6, <1>8, <2>3 DEF q
  <1>9. CASE q = LoadMore(noted, asked) /\ values = << TRUE, TRUE >>
    <2>1. p.hasMore
      BY <1>3, <1>9 DEF Wants
    <2>2. CASE p.busy
      <3>1. q = noted
        BY <1>4, <1>9, <2>2 DEF LoadMore, FetchFromOffset
      <3>2. Noticed(noted, byName, switched)
        BY <1>4, <2>2 DEF Noticed
      <3> QED
        BY <1>6, <3>1, <3>2 DEF q
    <2>3. CASE ~p.busy
      <3>1. PICK T : noted.entries \in Seq(T)
        BY <1>4, <2>1, <2>3, ShownIsSeq
      <3>2. noted.hasMore \in BOOLEAN
        BY <1>0, <1>4
      <3>3. q.busy /\ Counted(q, byName, switched)
        BY <1>4, <1>5, <1>9, <2>3, <3>1, <3>2, FetchCounts DEF LoadMore
      <3>4. Noticed(q, byName, switched)
        BY <3>3 DEF Noticed
      <3> QED
        BY <3>3, <3>4 DEF q
    <2> QED
      BY <2>2, <2>3
  <1> QED
    BY <1>2, <1>8, <1>9

\* A page is counted once; the call that ends with it has shown enough, reached the
\* end or fetched as many pages as it may.
LEMMA PageCounts ==
    ASSUME NEW p, Booked(p), NEW fetch \in p.fetches, fetch.generation = p.generation,
           NEW asked, NEW dirs, GoesOn(fetch, asked, dirs),
           IsFiniteSet(dirs[asked.path]),
           NEW page, page = ListDirectory(dirs[asked.path], asked, fetch.offset),
           NEW byName, NEW switched, Counts(fetch, byName, switched)
    PROVE  LET q == PageCame(p, fetch, page, byName, switched)
           IN  Counted(q, byName, switched) /\ Satisfied(q, byName, switched)
  <1> DEFINE collected == fetch.collected \o page.entries
             visible == fetch.visible + CountVisible(page.entries, byName, switched)
             shown == [p EXCEPT !.notFound = FALSE, !.error = FALSE,
                                !.entries = collected, !.hasMore = page.hasMore]
             next == [fetch EXCEPT !.collected = collected, !.visible = visible,
                                   !.pages = @ + 1, !.offset = @ + PageSize]
             q == PageCame(p, fetch, page, byName, switched)
  <1>0. HasFields(p) /\ IsFetch(fetch)
    BY DEF Booked, IsPane
  <1>1. PICK T : At(dirs, asked) \in Seq(T)
    BY SortedIsSeq DEF At
  <1>2. fetch.collected \in Seq(T) /\ fetch.offset = Len(fetch.collected)
    BY <1>1, PrefixIsSeq DEF GoesOn
  <1>3. page.entries \in Seq(T) /\ page.hasMore \in BOOLEAN
    <2>1. fetch.offset \in Nat
      BY <1>2, LenProperties
    <2> QED
      BY <1>1, <2>1, PageIsSeq DEF At
  <1>4. collected \in Seq(T)
    BY <1>2, <1>3, ConcatProperties
  <1>5. visible \in Nat /\ visible <= CountVisible(collected, byName, switched)
    <2>1. /\ CountVisible(collected, byName, switched) =
                CountVisible(fetch.collected, byName, switched)
                  + CountVisible(page.entries, byName, switched)
          /\ CountVisible(fetch.collected, byName, switched) \in Nat
          /\ CountVisible(page.entries, byName, switched) \in Nat
      BY <1>2, <1>3, CountsJoin, CountIsNat
    <2> QED
      BY <2>1 DEF Counts
  <1>6. page.hasMore => (fetch.pages + 1) * PageSize <= Len(collected)
    <2>1. Prefix(fetch.collected, Sorted(dirs[asked.path], asked))
      BY DEF GoesOn, At
    <2>2. page = ListDirectory(dirs[asked.path], asked, Len(fetch.collected))
      BY <1>2
    <2>3. Continues(fetch.collected, page, Sorted(dirs[asked.path], asked))
      BY <2>1, <2>2, PageGoesOn
    <2>4. page.hasMore => Len(collected) = Len(fetch.collected) + PageSize
      BY <2>3 DEF Continues
    <2>5. Len(fetch.collected) \in Nat /\ fetch.pages \in Nat /\ PageSize \in Nat
      BY <1>0, <1>2, LenProperties, PagesAreSome DEF IsFetch
    <2>6. (fetch.pages + 1) * PageSize = fetch.pages * PageSize + PageSize
      BY <2>5
    <2>7. fetch.pages * PageSize <= Len(fetch.collected)
      BY DEF Counts
    <2>8. fetch.pages * PageSize \in Nat
      BY <2>5
    <2> DEFINE k == fetch.pages * PageSize
               n == Len(fetch.collected)
    <2> HIDE DEF k, n
    <2>9. k \in Nat /\ n \in Nat /\ k <= n
      BY <2>5, <2>7, <2>8 DEF k, n
    <2>10. (fetch.pages + 1) * PageSize = k + PageSize
      BY <2>6 DEF k
    <2>11. page.hasMore => Len(collected) = n + PageSize
      BY <2>4 DEF n
    <2> HIDE DEF collected
    <2>12. CASE page.hasMore
      <3>1. (fetch.pages + 1) * PageSize <= Len(collected)
        <4>1. k + PageSize <= n + PageSize
          BY <2>5, <2>9
        <4> QED
          BY <2>10, <2>11, <2>12, <4>1
      <3> QED
        BY <2>12, <3>1
    <2> QED
      BY <2>12
  <1>7. CountVisible(collected, byName, switched) \in Nat /\ Len(collected) \in Nat
    BY <1>4, CountIsNat, LenProperties
  <1> HIDE DEF collected, visible
  <1>8. shown = [entries |-> collected, hasMore |-> page.hasMore, loading |-> p.loading,
                 notFound |-> FALSE, error |-> FALSE, generation |-> p.generation,
                 busy |-> p.busy, seen |-> p.seen, fetches |-> p.fetches]
    <2>1. shown = [p EXCEPT !.notFound = FALSE, !.error = FALSE,
                            !.entries = collected, !.hasMore = page.hasMore]
      OBVIOUS
    <2> HIDE DEF shown
    <2> QED
      BY <1>0, <2>1 DEF HasFields
  <1>9. \A other \in p.fetches \ { fetch } : other.generation # p.generation
    BY DEF Booked
  <1>10. CASE ~KeepGoing(fetch, visible, page, switched)
    <2>1. q = Ended(shown, fetch)
      BY <1>10 DEF PageCame, collected, visible
    <2> HIDE DEF q, shown
    <2>2. q = [entries |-> collected, hasMore |-> page.hasMore, loading |-> FALSE,
               notFound |-> FALSE, error |-> FALSE, generation |-> p.generation,
               busy |-> FALSE, seen |-> p.seen, fetches |-> p.fetches \ { fetch }]
      BY <1>8, <2>1 DEF Ended
    <2>3. /\ q.entries = collected /\ q.hasMore = page.hasMore
          /\ q.generation = p.generation /\ q.fetches = p.fetches \ { fetch }
      BY <2>2
    <2>4. Counted(q, byName, switched)
      BY <1>3, <1>9, <2>3 DEF Counted
    <2>5. Wants(q, byName, switched) => Long(q)
      <3> SUFFICES ASSUME Wants(q, byName, switched) PROVE Long(q)
        OBVIOUS
      <3>1. /\ page.hasMore /\ switched # {}
            /\ CountVisible(collected, byName, switched) < PageSize
        BY <2>3 DEF Wants, NeedsMoreVisible
      <3>2. visible < PageSize
        BY <1>5, <1>7, <3>1, PagesAreSome
      <3>3. ~(fetch.pages + 1 < MaxAutoPages)
        BY <1>10, <3>1, <3>2 DEF KeepGoing
      <3>4. fetch.pages + 1 = MaxAutoPages
        BY <1>0, <3>3, PagesAreSome DEF IsFetch
      <3> QED
        BY <1>6, <2>3, <3>1, <3>4, <1>7 DEF Long
    <2>6. Satisfied(q, byName, switched)
      BY <2>5 DEF Satisfied
    <2> QED
      BY <2>4, <2>6 DEF q
  <1>11. CASE KeepGoing(fetch, visible, page, switched)
    <2>1. q = [shown EXCEPT !.fetches = (@ \ { fetch }) \cup { next }]
      BY <1>11 DEF PageCame, collected, visible
    <2>2. next = [generation |-> fetch.generation, query |-> fetch.query,
                  reset |-> fetch.reset, offset |-> fetch.offset + PageSize,
                  collected |-> collected, pages |-> fetch.pages + 1,
                  visible |-> visible]
      <3>1. next = [fetch EXCEPT !.collected = collected, !.visible = visible,
                                 !.pages = @ + 1, !.offset = @ + PageSize]
        OBVIOUS
      <3> HIDE DEF next
      <3> QED
        BY <1>0, <3>1 DEF IsFetch
    <2> HIDE DEF q, shown, next
    <2>3. q = [entries |-> collected, hasMore |-> page.hasMore, loading |-> p.loading,
               notFound |-> FALSE, error |-> FALSE, generation |-> p.generation,
               busy |-> p.busy, seen |-> p.seen,
               fetches |-> (p.fetches \ { fetch }) \cup { next }]
      BY <1>8, <2>1
    <2>4. page.hasMore
      BY <1>11 DEF KeepGoing
    <2>5. Counts(next, byName, switched)
      <3>1. /\ next.collected = collected /\ next.visible = visible
            /\ next.pages = fetch.pages + 1
        BY <2>2
      <3> QED
        BY <1>5, <1>6, <2>4, <3>1 DEF Counts
    <2>6. /\ q.hasMore = page.hasMore /\ q.generation = p.generation
          /\ q.fetches = (p.fetches \ { fetch }) \cup { next } /\ q.busy = p.busy
      BY <2>3
    <2>7. Counted(q, byName, switched)
      BY <1>3, <1>9, <2>5, <2>6 DEF Counted
    <2>8. p.busy
      BY DEF Booked
    <2>9. Satisfied(q, byName, switched)
      BY <2>6, <2>8 DEF Satisfied
    <2> QED
      BY <2>7, <2>9 DEF q
  <1> QED
    BY <1>10, <1>11

\* Any answer but none at all: a failure takes the offer of more away.
LEMMA AnsweredCounts ==
    ASSUME NEW p, Booked(p), NEW fetch \in p.fetches, NEW asked, NEW dirs,
           Right(p, asked, dirs), IsFiniteSet(dirs[asked.path]),
           NEW answer,
           \/ answer.status = "error"
           \/ dirs[fetch.query.path] = Missing /\ answer = [status |-> "not_found"]
           \/ /\ dirs[fetch.query.path] # Missing
              /\ answer = ListDirectory(dirs[fetch.query.path], fetch.query, fetch.offset),
           NEW byName, NEW switched,
           Counted(p, byName, switched), Noticed(p, byName, switched)
    PROVE  LET q == Answered(p, fetch, answer, byName, switched)
           IN  Counted(q, byName, switched) /\ Satisfied(q, byName, switched)
  <1> DEFINE q == Answered(p, fetch, answer, byName, switched)
  <1>0. HasFields(p)
    BY DEF Booked, IsPane
  <1>1. CASE fetch.generation # p.generation
    <2>1. q = [p EXCEPT !.fetches = @ \ { fetch }]
      BY <1>1 DEF Answered, Superseded
    <2> HIDE DEF q
    <2>2. /\ q.entries = p.entries /\ q.hasMore = p.hasMore /\ q.busy = p.busy
          /\ q.generation = p.generation /\ q.fetches = p.fetches \ { fetch }
      BY <1>0, <2>1 DEF HasFields
    <2>3. Counted(q, byName, switched)
      BY <2>2 DEF Counted
    <2>4. Satisfied(q, byName, switched)
      BY <2>2 DEF Satisfied, Noticed, Wants, NeedsMoreVisible, Long
    <2> QED
      BY <2>3, <2>4 DEF q
  <1>2. CASE fetch.generation = p.generation
    <2>0. /\ GoesOn(fetch, asked, dirs) /\ Counts(fetch, byName, switched)
          /\ \A other \in p.fetches \ { fetch } : other.generation # p.generation
      BY <1>2 DEF Right, Counted, Booked
    \* Of an answer after which nothing more is offered.
    <2>a. ASSUME NEW r, HasFields(r), ~r.hasMore, r.hasMore \in BOOLEAN,
                 r.generation = p.generation, r.fetches = p.fetches, q = Ended(r, fetch)
          PROVE  Counted(q, byName, switched) /\ Satisfied(q, byName, switched)
      <3> HIDE DEF q
      <3>1. /\ q.hasMore = r.hasMore /\ q.generation = p.generation
            /\ q.fetches = p.fetches \ { fetch }
        BY <2>a DEF Ended, HasFields
      <3>2. Counted(q, byName, switched)
        BY <2>0, <2>a, <3>1 DEF Counted
      <3>3. Satisfied(q, byName, switched)
        BY <2>a, <3>1 DEF Satisfied, Wants
      <3> QED
        BY <3>2, <3>3
    <2>1. CASE answer.status = "error"
      <3> DEFINE r == [p EXCEPT !.notFound = FALSE, !.error = TRUE, !.hasMore = FALSE,
                                !.entries = IF fetch.reset THEN << >> ELSE @]
      <3>1. q = Ended(r, fetch)
        BY <1>2, <2>1 DEF Answered, Superseded
      <3>2. r = [p EXCEPT !.notFound = FALSE, !.error = TRUE, !.hasMore = FALSE,
                          !.entries = IF fetch.reset THEN << >> ELSE @]
        OBVIOUS
      <3> HIDE DEF r, q
      <3>3. r = [entries |-> IF fetch.reset THEN << >> ELSE p.entries,
                 hasMore |-> FALSE, loading |-> p.loading,
                 notFound |-> FALSE, error |-> TRUE, generation |-> p.generation,
                 busy |-> p.busy, seen |-> p.seen, fetches |-> p.fetches]
        BY <1>0, <3>2 DEF HasFields
      <3>4. /\ HasFields(r) /\ r.generation = p.generation /\ r.fetches = p.fetches
            /\ r.hasMore = FALSE
        BY <3>3 DEF HasFields
      <3> QED
        BY <2>a, <3>1, <3>4 DEF q
    <2>2. CASE dirs[fetch.query.path] = Missing /\ answer = [status |-> "not_found"]
      <3> DEFINE r == [p EXCEPT !.notFound = TRUE, !.error = FALSE,
                                !.entries = << >>, !.hasMore = FALSE]
      <3>1. q = Ended(r, fetch)
        BY <1>2, <2>2 DEF Answered, Superseded
      <3>2. r = [p EXCEPT !.notFound = TRUE, !.error = FALSE,
                          !.entries = << >>, !.hasMore = FALSE]
        OBVIOUS
      <3> HIDE DEF r, q
      <3>3. r = [entries |-> << >>, hasMore |-> FALSE, loading |-> p.loading,
                 notFound |-> TRUE, error |-> FALSE, generation |-> p.generation,
                 busy |-> p.busy, seen |-> p.seen, fetches |-> p.fetches]
        BY <1>0, <3>2 DEF HasFields
      <3>4. /\ HasFields(r) /\ r.generation = p.generation /\ r.fetches = p.fetches
            /\ r.hasMore = FALSE
        BY <3>3 DEF HasFields
      <3> QED
        BY <2>a, <3>1, <3>4 DEF q
    <2>3. CASE /\ dirs[fetch.query.path] # Missing
               /\ answer = ListDirectory(dirs[fetch.query.path], fetch.query, fetch.offset)
      <3>1. answer.status = "ok"
        BY <2>3 DEF ListDirectory
      <3>2. q = PageCame(p, fetch, answer, byName, switched)
        BY <1>2, <3>1 DEF Answered, Superseded
      <3>3. fetch.query = asked
        BY <2>0 DEF GoesOn
      <3> HIDE DEF q
      <3> QED
        BY <1>2, <2>0, <2>3, <3>2, <3>3, PageCounts DEF q
    <2> QED
      BY <2>1, <2>2, <2>3
  <1> QED
    BY <1>1, <1>2

-----------------------------------------------------------------------------
(* The invariant, where statuses and filters change only at rest.              *)

EInv ==
    /\ RInv
    /\ Counted(pane, statusByName, filters)
    /\ Noticed(pane, statusByName, filters)

LEMMA InitShows == Init => EInv
  <1> SUFFICES ASSUME Init PROVE EInv
    OBVIOUS
  <1>1. << >> \in Seq({})
    BY EmptySeq
  <1>2. NewPane.hasMore \in BOOLEAN
    BY DEF NewPane
  <1>3. pane.busy /\ Counted(pane, statusByName, filters)
    BY <1>1, <1>2, NewPaneBooked, FetchCounts DEF Init
  <1> QED
    BY <1>3, InitRight DEF EInv, Noticed

LEMMA NextShows ==
    ASSUME ~MayBeLost, Steady, EInv, [Next]_vars
    PROVE  EInv'
  <1>1. RInv' /\ RInv
    BY NextRight DEF EInv
  <1>2. /\ Booked(pane) /\ Right(pane, query, directories) /\ AnswersAreTrue
        /\ AnswersAreAwaited /\ query \in Queries /\ directories \in [Paths -> Directories]
        /\ Counted(pane, statusByName, filters) /\ Noticed(pane, statusByName, filters)
    BY DEF EInv, RInv, IInv
  <1>3. ASSUME NEW changed, Booked(changed), Renders(changed), query' \in Queries,
               Right(changed, query', directories),
               Counted(changed, statusByName', filters'),
               Satisfied(changed, statusByName', filters')
        PROVE  EInv'
    <2>1. IsFiniteSet(directories[query'.path])
      BY <1>2, <1>3, DirectoriesAreFinite
    <2>2. /\ Counted(pane', statusByName', filters')
          /\ Noticed(pane', statusByName', filters')
      BY <1>3, <2>1, RenderedCounts DEF Renders
    <2> QED
      BY <1>1, <2>2 DEF EInv
  <1>4. ASSUME UNCHANGED << pane, statusByName, filters >> PROVE EInv'
    BY <1>1, <1>2, <1>4 DEF EInv
  <1>5. ASSUME NEW fetch \in pane.fetches, ServerLists(fetch) PROVE EInv'
    BY <1>4, <1>5 DEF ServerLists
  <1>6. ASSUME NEW fetch \in pane.fetches, NEW kind \in { "error", "lost" },
               ListingFails(fetch, kind)
        PROVE  EInv'
    BY <1>4, <1>6 DEF ListingFails
  <1>7. ASSUME NEW answer \in answers, AnswerArrives(answer) PROVE EInv'
    <2> DEFINE changed == Answered(pane, answer.fetch, answer.result, statusByName, filters)
    <2>1. answer.fetch \in pane.fetches /\ Answer(answer.result)
      BY <1>2 DEF AnswersAreAwaited
    <2>2. Booked(changed)
      BY <1>2, <2>1, AnsweredBooked
    <2>3. \/ answer.result.status = "error"
          \/ /\ directories[answer.fetch.query.path] = Missing
             /\ answer.result = [status |-> "not_found"]
          \/ /\ directories[answer.fetch.query.path] # Missing
             /\ answer.result = ListDirectory(directories[answer.fetch.query.path],
                                              answer.fetch.query, answer.fetch.offset)
      BY <1>2 DEF AnswersAreTrue, Listing
    <2>4. IsFiniteSet(directories[query.path])
      BY <1>2, DirectoriesAreFinite
    <2>5. Right(changed, query, directories)
      BY <1>2, <2>1, <2>3, <2>4, AnsweredRight
    <2>6. Counted(changed, statusByName, filters) /\ Satisfied(changed, statusByName, filters)
      BY <1>2, <2>1, <2>3, <2>4, AnsweredCounts
    <2>7. Renders(changed) /\ UNCHANGED << query, statusByName, filters >>
      BY <1>7 DEF AnswerArrives
    <2> HIDE DEF changed
    <2> QED
      BY <1>2, <1>3, <2>2, <2>5, <2>6, <2>7
  <1>8. ASSUME NEW asked \in Queries, ChangeQuery(asked) PROVE EInv'
    <2> DEFINE changed == FetchFromOffset(pane, asked, 0, TRUE)
    <2>1. Booked(changed) /\ Right(changed, asked, directories)
      BY <1>2, FetchBooked, DirectoriesAreFinite, ResetRight
    <2>2. pane.hasMore \in BOOLEAN /\ << >> \in Seq({})
      BY <1>2, EmptySeq DEF Counted
    <2>3. changed.busy /\ Counted(changed, statusByName, filters)
      BY <1>2, <2>2, FetchCounts
    <2>4. /\ Renders(changed) /\ query' = asked
          /\ UNCHANGED << statusByName, filters >>
      BY <1>8 DEF ChangeQuery
    <2> HIDE DEF changed
    <2> QED
      BY <1>3, <2>1, <2>3, <2>4 DEF Satisfied
  <1>9. ASSUME LoadMoreClicked PROVE EInv'
    <2> DEFINE changed == LoadMore(pane, query)
    <2>1. /\ Renders(changed) /\ pane.hasMore /\ ~pane.busy
          /\ UNCHANGED << query, statusByName, filters >>
      BY <1>2, <1>9 DEF LoadMoreClicked, Booked, IsPane
    <2>2. Booked(changed) /\ Right(changed, query, directories)
      BY <1>2, <2>1, FetchBooked, LoadMoreRight DEF LoadMore
    <2>3. IsFiniteSet(directories[query.path])
      BY <1>2, DirectoriesAreFinite
    <2>4. PICK T : pane.entries \in Seq(T)
      BY <1>2, <2>1, <2>3, ShownIsSeq
    <2>5. changed.busy /\ Counted(changed, statusByName, filters)
      <3>1. pane.hasMore \in BOOLEAN
        BY <1>2 DEF Counted
      <3> QED
        BY <1>2, <2>1, <2>4, <3>1, FetchCounts DEF LoadMore
    <2> HIDE DEF changed
    <2> QED
      BY <1>2, <1>3, <2>1, <2>2, <2>5 DEF Satisfied
  \* At rest no fetch is live, and what the effect noted the last time counts.
  <1>10. ASSUME ~pane.busy, Renders(pane), UNCHANGED query PROVE EInv'
    <2>1. Counted(pane, statusByName', filters')
      BY <1>2, <1>10 DEF Counted, Booked
    <2>2. Satisfied(pane, statusByName', filters')
      <3> SUFFICES ASSUME pane.seen = << TRUE, TRUE >> PROVE Long(pane)
        BY DEF Satisfied
      <3>1. pane.seen = << NeedsMoreVisible(pane, statusByName, filters), pane.hasMore >>
        BY <1>2, <1>10 DEF Noticed
      <3>2. NeedsMoreVisible(pane, statusByName, filters) = TRUE /\ pane.hasMore = TRUE
        <4> DEFINE needs == NeedsMoreVisible(pane, statusByName, filters)
        <4> HIDE DEF needs
        <4>1. << needs, pane.hasMore >> = << TRUE, TRUE >>
          BY <3>1 DEF needs
        <4>2. needs = TRUE /\ pane.hasMore = TRUE
          BY <4>1
        <4> QED
          BY <4>2 DEF needs
      <3>3. Wants(pane, statusByName, filters)
        BY <3>2 DEF Wants
      <3> QED
        BY <1>2, <1>10, <3>3 DEF Noticed
    <2> QED
      BY <1>2, <1>3, <1>10, <2>1, <2>2
  <1>11. ASSUME NEW byName, StatusesArrive(byName) PROVE EInv'
    BY <1>10, <1>11 DEF StatusesArrive, IsSteady
  <1>12. ASSUME NEW filter, SwitchFilter(filter) PROVE EInv'
    BY <1>10, <1>12 DEF SwitchFilter, IsSteady
  <1>13. CASE UNCHANGED vars
    BY <1>4, <1>13 DEF vars
  <1> QED
    BY <1>5, <1>6, <1>7, <1>8, <1>9, <1>11, <1>12, <1>13 DEF Next, Arrival

\* Whatever the page size, the directories and the order of events: with a filter
\* on, a pane at rest shows a page of rows or all there are, or has fetched as many
\* pages as one call may: EnoughIsVisible. Every listing is answered, and statuses
\* and filters change at rest only: without either the runs show it wrong.
THEOREM PaneShowsEnough ==
    ASSUME ~MayBeLost, Steady
    PROVE  Spec => []EnoughIsVisible
  <1>1. EInv => EnoughIsVisible
    <2> SUFFICES ASSUME EInv PROVE EnoughIsVisible
      OBVIOUS
    <2>1. Booked(pane) /\ Right(pane, query, directories)
          /\ IsFiniteSet(directories[query.path])
      BY DirectoriesAreFinite DEF EInv, RInv, IInv
    <2>2. \A fetch \in pane.fetches : fetch.pages < MaxAutoPages
      BY <2>1 DEF Booked, IsPane, IsFetch
    <2>3. ASSUME ~pane.loading, filters # {}, pane.hasMore
          PROVE  \/ CountVisible(pane.entries, statusByName, filters) >= PageSize
                 \/ Len(pane.entries) >= MaxAutoPages * PageSize
      <3>1. ~pane.busy
        BY <2>1, <2>3 DEF Booked, IsPane
      <3>2. PICK T : pane.entries \in Seq(T)
        BY <2>1, <2>3, <3>1, ShownIsSeq
      <3>3. CountVisible(pane.entries, statusByName, filters) \in Nat
        BY <3>2, CountIsNat
      <3>4. CASE CountVisible(pane.entries, statusByName, filters) < PageSize
        BY <2>3, <3>1, <3>4 DEF EInv, Noticed, Wants, NeedsMoreVisible, Long
      <3> QED
        BY <3>3, <3>4, PagesAreSome
    <2> QED
      BY <2>2, <2>3 DEF EnoughIsVisible
  <1>2. EInv /\ [Next]_vars => EInv'
    BY NextShows
  <1> QED
    BY <1>1, <1>2, InitShows, PTL DEF Spec

-----------------------------------------------------------------------------
(* The server's order by name has every name in it, if no two have one rank:   *)
(* as many come before each as its place says, so every place is taken.        *)

\* In a strict order of finitely many, one is at each place.
LEMMA OneIsAtEachPlace ==
    ASSUME NEW T, IsFiniteSet(T), NEW below,
           \A a \in T : below[a] \in SUBSET T,
           \A a \in T : a \notin below[a],
           \A a, b \in T : a \in below[b] => below[a] \subseteq below[b],
           \A a, b \in T : a = b \/ a \in below[b] \/ b \in below[a]
    PROVE  /\ Cardinality(T) \in Nat
           /\ \A a \in T : Cardinality(below[a]) \in 0..(Cardinality(T) - 1)
           /\ \A a, b \in T : Cardinality(below[a]) = Cardinality(below[b]) => a = b
           /\ \A i \in 1..Cardinality(T) : \E a \in T : Cardinality(below[a]) = i - 1
  <1> DEFINE n == Cardinality(T)
             place == [a \in T |-> Cardinality(below[a])]
  <1>1. n \in Nat
    BY FS_CardinalityType
  <1>2. \A a \in T : /\ IsFiniteSet(below[a]) /\ Cardinality(below[a]) \in Nat
                     /\ Cardinality(below[a]) < n
    <2> TAKE a \in T
    <2>1. /\ IsFiniteSet(below[a]) /\ Cardinality(below[a]) \in Nat
          /\ Cardinality(below[a]) <= n
      BY <1>1, FS_Subset, FS_CardinalityType
    <2>2. Cardinality(below[a]) # n
      BY <1>1, FS_Subset
    <2> QED
      BY <2>1, <2>2, <1>1
  <1>3. ASSUME NEW a \in T, NEW b \in T, a \in below[b]
        PROVE  Cardinality(below[a]) < Cardinality(below[b])
    <2>1. below[a] \in SUBSET below[b] /\ below[a] # below[b]
      BY <1>3
    <2>2. /\ Cardinality(below[a]) <= Cardinality(below[b])
          /\ Cardinality(below[a]) # Cardinality(below[b])
      BY <2>1, <1>2, FS_Subset
    <2>3. Cardinality(below[a]) \in Nat /\ Cardinality(below[b]) \in Nat
      BY <1>2
    <2> QED
      BY <2>2, <2>3
  <1>4. \A a, b \in T : Cardinality(below[a]) = Cardinality(below[b]) => a = b
    <2> SUFFICES ASSUME NEW a \in T, NEW b \in T, a # b
                 PROVE  Cardinality(below[a]) # Cardinality(below[b])
      OBVIOUS
    <2>1. Cardinality(below[a]) \in Nat /\ Cardinality(below[b]) \in Nat
      BY <1>2
    <2>2. \/ Cardinality(below[a]) < Cardinality(below[b])
          \/ Cardinality(below[b]) < Cardinality(below[a])
      BY <1>3
    <2> QED
      BY <2>1, <2>2
  <1>5. \A a \in T : Cardinality(below[a]) \in 0..(n - 1)
    BY <1>1, <1>2
  <1>6. /\ place \in [T -> 0..(n - 1)]
        /\ \A a, b \in T : place[a] = place[b] => a = b
        /\ \A a \in T : place[a] = Cardinality(below[a])
    <2>1. \A a \in T : place[a] = Cardinality(below[a])
      OBVIOUS
    <2>2. place = [a \in T |-> place[a]]
      OBVIOUS
    <2>3. \A a \in T : place[a] \in 0..(n - 1)
      BY <1>5
    <2>4. \A a, b \in T : place[a] = place[b] => a = b
      BY <1>4
    <2> HIDE DEF place, n
    <2> QED
      BY <2>1, <2>2, <2>3, <2>4
  <1> HIDE DEF place
  <1>7. \A k \in 0..(n - 1) : \E a \in T : place[a] = k
    <2>1. IsFiniteSet(0..(n - 1)) /\ Cardinality(0..(n - 1)) = n
      BY <1>1, FS_Interval
    <2>2. place \in Injection(T, 0..(n - 1))
      BY <1>6, Fun_IsInj
    <2>3. place \in Surjection(T, 0..(n - 1))
      BY <2>1, <2>2, FS_Injection
    <2> HIDE DEF n
    <2> QED
      BY <2>3 DEF Surjection
  <1>8. \A i \in 1..n : \E a \in T : Cardinality(below[a]) = i - 1
    <2> TAKE i \in 1..n
    <2> HIDE DEF n
    <2>1. i - 1 \in 0..(n - 1)
      BY <1>1
    <2> QED
      BY <1>6, <1>7, <2>1
  <1> QED
    BY <1>1, <1>4, <1>5, <1>8

LEMMA SortedHasAll ==
    ASSUME NEW T, IsFiniteSet(T), NEW asked, asked.sortBy = "name",
           \A name \in T : Rank["name"][name] \in Nat,
           \A a, b \in T : Rank["name"][a] = Rank["name"][b] => a = b
    PROVE  /\ Cardinality(T) \in Nat /\ Sorted(T, asked) \in Seq(T)
           /\ Len(Sorted(T, asked)) = Cardinality(T)
           /\ { Sorted(T, asked)[i] : i \in 1..Len(Sorted(T, asked)) } = T
  <1> DEFINE n == Cardinality(T)
             Lower(a, b) == Precedes(asked, a, b)
             below == [name \in T |-> { other \in T : Lower(other, name) }]
             all == Sorted(T, asked)
  <1>1. /\ \A a \in T : ~Lower(a, a)
        /\ \A a, b, c \in T : Lower(a, b) /\ Lower(b, c) => Lower(a, c)
        /\ \A a, b \in T : a = b \/ Lower(a, b) \/ Lower(b, a)
    <2>1. CASE asked.sortDir = "asc"
      <3>1. \A a, b \in T : Lower(a, b) <=> Rank["name"][a] < Rank["name"][b]
        BY <2>1 DEF Precedes
      <3> HIDE DEF Lower
      <3> QED
        BY <3>1
    <2>2. CASE asked.sortDir # "asc"
      <3>1. \A a, b \in T : Lower(a, b) <=> Rank["name"][b] < Rank["name"][a]
        BY <2>2 DEF Precedes
      <3> HIDE DEF Lower
      <3> QED
        BY <3>1
    <2> QED
      BY <2>1, <2>2
  <1> HIDE DEF Lower
  <1>2. \A name \in T : below[name] = { other \in T : Lower(other, name) }
    OBVIOUS
  <1> HIDE DEF below
  <1>3. /\ n \in Nat
        /\ \A name \in T : Cardinality(below[name]) \in 0..(n - 1)
        /\ \A a, b \in T : Cardinality(below[a]) = Cardinality(below[b]) => a = b
        /\ \A i \in 1..n : \E name \in T : Cardinality(below[name]) = i - 1
    BY <1>1, <1>2, OneIsAtEachPlace
  <1>4. \A i \in 1..n : all[i] \in T /\ Cardinality(below[all[i]]) = i - 1
    <2> TAKE i \in 1..n
    <2>1. all[i] = CHOOSE name \in T :
                     Cardinality({ other \in T : Lower(other, name) }) = i - 1
      BY DEF Sorted, Lower
    <2> HIDE DEF n, all
    <2> QED
      BY <1>2, <1>3, <2>1
  <1>5. all = [i \in 1..n |-> all[i]]
    BY DEF Sorted
  <1> HIDE DEF all
  <1>6. all \in [1..n -> T]
    BY <1>4, <1>5
  <1> HIDE DEF n
  <1>7. all \in Seq(T) /\ Len(all) = n
    BY <1>3, <1>6
  <1>8. ASSUME NEW name \in T PROVE \E i \in 1..n : all[i] = name
    <2> DEFINE k == Cardinality(below[name])
    <2>1. k \in 0..(n - 1)
      BY <1>3
    <2> HIDE DEF k
    <2>2. k + 1 \in 1..n /\ (k + 1) - 1 = k
      BY <1>3, <2>1
    <2>3. all[k + 1] \in T /\ Cardinality(below[all[k + 1]]) = k
      BY <1>4, <2>2
    <2> QED
      BY <1>3, <2>2, <2>3 DEF k
  <1>9. { all[i] : i \in 1..n } = T
    BY <1>4, <1>8
  <1> QED
    BY <1>3, <1>7, <1>9 DEF all, n

\* The order of the other pages' servers is this one.
LEMMA SizesOrder == \A T, asked : Sizes!Sorted(T, asked) = Sorted(T, asked)
  BY DEF Sizes!Sorted, Sorted, Sizes!Precedes, Precedes, Sizes!Cardinality, Cardinality

LEMMA ComparisonOrder == \A T, asked : Comparison!Sorted(T, asked) = Sorted(T, asked)
  BY DEF Comparison!Sorted, Sorted, Comparison!Precedes, Precedes,
         Comparison!Cardinality, Cardinality

-----------------------------------------------------------------------------
(* The Count and Size page, for every tree and however often its user acts.  *)

States == { "not_scanned", "scanning", "completed", "stopped" }
Row == [name : Nat, state : States]

NameOf(p) == p[Len(p)]
NamesIn(directory) == { NameOf(p) : p \in Sizes!Children(directory) }
InOrder(dir) == [sortBy |-> "name", sortDir |-> dir]
AllOf(directory, dir) == Sizes!Sorted(NamesIn(directory), InOrder(dir))

\* What the page is instantiated with: a finite tree of paths, whose names have each
\* their own place in the order; a user who waits for answers; and answers that come.
SizesAreListed ==
    /\ Tree \subseteq Seq(Nat) /\ IsFiniteSet(Tree) /\ Start \in Tree
    /\ \A p \in Tree \ { Sizes!Root } : Rank["name"][NameOf(p)] \in Nat
    /\ \A p, q \in Tree \ { Sizes!Root } :
        Rank["name"][NameOf(p)] = Rank["name"][NameOf(q)] => NameOf(p) = NameOf(q)
    /\ RowsAtOnce \in Nat \ { 0 }
    /\ Patient = TRUE /\ MayRefuse = FALSE

\* The instance's Cardinality is the one of the theorems.
LEMMA CardinalityIsOne == \A S : Sizes!Cardinality(S) = Cardinality(S)
  BY DEF Cardinality, Sizes!Cardinality

LEMMA MaxIsGreatest ==
    ASSUME NEW a \in Int, NEW b \in Int
    PROVE  Sizes!Max({ a, b }) = IF a >= b THEN a ELSE b
  <1> DEFINE m == IF a >= b THEN a ELSE b
  <1>1. m \in { a, b } /\ \A y \in { a, b } : m >= y
    OBVIOUS
  <1>2. \A x \in { a, b } : (\A y \in { a, b } : x >= y) => x = m
    OBVIOUS
  <1> QED
    BY <1>1, <1>2 DEF Sizes!Max

LEMMA MinIsLeast ==
    ASSUME NEW a \in Int, NEW b \in Int
    PROVE  Sizes!Min({ a, b }) = IF a <= b THEN a ELSE b
  <1> DEFINE m == IF a <= b THEN a ELSE b
  <1>1. m \in { a, b } /\ \A y \in { a, b } : m =< y
    OBVIOUS
  <1>2. \A x \in { a, b } : (\A y \in { a, b } : x =< y) => x = m
    OBVIOUS
  <1> QED
    BY <1>1, <1>2 DEF Sizes!Min

\* A child is its parent's path and its own name.
LEMMA ChildIsNamed ==
    ASSUME SizesAreListed, NEW directory, NEW p \in Sizes!Children(directory)
    PROVE  /\ p \in Tree \ { Sizes!Root } /\ NameOf(p) \in Nat
           /\ p = Append(directory, NameOf(p))
  <1>1. p \in Seq(Nat) /\ p # << >> /\ directory = SubSeq(p, 1, Len(p) - 1)
    BY DEF Sizes!Children, Sizes!ParentPath, Sizes!Root, SizesAreListed
  <1>2. Len(p) \in Nat /\ Len(p) > 0 /\ Len(p) \in 1..Len(p)
    BY <1>1
  <1>3. NameOf(p) \in Nat
    BY <1>1, <1>2 DEF NameOf
  <1>4. p = Append(SubSeq(p, 1, Len(p) - 1), p[Len(p)])
    BY <1>1, <1>2
  <1> QED
    BY <1>1, <1>3, <1>4 DEF Sizes!Children, NameOf

LEMMA NamesAreChildren ==
    ASSUME SizesAreListed, NEW directory
    PROVE  /\ IsFiniteSet(Sizes!Children(directory)) /\ IsFiniteSet(NamesIn(directory))
           /\ Cardinality(NamesIn(directory)) = Cardinality(Sizes!Children(directory))
           /\ \A name \in NamesIn(directory) :
                name \in Nat /\ Append(directory, name) \in Tree
  <1> DEFINE S == Sizes!Children(directory)
             T == NamesIn(directory)
             f == [p \in S |-> NameOf(p)]
  <1>1. IsFiniteSet(S)
    <2>1. S \in SUBSET Tree
      BY DEF Sizes!Children
    <2> QED
      BY <2>1, FS_Subset DEF SizesAreListed
  <1>2. \A name \in T : name \in Nat /\ Append(directory, name) \in Tree
    BY ChildIsNamed DEF NamesIn
  <1>3. f \in [S -> T]
    BY DEF NamesIn
  <1>4. \A p, q \in S : f[p] = f[q] => p = q
    BY ChildIsNamed
  <1>5. \A name \in T : \E p \in S : f[p] = name
    BY DEF NamesIn
  <1> HIDE DEF S, T, f
  <1>6. f \in Injection(S, T) /\ f \in Surjection(S, T)
    BY <1>3, <1>4, <1>5, Fun_IsInj, Fun_IsSurj
  <1>7. IsFiniteSet(T) /\ Cardinality(T) = Cardinality(S)
    BY <1>1, <1>6, FS_Surjection
  <1> QED
    BY <1>1, <1>2, <1>7 DEF S, T

\* The server's order has every name in it.
LEMMA EveryPlaceIsTaken ==
    ASSUME SizesAreListed, NEW directory, NEW dir
    PROVE  /\ Cardinality(NamesIn(directory)) \in Nat
           /\ AllOf(directory, dir) \in Seq(NamesIn(directory))
           /\ Len(AllOf(directory, dir)) = Cardinality(NamesIn(directory))
  <1> DEFINE T == NamesIn(directory)
             asked == InOrder(dir)
  <1>1. \A name \in T : Rank["name"][name] \in Nat
    BY ChildIsNamed DEF NamesIn, SizesAreListed
  <1>2. \A a, b \in T : Rank["name"][a] = Rank["name"][b] => a = b
    BY ChildIsNamed DEF NamesIn, SizesAreListed
  <1>3. IsFiniteSet(T) /\ asked.sortBy = "name"
    BY NamesAreChildren DEF InOrder
  <1> HIDE DEF T, asked
  <1>4. /\ Cardinality(T) \in Nat /\ Sorted(T, asked) \in Seq(T)
        /\ Len(Sorted(T, asked)) = Cardinality(T)
    BY <1>1, <1>2, <1>3, SortedHasAll
  <1>5. AllOf(directory, dir) = Sorted(T, asked)
    BY SizesOrder DEF AllOf, T, asked
  <1> QED
    BY <1>4, <1>5 DEF T

-----------------------------------------------------------------------------
(* The invariant. A state the page has is the directory's own or "scanning",   *)
(* which makes it ask again; what is older than that waits for an answer that  *)
(* replaces it. (st: the states; at, dir: the path and sort of the page.)      *)

Known(st, shown, directory) == shown \in { st[directory], "scanning" }

\* Rows of the listing from the offset on.
AreRows(st, at, dir, listed, offset) ==
    /\ offset + Len(listed) <= Len(AllOf(at, dir))
    /\ \A i \in 1..Len(listed) :
        /\ listed[i].name = AllOf(at, dir)[offset + i]
        /\ Known(st, listed[i].state, Append(at, listed[i].name))

IsPage(st, at, dir, listed, more, offset) ==
    /\ AreRows(st, at, dir, listed, offset)
    /\ more = (offset + Len(listed) < Len(AllOf(at, dir)))

IsWhole(at, dir, listed) == Len(listed) >= RowsAtOnce \/ Len(listed) = Len(AllOf(at, dir))

GoodRows(st, at, dir, listed, more) ==
    IsPage(st, at, dir, listed, more, 0) /\ IsWhole(at, dir, listed)

GoodAnswer(st, at, dir, l) ==
    /\ IsPage(st, at, dir, l.answer.rows, l.answer.hasMore, l.offset)
    /\ l.kind # "more" => IsWhole(at, dir, l.answer.rows)

IsRequest(at, dir, r) ==
    /\ r.kind \in { "scan", "stop", "row" } /\ r.path = at /\ r.sortDir = dir
    /\ r.limit \in Nat /\ r.limit >= RowsAtOnce
    /\ r.kind = "row" => \E name \in Nat : r.directory = Append(at, name)

IsStatus(st, at, s) ==
    /\ s = [kind |-> s.kind, path |-> s.path, isAnswered |-> s.isAnswered, state |-> s.state]
    /\ s.kind \in { "effect", "poll", "call" } /\ s.path = at
    /\ s.isAnswered => Known(st, s.state, at)

IsListing(at, dir, l) ==
    /\ l = [kind |-> l.kind, path |-> l.path, sortDir |-> l.sortDir, offset |-> l.offset,
            limit |-> l.limit, isAnswered |-> l.isAnswered, isRefused |-> l.isRefused,
            answer |-> l.answer]
    /\ l.kind \in { "effect", "rowpoll", "more", "scanned" }
    /\ l.path = at /\ l.sortDir = dir /\ l.isRefused = FALSE
    /\ l.answer.rows \in Seq(Row)
    /\ l.offset \in Nat /\ l.limit \in Nat /\ l.limit >= RowsAtOnce
    /\ l.kind # "more" => l.offset = 0

TypesOk ==
    /\ state \in [Tree -> States] /\ path \in Tree
    /\ view = [path |-> view.path, state |-> view.state]
    /\ entries \in Seq(Row) /\ error = FALSE
    /\ \A r \in scanRequests : IsRequest(path, sortDir, r)
    /\ \A s \in statuses : IsStatus(state, path, s)
    /\ \A l \in listings : IsListing(path, sortDir, l)

ACallWaits == \E s \in statuses : s.kind = "call"
ARowScanWaits == \E l \in listings : l.kind = "scanned"

\* One request at a time, and nothing else of a handler with it; a scan is asked for
\* while no state is polled.
RequestIsAlone ==
    /\ \A r, q \in scanRequests : r = q
    /\ scanRequests # {} => Sizes!Handlers = {} /\ ~ACallWaits
    /\ \A r \in scanRequests : r.kind # "stop" =>
        /\ statuses = {} /\ view.state # "scanning"
        /\ \A l \in listings : l.kind = "rowpoll"

\* After the scan of a row, only rows are polled; while more is loaded, nothing is.
HandlerIsAlone ==
    /\ Sizes!Handlers # {} => statuses = {} /\ view.state # "scanning"
    /\ ARowScanWaits => \A l \in listings : l.kind \in { "scanned", "rowpoll" }
    /\ \A l \in listings : l.kind = "more" =>
        /\ listings = { l } /\ l.offset = Len(entries) /\ l.limit = RowsAtOnce
        /\ ~Sizes!IsScanning(entries) /\ GoodRows(state, path, sortDir, entries, hasMore)

ViewIsKnown == statuses # {} \/ (view.path = path /\ Known(state, view.state, path))

RowsAreKnown ==
    \/ statuses # {} \/ GoodRows(state, path, sortDir, entries, hasMore)
    \/ \E l \in listings : l.kind \in { "effect", "scanned" }

AnswersAreKnown ==
    \A l \in listings : l.isAnswered =>
        \/ statuses # {} \/ GoodAnswer(state, path, sortDir, l)
        \/ l.kind = "rowpoll" /\ ARowScanWaits

SInv ==
    /\ TypesOk /\ RequestIsAlone /\ HandlerIsAlone
    /\ ViewIsKnown /\ RowsAreKnown /\ AnswersAreKnown

-----------------------------------------------------------------------------
(* Listings *)

\* A page of the directory, as the server pages it.
LEMMA PageIsCut ==
    ASSUME SizesAreListed, state \in [Tree -> States],
           NEW l, l.path \in Tree, l.offset \in Nat, l.limit \in Nat,
           l.offset <= Len(AllOf(l.path, l.sortDir))
    PROVE  LET all == AllOf(l.path, l.sortDir)
               cut == Sizes!ListingOf(l)
               n == IF l.offset + l.limit <= Len(all) THEN l.limit ELSE Len(all) - l.offset
           IN  /\ Len(all) = Cardinality(Sizes!Children(l.path)) /\ Len(all) \in Nat
               /\ cut = [rows |-> cut.rows, hasMore |-> cut.hasMore]
               /\ cut.rows \in Seq(Row) /\ Len(cut.rows) = n /\ n \in Nat
               /\ \A i \in 1..n :
                    /\ l.offset + i \in 1..Len(all)
                    /\ cut.rows[i] = [name |-> all[l.offset + i],
                                       state |-> state[Append(l.path, all[l.offset + i])]]
               /\ cut.hasMore = (l.offset + l.limit < Len(all))
  <1> DEFINE all == AllOf(l.path, l.sortDir)
             cut == Sizes!ListingOf(l)
             total == Len(all)
             n == IF l.offset + l.limit <= total THEN l.limit ELSE total - l.offset
             rowOf(i) == [name |-> all[l.offset + i],
                          state |-> state[Append(l.path, all[l.offset + i])]]
             last == Sizes!Min({ l.offset + l.limit, total })
             count == Sizes!Max({ last - l.offset, 0 })
  <1>1. /\ all \in Seq(NamesIn(l.path)) /\ total \in Nat
        /\ total = Cardinality(Sizes!Children(l.path))
    BY EveryPlaceIsTaken, NamesAreChildren
  <1>2. \A i \in 1..total : all[i] \in NamesIn(l.path)
    BY <1>1, ElementOfSeq
  <1> HIDE DEF all
  <1>3. n \in Nat /\ \A i \in 1..n : l.offset + i \in 1..total
    BY <1>1 DEF all
  <1>4. last = (IF l.offset + l.limit <= total THEN l.offset + l.limit ELSE total)
    BY <1>1, MinIsLeast
  <1>5. count = n
    <2>1. last - l.offset = n /\ last - l.offset \in Int
      BY <1>1, <1>3, <1>4
    <2>2. count = Sizes!Max({ n, 0 })
      BY <2>1
    <2> HIDE DEF n, count
    <2>3. n \in Int /\ 0 \in Int /\ n >= 0
      BY <1>3
    <2>4. Sizes!Max({ n, 0 }) = IF n >= 0 THEN n ELSE 0
      BY <2>3, MaxIsGreatest
    <2> QED
      BY <2>2, <2>3, <2>4
  <1>6. cut = [rows |-> [i \in 1..count |-> rowOf(i)], hasMore |-> l.offset + l.limit < total]
    BY DEF Sizes!ListingOf, AllOf, NamesIn, NameOf, InOrder, all
  <1> HIDE DEF cut, last, total, n, count
  <1>7. \A i \in 1..n : rowOf(i) \in Row
    <2> TAKE i \in 1..n
    <2>1. /\ all[l.offset + i] \in Nat
          /\ Append(l.path, all[l.offset + i]) \in Tree
      BY <1>2, <1>3, NamesAreChildren
    <2> QED
      BY <2>1 DEF Row
  <1> DEFINE listed == [i \in 1..n |-> rowOf(i)]
  <1>8. cut.rows = listed /\ cut.hasMore = (l.offset + l.limit < total)
        /\ cut = [rows |-> cut.rows, hasMore |-> cut.hasMore]
    BY <1>5, <1>6
  <1> HIDE DEF rowOf
  <1>9. listed \in Seq(Row) /\ Len(listed) = n /\ \A i \in 1..n : listed[i] = rowOf(i)
    BY <1>3, <1>7
  <1> HIDE DEF listed
  <1> QED
    BY <1>1, <1>3, <1>8, <1>9 DEF all, cut, total, n, rowOf

\* Such a page is one of rows that are known, and as long as the page or the directory.
LEMMA PageIsGood ==
    ASSUME SizesAreListed, state \in [Tree -> States],
           NEW l, l.path \in Tree, l.offset \in Nat, l.limit \in Nat,
           l.offset <= Len(AllOf(l.path, l.sortDir))
    PROVE  LET cut == Sizes!ListingOf(l)
           IN  /\ cut.rows \in Seq(Row)
               /\ IsPage(state, l.path, l.sortDir, cut.rows, cut.hasMore, l.offset)
               /\ l.offset = 0 /\ l.limit >= RowsAtOnce => IsWhole(l.path, l.sortDir, cut.rows)
  <1> DEFINE all == AllOf(l.path, l.sortDir)
             cut == Sizes!ListingOf(l)
             n == IF l.offset + l.limit <= Len(all) THEN l.limit ELSE Len(all) - l.offset
  <1>1. /\ Len(all) \in Nat /\ n \in Nat
        /\ cut.rows \in Seq(Row) /\ Len(cut.rows) = n
        /\ \A i \in 1..n : cut.rows[i] = [name |-> all[l.offset + i],
                                           state |-> state[Append(l.path, all[l.offset + i])]]
        /\ cut.hasMore = (l.offset + l.limit < Len(all))
    BY PageIsCut
  <1> HIDE DEF all, cut
  <1>2. \A i \in 1..n : /\ cut.rows[i].name = all[l.offset + i]
                        /\ Known(state, cut.rows[i].state, Append(l.path, cut.rows[i].name))
    <2> HIDE DEF n
    <2> TAKE i \in 1..n
    <2>1. cut.rows[i] = [name |-> all[l.offset + i],
                          state |-> state[Append(l.path, all[l.offset + i])]]
      BY <1>1
    <2> QED
      BY <2>1 DEF Known
  <1>3. l.offset + n <= Len(all)
    BY <1>1
  <1>4. (l.offset + l.limit < Len(all)) = (l.offset + n < Len(all))
    BY <1>1
  <1>5. l.offset = 0 /\ l.limit >= RowsAtOnce => n >= RowsAtOnce \/ n = Len(all)
    BY <1>1 DEF SizesAreListed
  <1> HIDE DEF n
  <1> QED
    BY <1>1, <1>2, <1>3, <1>4, <1>5 DEF IsPage, AreRows, IsWhole, all, cut

\* What is known stays so while no scan begins.
LEMMA KnownLater ==
    ASSUME SizesAreListed, NEW st, NEW later, NEW at \in Tree, NEW dir,
           \A p \in Tree : st[p] \in { later[p], "scanning" }
    PROVE  /\ \A shown, p : p \in Tree /\ Known(st, shown, p) => Known(later, shown, p)
           /\ \A listed, more, offset :
                /\ listed \in Seq(Row) /\ offset \in Nat
                /\ IsPage(st, at, dir, listed, more, offset)
                => IsPage(later, at, dir, listed, more, offset)
           /\ \A s : IsStatus(st, at, s) => IsStatus(later, at, s)
  <1>1. \A shown, p : p \in Tree /\ Known(st, shown, p) => Known(later, shown, p)
    BY DEF Known
  <1>2. \A s : IsStatus(st, at, s) => IsStatus(later, at, s)
    BY <1>1 DEF IsStatus
  <1>3. ASSUME NEW listed \in Seq(Row), NEW offset \in Nat, NEW more,
               IsPage(st, at, dir, listed, more, offset)
        PROVE  IsPage(later, at, dir, listed, more, offset)
    <2> DEFINE all == AllOf(at, dir)
    <2>1. Len(all) \in Nat /\ all \in Seq(NamesIn(at))
      BY EveryPlaceIsTaken
    <2>2. Len(listed) \in Nat /\ offset + Len(listed) <= Len(all)
      BY <1>3, LenProperties DEF IsPage, AreRows
    <2>3. \A i \in 1..Len(listed) : Append(at, all[offset + i]) \in Tree
      <3> TAKE i \in 1..Len(listed)
      <3> HIDE DEF all
      <3>1. offset + i \in 1..Len(all)
        BY <2>1, <2>2
      <3>2. all[offset + i] \in NamesIn(at)
        BY <2>1, <3>1, ElementOfSeq
      <3> QED
        BY <3>2, NamesAreChildren
    <2>4. \A i \in 1..Len(listed) :
            /\ listed[i].name = all[offset + i]
            /\ Known(st, listed[i].state, Append(at, listed[i].name))
      BY <1>3 DEF IsPage, AreRows
    <2>5. \A i \in 1..Len(listed) : Known(later, listed[i].state, Append(at, listed[i].name))
      BY <2>3, <2>4, <1>1
    <2> HIDE DEF all
    <2> QED
      BY <1>3, <2>2, <2>4, <2>5 DEF IsPage, AreRows, all
  <1> QED
    BY <1>1, <1>2, <1>3

-----------------------------------------------------------------------------
(* The server's steps *)

LEMMA NewListing ==
    ASSUME NEW kind \in { "effect", "rowpoll", "more", "scanned" }, NEW at, NEW dir,
           NEW offset \in Nat, NEW limit \in Nat, limit >= RowsAtOnce,
           kind # "more" => offset = 0
    PROVE  LET l == Sizes!Listing(kind, at, dir, offset, limit)
           IN  /\ IsListing(at, dir, l)
               /\ l.kind = kind /\ ~l.isAnswered /\ l.offset = offset /\ l.limit = limit
  <1> DEFINE l == Sizes!Listing(kind, at, dir, offset, limit)
  <1>1. l = [kind |-> kind, path |-> at, sortDir |-> dir, offset |-> offset, limit |-> limit,
             isAnswered |-> FALSE, isRefused |-> FALSE, answer |-> Sizes!NoAnswer]
    BY DEF Sizes!Listing
  <1>2. Sizes!NoAnswer.rows \in Seq(Row)
    BY DEF Sizes!NoAnswer
  <1> HIDE DEF l
  <1> QED
    BY <1>1, <1>2 DEF IsListing, l

LEMMA InitIsKnown == SizesAreListed /\ Sizes!Init => SInv
  <1> SUFFICES ASSUME SizesAreListed, Sizes!Init PROVE SInv
    OBVIOUS
  <1>1. listings = { Sizes!Listing("effect", path, sortDir, 0, RowsAtOnce) } /\ entries = << >>
        /\ statuses = { Sizes!Status("effect", path) } /\ scanRequests = {} /\ error = FALSE
        /\ path = Start
    BY DEF Sizes!Init, Sizes!Refetched, Sizes!Fresh
  <1>2. TypesOk
    <2>1. state \in [Tree -> States] /\ path \in Tree
          /\ view = [path |-> view.path, state |-> view.state]
      BY DEF Sizes!Init, States, SizesAreListed
    <2>2. \A l \in listings : IsListing(path, sortDir, l)
      BY <1>1, NewListing DEF SizesAreListed
    <2>3. \A s \in statuses : IsStatus(state, path, s)
      BY <1>1 DEF Sizes!Status, IsStatus
    <2>4. entries \in Seq(Row)
      BY <1>1
    <2> QED
      BY <1>1, <2>1, <2>2, <2>3, <2>4 DEF TypesOk
  <1>3. Sizes!Handlers = {} /\ ~ARowScanWaits /\ \A l \in listings : l.kind # "more"
    BY <1>1 DEF Sizes!Handlers, ARowScanWaits, Sizes!Listing
  <1>4. RequestIsAlone /\ HandlerIsAlone
    BY <1>1, <1>3 DEF RequestIsAlone, HandlerIsAlone
  <1>5. ViewIsKnown /\ RowsAreKnown /\ AnswersAreKnown
    BY <1>1 DEF ViewIsKnown, RowsAreKnown, AnswersAreKnown
  <1> QED
    BY <1>2, <1>4, <1>5 DEF SInv

\* Good answers and rows stay good while no scan begins.
LEMMA GoodLater ==
    ASSUME SizesAreListed, TypesOk, \A p \in Tree : state[p] \in { state'[p], "scanning" }
    PROVE  /\ \A s \in statuses : IsStatus(state', path, s)
           /\ Known(state, view.state, path) => Known(state', view.state, path)
           /\ GoodRows(state, path, sortDir, entries, hasMore)
                => GoodRows(state', path, sortDir, entries, hasMore)
           /\ \A l \in listings : GoodAnswer(state, path, sortDir, l)
                => GoodAnswer(state', path, sortDir, l)
  <1>1. path \in Tree /\ entries \in Seq(Row)
        /\ \A l \in listings : l.answer.rows \in Seq(Row) /\ l.offset \in Nat
    BY DEF TypesOk, IsListing
  <1>2. /\ \A shown, p : p \in Tree /\ Known(state, shown, p) => Known(state', shown, p)
        /\ \A listed, more, offset :
             /\ listed \in Seq(Row) /\ offset \in Nat
             /\ IsPage(state, path, sortDir, listed, more, offset)
             => IsPage(state', path, sortDir, listed, more, offset)
        /\ \A s : IsStatus(state, path, s) => IsStatus(state', path, s)
    BY <1>1, KnownLater
  <1> QED
    BY <1>1, <1>2 DEF TypesOk, GoodRows, GoodAnswer

LEMMA ScanEndKeeps ==
    ASSUME SizesAreListed, SInv, NEW directory \in Tree, Sizes!DirectoryEnds(directory)
    PROVE  SInv'
  <1>1. state' \in [Tree -> States] /\ \A p \in Tree : state[p] \in { state'[p], "scanning" }
    BY DEF SInv, TypesOk, Sizes!DirectoryEnds, States
  <1>2. UNCHANGED << path, sortDir, view, statuses, entries, hasMore, error, listings,
                     scanRequests >>
    BY DEF Sizes!DirectoryEnds, Sizes!page
  <1>3. /\ \A s \in statuses : IsStatus(state', path, s)
        /\ Known(state, view.state, path) => Known(state', view.state, path)
        /\ GoodRows(state, path, sortDir, entries, hasMore)
             => GoodRows(state', path, sortDir, entries, hasMore)
        /\ \A l \in listings : GoodAnswer(state, path, sortDir, l)
             => GoodAnswer(state', path, sortDir, l)
    BY <1>1, GoodLater DEF SInv
  <1>4. TypesOk'
    BY <1>1, <1>2, <1>3 DEF SInv, TypesOk
  <1>5. RequestIsAlone'
    BY <1>2 DEF SInv, RequestIsAlone, Sizes!Handlers, ACallWaits
  <1>6. HandlerIsAlone'
    BY <1>2, <1>3 DEF SInv, HandlerIsAlone, Sizes!Handlers, ARowScanWaits, Sizes!IsScanning
  <1>7. ViewIsKnown' /\ RowsAreKnown' /\ AnswersAreKnown'
    BY <1>2, <1>3 DEF SInv, ViewIsKnown, RowsAreKnown, AnswersAreKnown, ARowScanWaits
  <1> QED
    BY <1>4, <1>5, <1>6, <1>7 DEF SInv

LEMMA StopKeeps ==
    ASSUME SizesAreListed, SInv, NEW request \in scanRequests, Sizes!ServerStops(request)
    PROVE  SInv'
  <1>1. state' \in [Tree -> States] /\ \A p \in Tree : state[p] \in { state'[p], "scanning" }
    BY DEF SInv, TypesOk, Sizes!ServerStops, Sizes!Stopped, States
  <1>2. /\ UNCHANGED << path, sortDir, view, entries, hasMore, error, listings >>
        /\ scanRequests' = scanRequests \ { request }
        /\ statuses' = statuses \cup { Sizes!Status("call", request.path) }
    BY DEF Sizes!ServerStops
  <1>3. scanRequests' = {} /\ Sizes!Handlers = {}
    BY <1>2 DEF SInv, RequestIsAlone
  <1>4. request.path = path
    BY DEF SInv, TypesOk, IsRequest
  <1>5. \A s \in statuses' : IsStatus(state', path, s)
    <2>1. IsStatus(state', path, Sizes!Status("call", path))
      BY DEF Sizes!Status, IsStatus
    <2>2. \A s \in statuses : IsStatus(state', path, s)
      BY <1>1, GoodLater DEF SInv
    <2> QED
      BY <1>2, <1>4, <2>1, <2>2
  <1>6. TypesOk'
    BY <1>1, <1>2, <1>3, <1>5 DEF SInv, TypesOk
  <1>7. RequestIsAlone'
    BY <1>3 DEF RequestIsAlone
  <1>8. HandlerIsAlone'
    BY <1>2, <1>3 DEF HandlerIsAlone, Sizes!Handlers, ARowScanWaits
  <1>9. statuses' # {}
    BY <1>2
  <1>10. ViewIsKnown' /\ RowsAreKnown' /\ AnswersAreKnown'
    BY <1>9 DEF ViewIsKnown, RowsAreKnown, AnswersAreKnown
  <1> QED
    BY <1>6, <1>7, <1>8, <1>10 DEF SInv

\* A scan of the directory: its answer makes the page ask for everything.
LEMMA ScanKeeps ==
    ASSUME SizesAreListed, SInv, NEW request \in scanRequests,
           Sizes!ServerScans(request), request.kind = "scan"
    PROVE  SInv'
  <1>1. state' \in [Tree -> States]
    BY DEF SInv, TypesOk, Sizes!ServerScans, Sizes!Scanned, States
  <1>2. /\ UNCHANGED << path, sortDir, view, entries, hasMore, error, listings >>
        /\ scanRequests' = scanRequests \ { request }
        /\ statuses' = statuses \cup { Sizes!Status("call", request.path) }
    BY DEF Sizes!ServerScans
  <1>3. scanRequests' = {} /\ Sizes!Handlers = {} /\ statuses = {}
    BY <1>2 DEF SInv, RequestIsAlone
  <1>4. request.path = path
    BY DEF SInv, TypesOk, IsRequest
  <1>5. \A s \in statuses' : IsStatus(state', path, s)
    <2>1. IsStatus(state', path, Sizes!Status("call", path))
      BY DEF Sizes!Status, IsStatus
    <2> QED
      BY <1>2, <1>3, <1>4, <2>1
  <1>6. TypesOk'
    BY <1>1, <1>2, <1>3, <1>5 DEF SInv, TypesOk
  <1>7. RequestIsAlone'
    BY <1>3 DEF RequestIsAlone
  <1>8. HandlerIsAlone'
    BY <1>2, <1>3 DEF HandlerIsAlone, Sizes!Handlers, ARowScanWaits
  <1>9. statuses' # {}
    BY <1>2
  <1>10. ViewIsKnown' /\ RowsAreKnown' /\ AnswersAreKnown'
    BY <1>9 DEF ViewIsKnown, RowsAreKnown, AnswersAreKnown
  <1> QED
    BY <1>6, <1>7, <1>8, <1>10 DEF SInv

\* The scan of a child does not reach the directory.
LEMMA ScanStaysBelow ==
    ASSUME SizesAreListed, NEW directory \in Tree, NEW name \in Nat
    PROVE  directory \notin Sizes!Below(Append(directory, name))
  <1> SUFFICES ASSUME directory \in Sizes!Below(Append(directory, name)) PROVE FALSE
    OBVIOUS
  <1>1. directory \in Seq(Nat)
    BY DEF SizesAreListed
  <1>2. PICK k \in 0..Len(directory) : Append(directory, name) = SubSeq(directory, 1, k)
    BY DEF Sizes!Below, Sizes!IsWithinSubtree, Sizes!Lineage
  <1>3. Len(SubSeq(directory, 1, k)) <= Len(directory)
    BY <1>1
  <1>4. Len(Append(directory, name)) = Len(directory) + 1 /\ Len(directory) \in Nat
    BY <1>1
  <1> QED
    BY <1>2, <1>3, <1>4

\* A scan of a row: its handler asks for the rows. An answer to a poll that was
\* given before is replaced by that one's.
LEMMA RowScanKeeps ==
    ASSUME SizesAreListed, SInv, NEW request \in scanRequests,
           Sizes!ServerScans(request), request.kind = "row"
    PROVE  SInv'
  <1> DEFINE asked == Sizes!Listing("scanned", request.path, request.sortDir, 0, request.limit)
  <1>1. state' \in [Tree -> States]
    BY DEF SInv, TypesOk, Sizes!ServerScans, Sizes!Scanned, States
  <1>2. /\ UNCHANGED << path, sortDir, view, entries, hasMore, error, statuses >>
        /\ scanRequests' = scanRequests \ { request }
        /\ listings' = listings \cup { asked }
        /\ state' = Sizes!Scanned(request.directory)
    BY DEF Sizes!ServerScans
  <1>3. /\ scanRequests' = {} /\ Sizes!Handlers = {} /\ statuses = {} /\ view.state # "scanning"
        /\ \A l \in listings : l.kind = "rowpoll"
    BY <1>2 DEF SInv, RequestIsAlone
  <1>4. /\ request.path = path /\ request.sortDir = sortDir
        /\ request.limit \in Nat /\ request.limit >= RowsAtOnce
        /\ \E name \in Nat : request.directory = Append(path, name)
    BY DEF SInv, TypesOk, IsRequest
  <1>5. path \in Tree
    BY DEF SInv, TypesOk
  <1>6. state'[path] = state[path]
    BY <1>2, <1>4, <1>5, ScanStaysBelow DEF Sizes!Scanned
  <1>7. IsListing(path, sortDir, asked)
    BY <1>4, NewListing
  <1>8. asked.kind = "scanned" /\ ~asked.isAnswered
    BY <1>4, NewListing
  <1> HIDE DEF asked
  <1>9. TypesOk'
    BY <1>1, <1>2, <1>3, <1>7 DEF SInv, TypesOk
  <1>10. RequestIsAlone'
    BY <1>3 DEF RequestIsAlone
  <1>11. HandlerIsAlone'
    BY <1>2, <1>3, <1>8 DEF HandlerIsAlone, Sizes!Handlers
  <1>12. ViewIsKnown'
    BY <1>2, <1>3, <1>6 DEF SInv, ViewIsKnown, Known
  <1>13. RowsAreKnown' /\ AnswersAreKnown'
    BY <1>2, <1>3, <1>8 DEF RowsAreKnown, AnswersAreKnown, ARowScanWaits
  <1> QED
    BY <1>9, <1>10, <1>11, <1>12, <1>13 DEF SInv

LEMMA ReadKeeps ==
    ASSUME SizesAreListed, SInv, NEW request \in statuses, Sizes!ServerReads(request)
    PROVE  SInv'
  <1> DEFINE read == [request EXCEPT !.isAnswered = TRUE, !.state = state[request.path]]
  <1>1. /\ UNCHANGED << state, path, sortDir, view, entries, hasMore, error, listings,
                        scanRequests >>
        /\ statuses' = (statuses \ { request }) \cup { read }
    BY DEF Sizes!ServerReads
  <1>2. IsStatus(state, path, request)
    BY DEF SInv, TypesOk
  <1>a. read = [request EXCEPT !.isAnswered = TRUE, !.state = state[request.path]]
    OBVIOUS
  <1> HIDE DEF read
  <1>3. read = [kind |-> request.kind, path |-> path, isAnswered |-> TRUE,
                state |-> state[path]]
    BY <1>2, <1>a DEF IsStatus
  <1>4. IsStatus(state, path, read) /\ read.kind = request.kind
    BY <1>2, <1>3 DEF IsStatus, Known
  <1>5. statuses # {} /\ statuses' # {}
    BY <1>1
  <1>6. TypesOk'
    BY <1>1, <1>4 DEF SInv, TypesOk
  <1>7. RequestIsAlone'
    BY <1>1, <1>4, <1>5 DEF SInv, RequestIsAlone, Sizes!Handlers, ACallWaits
  <1>8. Sizes!Handlers = {}
    BY <1>5 DEF SInv, HandlerIsAlone
  <1>9. HandlerIsAlone'
    BY <1>1, <1>8 DEF HandlerIsAlone, Sizes!Handlers, ARowScanWaits
  <1>10. ViewIsKnown' /\ RowsAreKnown' /\ AnswersAreKnown'
    BY <1>5 DEF ViewIsKnown, RowsAreKnown, AnswersAreKnown
  <1> QED
    BY <1>6, <1>7, <1>9, <1>10 DEF SInv

LEMMA ListKeeps ==
    ASSUME SizesAreListed, SInv, NEW listing \in listings, NEW refused \in BOOLEAN,
           Sizes!ServerLists(listing, refused)
    PROVE  SInv'
  <1> DEFINE cut == Sizes!ListingOf(listing)
             read == [listing EXCEPT !.isAnswered = TRUE, !.isRefused = refused,
                                     !.answer = IF refused THEN Sizes!NoAnswer ELSE cut]
  <1>1. /\ UNCHANGED << state, path, sortDir, view, statuses, entries, hasMore, error,
                        scanRequests >>
        /\ listings' = (listings \ { listing }) \cup { read } /\ refused = FALSE
    BY DEF Sizes!ServerLists, SizesAreListed
  <1>2. IsListing(path, sortDir, listing) /\ path \in Tree /\ state \in [Tree -> States]
    BY DEF SInv, TypesOk
  <1>a. read = [listing EXCEPT !.isAnswered = TRUE, !.isRefused = FALSE, !.answer = cut]
    BY <1>1
  <1> HIDE DEF read, cut
  <1>3. read = [kind |-> listing.kind, path |-> path, sortDir |-> sortDir,
                offset |-> listing.offset, limit |-> listing.limit, isAnswered |-> TRUE,
                isRefused |-> FALSE, answer |-> cut]
    BY <1>2, <1>a DEF IsListing
  <1>4. listing.offset <= Len(AllOf(path, sortDir))
    <2>1. CASE listing.kind = "more"
      <3>1. /\ GoodRows(state, path, sortDir, entries, hasMore)
            /\ listing.offset = Len(entries)
        BY <2>1 DEF SInv, HandlerIsAlone
      <3>2. 0 + Len(entries) <= Len(AllOf(path, sortDir)) /\ Len(entries) \in Nat
        BY <3>1, LenProperties DEF GoodRows, IsPage, AreRows, SInv, TypesOk
      <3> QED
        BY <3>1, <3>2
    <2>2. CASE listing.kind # "more"
      <3>1. Len(AllOf(path, sortDir)) \in Nat
        BY EveryPlaceIsTaken
      <3> QED
        BY <2>2, <1>2, <3>1 DEF IsListing
    <2> QED
      BY <2>1, <2>2
  <1>5. /\ cut.rows \in Seq(Row)
        /\ IsPage(state, path, sortDir, cut.rows, cut.hasMore, listing.offset)
        /\ listing.kind # "more" => IsWhole(path, sortDir, cut.rows)
    BY <1>2, <1>4, PageIsGood DEF IsListing, cut
  <1>6. /\ IsListing(path, sortDir, read) /\ GoodAnswer(state, path, sortDir, read)
        /\ read.kind = listing.kind /\ read.offset = listing.offset
        /\ read.limit = listing.limit
    BY <1>2, <1>3, <1>5 DEF IsListing, GoodAnswer
  <1>7. TypesOk'
    BY <1>1, <1>6 DEF SInv, TypesOk
  <1>8. (Sizes!Handlers' = {} <=> Sizes!Handlers = {}) /\ (ARowScanWaits' <=> ARowScanWaits)
    BY <1>1, <1>6 DEF Sizes!Handlers, ARowScanWaits
  <1>9. RequestIsAlone'
    BY <1>1, <1>6, <1>8 DEF SInv, RequestIsAlone, ACallWaits
  <1>10. HandlerIsAlone'
    <2>1. Sizes!Handlers' # {} => statuses' = {} /\ view'.state # "scanning"
      BY <1>1, <1>8 DEF SInv, HandlerIsAlone
    <2>2. ARowScanWaits' => \A l \in listings' : l.kind \in { "scanned", "rowpoll" }
      BY <1>1, <1>6, <1>8 DEF SInv, HandlerIsAlone
    <2>3. ASSUME NEW l \in listings', l.kind = "more"
          PROVE  /\ listings' = { l } /\ l.offset = Len(entries') /\ l.limit = RowsAtOnce
                 /\ ~Sizes!IsScanning(entries')
                 /\ GoodRows(state', path', sortDir', entries', hasMore')
      <3>1. CASE l = read
        <4>1. listing.kind = "more"
          BY <1>6, <2>3, <3>1
        <4> QED
          BY <1>1, <1>6, <3>1, <4>1 DEF SInv, HandlerIsAlone
      <3>2. CASE l # read
        <4>1. l \in listings /\ l # listing
          BY <1>1, <3>2
        <4> QED
          BY <2>3, <4>1 DEF SInv, HandlerIsAlone
      <3> QED
        BY <3>1, <3>2
    <2> QED
      BY <2>1, <2>2, <2>3 DEF HandlerIsAlone
  <1>11. ViewIsKnown' /\ RowsAreKnown' /\ AnswersAreKnown'
    BY <1>1, <1>6, <1>8 DEF SInv, ViewIsKnown, RowsAreKnown, AnswersAreKnown
  <1> QED
    BY <1>7, <1>9, <1>10, <1>11 DEF SInv

-----------------------------------------------------------------------------
(* The page's steps *)

\* What is loaded is the first page at least.
LEMMA LoadedIsAPage ==
    ASSUME SizesAreListed, TypesOk
    PROVE  Sizes!LoadedSoFar \in Nat /\ Sizes!LoadedSoFar >= RowsAtOnce
  <1>1. Len(entries) \in Nat /\ RowsAtOnce \in Nat
    BY LenProperties DEF TypesOk, SizesAreListed
  <1>2. Sizes!LoadedSoFar = IF Len(entries) >= RowsAtOnce THEN Len(entries) ELSE RowsAtOnce
    BY <1>1, MaxIsGreatest DEF Sizes!LoadedSoFar
  <1> QED
    BY <1>1, <1>2

\* An effect's listing alone, and the requests of handlers with it: nothing is known
\* of the rows before it comes.
LEMMA RefetchKnows ==
    ASSUME SizesAreListed, TypesOk', \E l \in listings' : l.kind = "effect",
           \A l \in listings' : ~l.isAnswered /\ l.kind = "effect"
    PROVE  HandlerIsAlone' /\ RowsAreKnown' /\ AnswersAreKnown'
  <1>1. Sizes!Handlers' = {} /\ ~ARowScanWaits'
    BY DEF Sizes!Handlers, ARowScanWaits
  <1>2. HandlerIsAlone'
    BY <1>1 DEF HandlerIsAlone
  <1> QED
    BY <1>2 DEF RowsAreKnown, AnswersAreKnown

LEMMA StatusComesKeeps ==
    ASSUME SizesAreListed, SInv, NEW request \in statuses, Sizes!StatusArrives(request)
    PROVE  SInv'
  <1> DEFINE asked == Sizes!Listing("effect", path, sortDir, 0, RowsAtOnce)
  <1>1. /\ UNCHANGED << state, path, sortDir, entries, hasMore, error, scanRequests >>
        /\ view' = [path |-> request.path, state |-> request.state]
        /\ statuses' \subseteq statuses
        /\ listings' = Sizes!Fresh(listings) \cup { asked }
    BY DEF Sizes!StatusArrives, Sizes!Ticked, Sizes!Refetched
  <1>2. IsStatus(state, path, request) /\ request.isAnswered
    BY DEF SInv, TypesOk, Sizes!StatusArrives
  <1>3. view'.path = path /\ Known(state, view'.state, path)
        /\ view' = [path |-> view'.path, state |-> view'.state]
    BY <1>1, <1>2 DEF IsStatus
  <1>4. /\ IsListing(path, sortDir, asked) /\ asked.kind = "effect" /\ ~asked.isAnswered
    BY NewListing DEF SizesAreListed
  <1> HIDE DEF asked
  <1>5. Sizes!Handlers = {}
    BY DEF SInv, HandlerIsAlone
  <1>6. listings' = { asked }
    BY <1>1, <1>5 DEF SInv, TypesOk, IsListing, Sizes!Fresh, Sizes!Handlers
  <1>7. TypesOk'
    BY <1>1, <1>3, <1>4, <1>6 DEF SInv, TypesOk
  <1>8. HandlerIsAlone' /\ RowsAreKnown' /\ AnswersAreKnown'
    BY <1>4, <1>6, <1>7, RefetchKnows
  <1>9. RequestIsAlone'
    <2>1. \A r \in scanRequests : r.kind = "stop"
      BY DEF SInv, RequestIsAlone
    <2>2. Sizes!Handlers' = {}
      BY <1>4, <1>6 DEF Sizes!Handlers
    <2> QED
      BY <1>1, <2>1, <2>2 DEF SInv, RequestIsAlone, ACallWaits
  <1>10. ViewIsKnown'
    BY <1>1, <1>3 DEF ViewIsKnown
  <1> QED
    BY <1>7, <1>8, <1>9, <1>10 DEF SInv

LEMMA PollStatusKeeps ==
    ASSUME SizesAreListed, SInv, Sizes!PollStatus
    PROVE  SInv'
  <1>1. /\ UNCHANGED << state, path, sortDir, view, entries, hasMore, error, listings,
                        scanRequests >>
        /\ statuses' = statuses \cup { Sizes!Status("poll", path) }
        /\ view.state = "scanning"
    BY DEF Sizes!PollStatus
  <1>2. /\ IsStatus(state, path, Sizes!Status("poll", path))
        /\ Sizes!Status("poll", path).kind = "poll"
    BY DEF Sizes!Status, IsStatus
  <1>3. Sizes!Handlers = {} /\ \A r \in scanRequests : r.kind = "stop"
    BY <1>1 DEF SInv, HandlerIsAlone, RequestIsAlone
  <1>4. TypesOk'
    BY <1>1, <1>2 DEF SInv, TypesOk
  <1>5. RequestIsAlone'
    BY <1>1, <1>2, <1>3 DEF SInv, RequestIsAlone, Sizes!Handlers, ACallWaits
  <1>6. HandlerIsAlone'
    BY <1>1, <1>3 DEF HandlerIsAlone, Sizes!Handlers, ARowScanWaits
  <1>7. ViewIsKnown' /\ RowsAreKnown' /\ AnswersAreKnown'
    BY <1>1 DEF ViewIsKnown, RowsAreKnown, AnswersAreKnown
  <1> QED
    BY <1>4, <1>5, <1>6, <1>7 DEF SInv

LEMMA PollRowsKeeps ==
    ASSUME SizesAreListed, SInv, Sizes!PollRows
    PROVE  SInv'
  <1> DEFINE asked == Sizes!Listing("rowpoll", path, sortDir, 0, Sizes!LoadedSoFar)
  <1>1. /\ UNCHANGED << state, path, sortDir, view, statuses, entries, hasMore, error,
                        scanRequests >>
        /\ listings' = listings \cup { asked } /\ Sizes!IsScanning(entries)
    BY DEF Sizes!PollRows
  <1>2. /\ IsListing(path, sortDir, asked) /\ asked.kind = "rowpoll" /\ ~asked.isAnswered
    BY NewListing, LoadedIsAPage DEF SInv
  <1> HIDE DEF asked
  <1>3. \A l \in listings' : l.kind # "more"
    BY <1>1, <1>2 DEF SInv, HandlerIsAlone
  <1>4. (Sizes!Handlers' = {} <=> Sizes!Handlers = {}) /\ (ARowScanWaits' <=> ARowScanWaits)
    BY <1>1, <1>2 DEF Sizes!Handlers, ARowScanWaits
  <1>5. TypesOk'
    BY <1>1, <1>2 DEF SInv, TypesOk
  <1>6. RequestIsAlone'
    BY <1>1, <1>2, <1>4 DEF SInv, RequestIsAlone, ACallWaits
  <1>7. HandlerIsAlone'
    BY <1>1, <1>2, <1>3, <1>4 DEF SInv, HandlerIsAlone
  <1>8. ViewIsKnown' /\ RowsAreKnown' /\ AnswersAreKnown'
    BY <1>1, <1>2, <1>4 DEF SInv, ViewIsKnown, RowsAreKnown, AnswersAreKnown
  <1> QED
    BY <1>5, <1>6, <1>7, <1>8 DEF SInv

\* One page of rows goes on where the other ends.
LEMMA RowsJoin ==
    ASSUME SizesAreListed, NEW st, NEW at, NEW dir, NEW listed \in Seq(Row),
           NEW next \in Seq(Row), NEW more, NEW further,
           GoodRows(st, at, dir, listed, more), IsPage(st, at, dir, next, further, Len(listed))
    PROVE  listed \o next \in Seq(Row) /\ GoodRows(st, at, dir, listed \o next, further)
  <1> DEFINE all == AllOf(at, dir)
             joined == listed \o next
  <1>1. Len(all) \in Nat /\ Len(listed) \in Nat /\ Len(next) \in Nat
    BY EveryPlaceIsTaken, LenProperties
  <1>2. /\ joined \in Seq(Row) /\ Len(joined) = Len(listed) + Len(next)
        /\ \A i \in 1..(Len(listed) + Len(next)) :
             joined[i] = IF i <= Len(listed) THEN listed[i] ELSE next[i - Len(listed)]
    BY ConcatProperties
  <1> HIDE DEF joined, all
  <1>3. \A i \in 1..Len(listed) : /\ listed[i].name = all[i]
                                /\ Known(st, listed[i].state, Append(at, listed[i].name))
    BY DEF GoodRows, IsPage, AreRows, all
  <1>4. /\ Len(listed) + Len(next) <= Len(all)
        /\ further = (Len(listed) + Len(next) < Len(all))
        /\ \A i \in 1..Len(next) :
             /\ next[i].name = all[Len(listed) + i]
             /\ Known(st, next[i].state, Append(at, next[i].name))
    BY DEF IsPage, AreRows, all
  <1>5. ASSUME NEW i \in 1..Len(joined)
        PROVE  joined[i].name = all[i] /\ Known(st, joined[i].state, Append(at, joined[i].name))
    <2>1. CASE i <= Len(listed)
      <3>1. joined[i] = listed[i] /\ i \in 1..Len(listed)
        BY <1>1, <1>2, <2>1
      <3> QED
        BY <1>3, <3>1
    <2>2. CASE ~(i <= Len(listed))
      <3>1. /\ joined[i] = next[i - Len(listed)] /\ i - Len(listed) \in 1..Len(next)
            /\ Len(listed) + (i - Len(listed)) = i
        BY <1>1, <1>2, <2>2
      <3> QED
        BY <1>4, <3>1
    <2> QED
      BY <2>1, <2>2
  <1>6. Len(joined) >= RowsAtOnce \/ Len(joined) = Len(all)
    <2>1. Len(listed) >= RowsAtOnce \/ Len(listed) = Len(all)
      BY DEF GoodRows, IsWhole, all
    <2> QED
      BY <2>1, <1>1, <1>2, <1>4 DEF SizesAreListed
  <1>7. \A i \in 1..Len(joined) : joined[i].name = all[0 + i]
    BY <1>5, <1>1, <1>2
  <1>8. 0 + Len(joined) <= Len(all) /\ further = (0 + Len(joined) < Len(all))
    BY <1>1, <1>2, <1>4
  <1> QED
    BY <1>2, <1>5, <1>6, <1>7, <1>8 DEF GoodRows, IsPage, AreRows, IsWhole, all, joined

LEMMA RowsComeKeeps ==
    ASSUME SizesAreListed, SInv, NEW listing \in listings, Sizes!ListingArrives(listing)
    PROVE  SInv'
  <1> DEFINE listed == listing.answer.rows
  <1>1. IsListing(path, sortDir, listing) /\ entries \in Seq(Row)
    BY DEF SInv, TypesOk
  <1>2. listing.isAnswered /\ listed \in Seq(Row)
    BY <1>1 DEF Sizes!ListingArrives, IsListing
  <1>3. /\ UNCHANGED << state, path, sortDir, view, statuses, scanRequests >>
        /\ error' = (error /\ listing.kind # "effect")
        /\ entries' = (IF listing.kind = "more" THEN entries ELSE << >>) \o listed
        /\ hasMore' = listing.answer.hasMore
        /\ listings' = { l \in listings \ { listing } : l.kind # "rowpoll" }
    BY <1>1 DEF Sizes!ListingArrives, IsListing
  <1> HIDE DEF listed
  <1>4. entries' \in Seq(Row) /\ (listing.kind # "more" => entries' = listed)
    <2>1. << >> \in Seq(Row) /\ << >> \o listed = listed
      BY <1>2
    <2> QED
      BY <1>1, <1>2, <1>3, <2>1
  <1>5. TypesOk'
    BY <1>3, <1>4 DEF SInv, TypesOk
  <1>6. Sizes!Handlers' \subseteq Sizes!Handlers /\ (ARowScanWaits' => ARowScanWaits)
        /\ \A l \in listings' : l \in listings /\ l.kind # "rowpoll"
    BY <1>3 DEF Sizes!Handlers, ARowScanWaits
  <1>7. RequestIsAlone'
    BY <1>3, <1>6 DEF SInv, RequestIsAlone, ACallWaits
  <1>8. \A l \in listings' : l.kind # "more"
    BY <1>3 DEF SInv, HandlerIsAlone
  <1>9. HandlerIsAlone'
    BY <1>3, <1>6, <1>8 DEF SInv, HandlerIsAlone
  <1>10. ViewIsKnown'
    BY <1>3 DEF SInv, ViewIsKnown
  <1>11. AnswersAreKnown'
    BY <1>3, <1>6 DEF SInv, AnswersAreKnown
  <1>12. RowsAreKnown'
    <2>1. CASE statuses # {}
      BY <2>1, <1>3 DEF RowsAreKnown
    <2>2. CASE statuses = {} /\ GoodAnswer(state, path, sortDir, listing)
      <3>1. CASE listing.kind = "more"
        <4>1. /\ listing.offset = Len(entries)
              /\ GoodRows(state, path, sortDir, entries, hasMore)
          BY <3>1 DEF SInv, HandlerIsAlone
        <4>2. entries' = entries \o listed
          BY <1>3, <3>1
        <4>3. IsPage(state, path, sortDir, listed, hasMore', Len(entries))
          BY <1>3, <2>2, <4>1 DEF GoodAnswer, listed
        <4>4. GoodRows(state, path, sortDir, entries \o listed, hasMore')
          BY <1>1, <1>2, <4>1, <4>3, RowsJoin
        <4> QED
          BY <1>3, <4>2, <4>4 DEF RowsAreKnown
      <3>2. CASE listing.kind # "more"
        <4>1. GoodRows(state, path, sortDir, listed, hasMore')
          BY <1>1, <1>3, <2>2, <3>2 DEF GoodAnswer, GoodRows, IsListing, listed
        <4> QED
          BY <1>3, <1>4, <3>2, <4>1 DEF RowsAreKnown
      <3> QED
        BY <3>1, <3>2
    <2>3. CASE listing.kind = "rowpoll" /\ ARowScanWaits
      BY <2>3, <1>3 DEF RowsAreKnown, ARowScanWaits
    <2> QED
      BY <1>2, <2>1, <2>2, <2>3 DEF SInv, AnswersAreKnown
  <1> QED
    BY <1>5, <1>7, <1>9, <1>10, <1>11, <1>12 DEF SInv

-----------------------------------------------------------------------------
(* The user's steps *)

\* He acts when nothing of a handler is under way.
LEMMA UserWaits ==
    ASSUME SizesAreListed, Sizes!UserActs
    PROVE  scanRequests = {} /\ Sizes!Handlers = {} /\ ~ACallWaits
  BY DEF Sizes!UserActs, Sizes!HandlersWait, ACallWaits, SizesAreListed

LEMMA FreshAreHandlers ==
    ASSUME TypesOk, Sizes!Handlers = {}
    PROVE  \A at, dir : Sizes!Refetched(at, dir, listings) =
                          { Sizes!Listing("effect", at, dir, 0, RowsAtOnce) }
  <1>1. Sizes!Fresh(listings) = {}
    BY DEF Sizes!Fresh, Sizes!Handlers, TypesOk, IsListing
  <1> QED
    BY <1>1 DEF Sizes!Refetched

LEMMA NavigateKeeps ==
    ASSUME SizesAreListed, SInv, NEW directory \in Tree, Sizes!Navigate(directory)
    PROVE  SInv'
  <1> DEFINE asked == Sizes!Listing("effect", directory, sortDir, 0, RowsAtOnce)
             told == Sizes!Status("effect", directory)
  <1>1. scanRequests = {} /\ Sizes!Handlers = {} /\ ~ACallWaits
    BY UserWaits DEF Sizes!Navigate
  <1>2. /\ UNCHANGED << state, sortDir, view, entries, hasMore, error, scanRequests >>
        /\ path' = directory /\ statuses' = { told }
    BY <1>1 DEF Sizes!Navigate, ACallWaits
  <1>3. listings' = { asked }
    <2>1. listings' = Sizes!Refetched(directory, sortDir, listings)
      BY DEF Sizes!Navigate
    <2> QED
      BY <1>1, <2>1, FreshAreHandlers DEF SInv
  <1>4. /\ IsListing(directory, sortDir, asked) /\ asked.kind = "effect" /\ ~asked.isAnswered
    BY NewListing DEF SizesAreListed
  <1>5. IsStatus(state, directory, told) /\ told.kind = "effect"
    BY DEF IsStatus, Sizes!Status
  <1> HIDE DEF asked, told
  <1>6. TypesOk'
    BY <1>1, <1>2, <1>3, <1>4, <1>5 DEF SInv, TypesOk
  <1>7. HandlerIsAlone' /\ RowsAreKnown' /\ AnswersAreKnown'
    BY <1>3, <1>4, <1>6, RefetchKnows
  <1>8. RequestIsAlone' /\ ViewIsKnown'
    BY <1>1, <1>2 DEF RequestIsAlone, ViewIsKnown
  <1> QED
    BY <1>6, <1>7, <1>8 DEF SInv

LEMMA SortKeeps ==
    ASSUME SizesAreListed, SInv, Sizes!SortClicked
    PROVE  SInv'
  <1> DEFINE asked == Sizes!Listing("effect", path, sortDir', 0, RowsAtOnce)
  <1>1. scanRequests = {} /\ Sizes!Handlers = {} /\ ~ACallWaits
    BY UserWaits DEF Sizes!SortClicked
  <1>2. UNCHANGED << state, path, view, statuses, entries, hasMore, error, scanRequests >>
    BY DEF Sizes!SortClicked
  <1>3. listings' = { asked }
    <2>1. listings' = Sizes!Refetched(path, sortDir', listings)
      BY DEF Sizes!SortClicked
    <2> QED
      BY <1>1, <2>1, FreshAreHandlers DEF SInv
  <1>4. /\ IsListing(path, sortDir', asked) /\ asked.kind = "effect" /\ ~asked.isAnswered
    BY NewListing DEF SizesAreListed
  <1> HIDE DEF asked
  <1>5. TypesOk'
    BY <1>1, <1>2, <1>3, <1>4 DEF SInv, TypesOk
  <1>6. HandlerIsAlone' /\ RowsAreKnown' /\ AnswersAreKnown'
    BY <1>3, <1>4, <1>5, RefetchKnows
  <1>7. RequestIsAlone' /\ ViewIsKnown'
    BY <1>1, <1>2 DEF SInv, RequestIsAlone, ViewIsKnown
  <1> QED
    BY <1>5, <1>6, <1>7 DEF SInv

\* At rest, what is shown is known.
LEMMA RestIsKnown ==
    ASSUME SInv, Sizes!IsAtRest
    PROVE  /\ view.path = path /\ Known(state, view.state, path)
           /\ GoodRows(state, path, sortDir, entries, hasMore)
           /\ statuses = {} /\ listings = {} /\ scanRequests = {}
  BY DEF SInv, Sizes!IsAtRest, ViewIsKnown, RowsAreKnown

LEMMA LoadMoreKeeps ==
    ASSUME SizesAreListed, SInv, Sizes!LoadMoreRows
    PROVE  SInv'
  <1> DEFINE asked == Sizes!Listing("more", path, sortDir, Len(entries), RowsAtOnce)
  <1>1. Sizes!IsAtRest /\ Sizes!IsQuiet
    BY DEF Sizes!LoadMoreRows, SizesAreListed
  <1>2. /\ UNCHANGED << state, path, sortDir, view, statuses, entries, hasMore, error,
                        scanRequests >>
        /\ listings' = listings \cup { asked }
    BY DEF Sizes!LoadMoreRows
  <1>3. /\ view.path = path /\ Known(state, view.state, path)
        /\ GoodRows(state, path, sortDir, entries, hasMore)
        /\ statuses = {} /\ listings = {} /\ scanRequests = {}
    BY <1>1, RestIsKnown
  <1>4. Len(entries) \in Nat
    BY LenProperties DEF SInv, TypesOk
  <1>5. /\ IsListing(path, sortDir, asked) /\ asked.kind = "more" /\ ~asked.isAnswered
        /\ asked.offset = Len(entries) /\ asked.limit = RowsAtOnce
    BY <1>4, NewListing DEF SizesAreListed
  <1> HIDE DEF asked
  <1>6. listings' = { asked }
    BY <1>2, <1>3
  <1>7. TypesOk'
    BY <1>2, <1>5, <1>6 DEF SInv, TypesOk
  <1>8. RequestIsAlone'
    BY <1>2, <1>3 DEF RequestIsAlone
  <1>9. HandlerIsAlone'
    BY <1>1, <1>2, <1>3, <1>5, <1>6 DEF HandlerIsAlone, ARowScanWaits, Sizes!IsQuiet
  <1>10. ViewIsKnown' /\ RowsAreKnown' /\ AnswersAreKnown'
    BY <1>2, <1>3, <1>5, <1>6 DEF ViewIsKnown, RowsAreKnown, AnswersAreKnown
  <1> QED
    BY <1>7, <1>8, <1>9, <1>10 DEF SInv

LEMMA ScanEntryKeeps ==
    ASSUME SizesAreListed, SInv, NEW i \in DOMAIN entries, Sizes!ScanEntry(i)
    PROVE  SInv'
  <1> DEFINE asked == [kind |-> "row", path |-> path,
                       directory |-> Append(path, entries[i].name),
                       sortDir |-> sortDir, limit |-> Sizes!LoadedSoFar]
             marked == [entries EXCEPT ![i].state = "scanning"]
  <1>1. Sizes!IsAtRest /\ view.state # "scanning"
    BY DEF Sizes!ScanEntry, SizesAreListed
  <1>2. /\ view.path = path /\ Known(state, view.state, path)
        /\ GoodRows(state, path, sortDir, entries, hasMore)
        /\ statuses = {} /\ listings = {} /\ scanRequests = {}
    BY <1>1, RestIsKnown
  <1>3. /\ UNCHANGED << state, path, sortDir, view, statuses, hasMore, error >>
        /\ entries' = marked /\ scanRequests' = { asked } /\ listings' = {}
    BY <1>2 DEF Sizes!ScanEntry
  <1>4. /\ entries \in Seq(Row) /\ Len(entries) \in Nat /\ i \in 1..Len(entries)
        /\ \A j \in 1..Len(entries) : entries[j] \in Row
    BY LenProperties, ElementOfSeq DEF SInv, TypesOk
  <1>5. /\ marked \in Seq(Row) /\ Len(marked) = Len(entries)
        /\ \A j \in 1..Len(entries) :
             /\ marked[j].name = entries[j].name
             /\ marked[j].state \in { entries[j].state, "scanning" }
    <2>1. \A j \in 1..Len(entries) :
            marked[j] = IF j = i THEN [name |-> entries[j].name, state |-> "scanning"]
                        ELSE entries[j]
      BY <1>4 DEF Row
    <2>2. DOMAIN marked = 1..Len(entries) /\ marked = [j \in 1..Len(entries) |-> marked[j]]
      BY <1>4
    <2> HIDE DEF marked
    <2>3. ASSUME NEW j \in 1..Len(entries)
          PROVE  /\ marked[j] \in Row /\ marked[j].name = entries[j].name
                 /\ marked[j].state \in { entries[j].state, "scanning" }
      <3>1. entries[j] \in Row
        BY <1>4
      <3>2. CASE j = i
        <4>1. marked[j] = [name |-> entries[j].name, state |-> "scanning"]
          BY <2>1, <3>2
        <4> QED
          BY <3>1, <4>1 DEF Row, States
      <3>3. CASE j # i
        <4>1. marked[j] = entries[j]
          BY <2>1, <3>3
        <4> QED
          BY <3>1, <4>1
      <3> QED
        BY <3>2, <3>3
    <2>4. marked \in Seq(Row) /\ Len(marked) = Len(entries)
      BY <1>4, <2>2, <2>3
    <2> QED
      BY <2>3, <2>4
  <1>6. IsRequest(path, sortDir, asked)
    <2>1. /\ Sizes!LoadedSoFar \in Nat /\ Sizes!LoadedSoFar >= RowsAtOnce
          /\ entries[i].name \in Nat
      BY <1>4, LoadedIsAPage DEF SInv, Row
    <2> HIDE DEF Sizes!LoadedSoFar
    <2> QED
      BY <2>1 DEF IsRequest
  <1>7. GoodRows(state, path, sortDir, marked, hasMore)
    <2> HIDE DEF marked
    <2>1. \A j \in 1..Len(entries) :
            /\ marked[j].name = entries[j].name
            /\ Known(state, marked[j].state, Append(path, marked[j].name))
      BY <1>2, <1>5 DEF GoodRows, IsPage, AreRows, Known
    <2> QED
      BY <1>2, <1>5, <2>1 DEF GoodRows, IsPage, AreRows, IsWhole
  <1> HIDE DEF marked, asked
  <1>8. TypesOk'
    BY <1>2, <1>3, <1>5, <1>6 DEF SInv, TypesOk
  <1>9. Sizes!Handlers' = {} /\ ~ACallWaits' /\ ~ARowScanWaits'
    BY <1>2, <1>3 DEF Sizes!Handlers, ACallWaits, ARowScanWaits
  <1>10. RequestIsAlone'
    BY <1>1, <1>2, <1>3, <1>9 DEF RequestIsAlone
  <1>11. HandlerIsAlone'
    BY <1>3, <1>9 DEF HandlerIsAlone
  <1>12. ViewIsKnown' /\ RowsAreKnown' /\ AnswersAreKnown'
    BY <1>2, <1>3, <1>7 DEF ViewIsKnown, RowsAreKnown, AnswersAreKnown
  <1> QED
    BY <1>8, <1>10, <1>11, <1>12 DEF SInv

LEMMA ScanOrStopKeeps ==
    ASSUME SizesAreListed, SInv, NEW kind \in { "scan", "stop" }, Sizes!ScanOrStop(kind)
    PROVE  SInv'
  <1> DEFINE asked == [kind |-> kind, path |-> path, directory |-> path,
                       sortDir |-> sortDir, limit |-> Sizes!LoadedSoFar]
  <1>1. scanRequests = {} /\ Sizes!Handlers = {} /\ ~ACallWaits
    BY UserWaits DEF Sizes!ScanOrStop
  <1>2. /\ UNCHANGED << state, path, sortDir, view, statuses, entries, hasMore, error,
                        listings >>
        /\ scanRequests' = { asked }
    BY <1>1 DEF Sizes!ScanOrStop, Sizes!page
  <1>3. kind # "stop" => statuses = {} /\ listings = {} /\ view.state # "scanning"
    BY DEF Sizes!ScanOrStop, Sizes!IsAtRest, SizesAreListed
  <1>4. IsRequest(path, sortDir, asked) /\ asked.kind = kind
    <2>1. Sizes!LoadedSoFar \in Nat /\ Sizes!LoadedSoFar >= RowsAtOnce
      BY LoadedIsAPage DEF SInv
    <2> HIDE DEF Sizes!LoadedSoFar
    <2> QED
      BY <2>1 DEF IsRequest
  <1> HIDE DEF asked
  <1>5. TypesOk'
    BY <1>2, <1>4 DEF SInv, TypesOk
  <1>6. RequestIsAlone'
    BY <1>1, <1>2, <1>3, <1>4 DEF RequestIsAlone, Sizes!Handlers, ACallWaits
  <1>7. HandlerIsAlone'
    BY <1>2 DEF SInv, HandlerIsAlone, Sizes!Handlers, ARowScanWaits, Sizes!IsScanning
  <1>8. ViewIsKnown' /\ RowsAreKnown' /\ AnswersAreKnown'
    BY <1>2 DEF SInv, ViewIsKnown, RowsAreKnown, AnswersAreKnown, ARowScanWaits
  <1> QED
    BY <1>5, <1>6, <1>7, <1>8 DEF SInv

LEMMA SizesKeep == SizesAreListed /\ SInv /\ [Sizes!Next]_Sizes!vars => SInv'
  <1> SUFFICES ASSUME SizesAreListed, SInv, [Sizes!Next]_Sizes!vars PROVE SInv'
    OBVIOUS
  <1>1. CASE Sizes!ScanGoesOn
    BY <1>1, ScanEndKeeps DEF Sizes!ScanGoesOn
  <1>2. CASE Sizes!ScanIsAsked
    <2>1. PICK request \in scanRequests :
            Sizes!ServerScans(request) \/ Sizes!ServerStops(request)
      BY <1>2 DEF Sizes!ScanIsAsked
    <2>2. CASE Sizes!ServerStops(request)
      BY <2>2, StopKeeps
    <2>3. CASE Sizes!ServerScans(request)
      <3>1. request.kind \in { "scan", "row" }
        BY <2>3 DEF SInv, TypesOk, IsRequest, Sizes!ServerScans
      <3> QED
        BY <2>3, <3>1, ScanKeeps, RowScanKeeps
    <2> QED
      BY <2>1, <2>2, <2>3
  <1>3. CASE Sizes!StatusComes
    BY <1>3, ReadKeeps, StatusComesKeeps DEF Sizes!StatusComes
  <1>4. CASE Sizes!RowsCome
    BY <1>4, ListKeeps, RowsComeKeeps DEF Sizes!RowsCome
  <1>5. CASE Sizes!PollStatus
    BY <1>5, PollStatusKeeps
  <1>6. CASE Sizes!PollRows
    BY <1>6, PollRowsKeeps
  <1>7. CASE \E directory \in Tree : Sizes!Navigate(directory)
    BY <1>7, NavigateKeeps
  <1>8. CASE Sizes!SortClicked
    BY <1>8, SortKeeps
  <1>9. CASE Sizes!LoadMoreRows
    BY <1>9, LoadMoreKeeps
  <1>10. CASE \E i \in DOMAIN entries : Sizes!ScanEntry(i)
    BY <1>10, ScanEntryKeeps
  <1>11. CASE \E kind \in { "scan", "stop" } : Sizes!ScanOrStop(kind)
    BY <1>11, ScanOrStopKeeps
  <1>12. CASE UNCHANGED Sizes!vars
    <2>1. UNCHANGED << state, path, sortDir, view, statuses, entries, hasMore, error, listings,
                       scanRequests >>
      BY <1>12 DEF Sizes!vars, Sizes!page
    <2>2. TypesOk' /\ RequestIsAlone'
      BY <2>1 DEF SInv, TypesOk, RequestIsAlone, Sizes!Handlers, ACallWaits
    <2>3. HandlerIsAlone'
      BY <2>1 DEF SInv, HandlerIsAlone, Sizes!Handlers, ARowScanWaits, Sizes!IsScanning
    <2>4. ViewIsKnown' /\ RowsAreKnown' /\ AnswersAreKnown'
      BY <2>1 DEF SInv, ViewIsKnown, RowsAreKnown, AnswersAreKnown, ARowScanWaits
    <2> QED
      BY <2>2, <2>3, <2>4 DEF SInv
  <1> QED
    BY <1>1, <1>2, <1>3, <1>4, <1>5, <1>6, <1>7, <1>8, <1>9, <1>10, <1>11, <1>12 DEF Sizes!Next

\* At rest and with no scan on show, what is known is what there is.
LEMMA KnownIsCurrent == SizesAreListed /\ SInv => Sizes!PageIsCurrent
  <1> SUFFICES ASSUME SizesAreListed, SInv, Sizes!IsAtRest, Sizes!IsQuiet, ~error
               PROVE  LET asked == Sizes!Listing("", path, sortDir, 0, Len(entries))
                          all == Sizes!ListingOf(asked)
                          count == Cardinality(Sizes!Children(path))
                      IN  /\ view = [path |-> path, state |-> state[path]]
                          /\ entries = all.rows /\ hasMore = all.hasMore
                          /\ Len(entries) >= Sizes!Min({ RowsAtOnce, count })
    BY CardinalityIsOne DEF Sizes!PageIsCurrent
  <1> DEFINE asked == Sizes!Listing("", path, sortDir, 0, Len(entries))
             whole == AllOf(path, sortDir)
             cut == Sizes!ListingOf(asked)
             n == Len(entries)
  <1>1. /\ view.path = path /\ Known(state, view.state, path)
        /\ GoodRows(state, path, sortDir, entries, hasMore)
    BY RestIsKnown
  <1>2. view = [path |-> path, state |-> state[path]]
    <2>1. view = [path |-> view.path, state |-> view.state] /\ view.state # "scanning"
      BY DEF SInv, TypesOk, Sizes!IsQuiet
    <2> QED
      BY <1>1, <2>1 DEF Known
  <1>3. /\ entries \in Seq(Row) /\ n \in Nat /\ state \in [Tree -> States] /\ path \in Tree
        /\ \A i \in 1..n : entries[i] \in Row
        /\ RowsAtOnce \in Nat
    BY LenProperties, ElementOfSeq DEF SInv, TypesOk, SizesAreListed
  <1>4. asked.path = path /\ asked.sortDir = sortDir /\ asked.offset = 0 /\ asked.limit = n
    BY DEF Sizes!Listing
  <1>5. /\ Len(whole) \in Nat /\ Len(whole) = Cardinality(Sizes!Children(path))
    BY EveryPlaceIsTaken, NamesAreChildren
  <1>6. /\ n <= Len(whole) /\ hasMore = (n < Len(whole))
        /\ n >= RowsAtOnce \/ n = Len(whole)
        /\ \A i \in 1..n :
             /\ entries[i].name = whole[i]
             /\ Known(state, entries[i].state, Append(path, entries[i].name))
    BY <1>1, <1>3, <1>5 DEF GoodRows, IsPage, AreRows, IsWhole
  <1> HIDE DEF asked, whole
  <1>7. /\ cut.rows \in Seq(Row) /\ Len(cut.rows) = n /\ cut.hasMore = (n < Len(whole))
        /\ \A i \in 1..n : cut.rows[i] = [name |-> whole[i],
                                          state |-> state[Append(path, whole[i])]]
    <2>1. asked.offset <= Len(AllOf(asked.path, asked.sortDir))
      BY <1>4, <1>5 DEF whole
    <2>2. asked.path \in Tree /\ asked.offset \in Nat /\ asked.limit \in Nat
      BY <1>3, <1>4
    <2> DEFINE every == AllOf(asked.path, asked.sortDir)
               size == IF asked.offset + asked.limit <= Len(every) THEN asked.limit
                       ELSE Len(every) - asked.offset
    <2>3. /\ cut.rows \in Seq(Row) /\ Len(cut.rows) = size
          /\ \A i \in 1..size :
               cut.rows[i] = [name |-> every[asked.offset + i],
                              state |-> state[Append(asked.path, every[asked.offset + i])]]
          /\ cut.hasMore = (asked.offset + asked.limit < Len(every))
      BY <1>3, <2>1, <2>2, PageIsCut
    <2> HIDE DEF n, cut
    <2>4. every = whole /\ size = n
      BY <1>3, <1>4, <1>5, <1>6 DEF whole
    <2> HIDE DEF every, size
    <2> QED
      BY <1>3, <1>4, <2>3, <2>4
  <1> HIDE DEF cut
  <1>8. \A i \in 1..n : entries[i] = cut.rows[i]
    <2> TAKE i \in 1..n
    <2>1. entries[i].state # "scanning"
      BY <1>3 DEF Sizes!IsQuiet, Sizes!IsScanning
    <2>2. entries[i] = [name |-> whole[i], state |-> state[Append(path, whole[i])]]
      BY <2>1, <1>3, <1>6 DEF Known, Row
    <2> QED
      BY <2>2, <1>7
  <1>9. entries = cut.rows
    BY <1>3, <1>7, <1>8, SeqEqual
  <1>10. n >= Sizes!Min({ RowsAtOnce, Cardinality(Sizes!Children(path)) })
    <2>1. Sizes!Min({ RowsAtOnce, Len(whole) }) =
            IF RowsAtOnce <= Len(whole) THEN RowsAtOnce ELSE Len(whole)
      BY <1>3, <1>5, MinIsLeast
    <2> HIDE DEF n
    <2> QED
      BY <2>1, <1>3, <1>5, <1>6
  <1> QED
    BY <1>2, <1>6, <1>7, <1>9, <1>10 DEF cut, asked, n

\* The page never rests on something old, whichever answer overtakes whichever.
THEOREM SizesStayCurrent ==
    ASSUME SizesAreListed
    PROVE  Sizes!Spec => []Sizes!PageIsCurrent
  <1>1. Sizes!Init => SInv
    BY InitIsKnown
  <1>2. SInv /\ [Sizes!Next]_Sizes!vars => SInv'
    BY SizesKeep
  <1>3. SInv => Sizes!PageIsCurrent
    BY KnownIsCurrent
  <1> QED
    BY <1>1, <1>2, <1>3, PTL DEF Sizes!Spec

\* The same of the four pages: while this one is on the screen, the others do nothing.
SizesInv == ShowsSizes => SInv

THEOREM PageIsCurrentHolds ==
    ASSUME SizesAreListed
    PROVE  PagesSpec => []PageIsCurrent
  <1>1. PagesInit => SizesInv
    <2> SUFFICES ASSUME PagesInit, ShowsSizes PROVE SInv
      BY DEF SizesInv
    <2>1. Sizes!Init
      BY DEF PagesInit, ShowsSizes
    <2> QED
      BY <2>1, InitIsKnown
  <1>2. SizesInv /\ [PagesNext]_pagesVars => SizesInv'
    <2> SUFFICES ASSUME SizesInv, [PagesNext]_pagesVars, ShowsSizes' PROVE SInv'
      BY DEF SizesInv
    <2>1. ShowsSizes /\ [Sizes!Next]_Sizes!vars
      <3>1. CASE OnPane(Next)
        BY <3>1 DEF OnPane, ShowsPane, ShowsSizes
      <3>2. CASE OnComparison(Comparison!Next)
        BY <3>2 DEF OnComparison, ShowsComparison, ShowsSizes
      <3>3. CASE OnSizes(Sizes!Next)
        BY <3>3 DEF OnSizes
      <3>4. CASE OnDuplicates(Duplicates!Next)
        BY <3>4 DEF OnDuplicates, ShowsDuplicates, ShowsSizes
      <3>5. CASE UNCHANGED pagesVars
        BY <3>5 DEF pagesVars, ShowsSizes, ofSizes, Sizes!vars, Sizes!page
      <3> QED
        BY <3>1, <3>2, <3>3, <3>4, <3>5 DEF PagesNext
    <2> QED
      BY <2>1, SizesKeep DEF SizesInv
  <1>3. SizesInv => PageIsCurrent
    BY KnownIsCurrent DEF SizesInv, PageIsCurrent
  <1> QED
    BY <1>1, <1>2, <1>3, PTL DEF PagesSpec

-----------------------------------------------------------------------------
(* Paths *)

LEMMA AboveIsBeginning ==
    ASSUME NEW S, NEW p \in Seq(S), NEW q \in Comparison!Lineage(p)
    PROVE  /\ q \in Seq(S) /\ Len(q) \in 0..Len(p)
           /\ \A i \in 1..Len(q) : q[i] = p[i]
  <1>1. PICK k \in 0..Len(p) : q = SubSeq(p, 1, k)
    BY DEF Comparison!Lineage
  <1> QED
    BY <1>1

LEMMA BeginningIsAbove ==
    ASSUME NEW S, NEW p \in Seq(S), NEW q \in Seq(S), Len(q) <= Len(p),
           \A i \in 1..Len(q) : q[i] = p[i]
    PROVE  q \in Comparison!Lineage(p)
  <1>1. Len(q) \in 0..Len(p)
    OBVIOUS
  <1>2. SubSeq(p, 1, Len(q)) \in Seq(S) /\ Len(SubSeq(p, 1, Len(q))) = Len(q)
    BY <1>1
  <1>3. \A i \in 1..Len(q) : SubSeq(p, 1, Len(q))[i] = q[i]
    BY <1>1
  <1>4. q = SubSeq(p, 1, Len(q))
    BY <1>2, <1>3, SeqEqual
  <1> QED
    BY <1>1, <1>4 DEF Comparison!Lineage

LEMMA IsAboveItself ==
    ASSUME NEW S, NEW p \in Seq(S)
    PROVE  p \in Comparison!Lineage(p)
  BY BeginningIsAbove

\* What is above a child is the child or above its parent.
LEMMA AboveChild ==
    ASSUME NEW S, NEW p \in Seq(S), NEW name \in S
    PROVE  /\ Append(p, name) \in Seq(S) /\ Append(p, name) # p
           /\ Comparison!Lineage(Append(p, name)) =
                { Append(p, name) } \cup Comparison!Lineage(p)
  <1> DEFINE c == Append(p, name)
  <1>1. /\ c \in Seq(S) /\ Len(c) = Len(p) + 1 /\ Len(p) \in Nat
        /\ c[Len(c)] = name /\ \A i \in 1..Len(p) : c[i] = p[i]
    BY AppendProperties
  <1> HIDE DEF c
  <1>2. ASSUME NEW q \in Comparison!Lineage(c) PROVE q = c \/ q \in Comparison!Lineage(p)
    <2>1. /\ q \in Seq(S) /\ Len(q) \in 0..Len(c)
          /\ \A i \in 1..Len(q) : q[i] = c[i]
      BY <1>1, AboveIsBeginning
    <2>2. CASE Len(q) = Len(c)
      BY <1>1, <2>1, <2>2, SeqEqual
    <2>3. CASE Len(q) # Len(c)
      <3>1. Len(q) <= Len(p)
        BY <1>1, <2>1, <2>3
      <3>2. \A i \in 1..Len(q) : q[i] = p[i]
        BY <1>1, <2>1, <3>1
      <3> QED
        BY <2>1, <3>1, <3>2, BeginningIsAbove
    <2> QED
      BY <2>2, <2>3
  <1>3. c \in Comparison!Lineage(c)
    BY <1>1, IsAboveItself
  <1>4. ASSUME NEW q \in Comparison!Lineage(p) PROVE q \in Comparison!Lineage(c)
    <2>1. /\ q \in Seq(S) /\ Len(q) \in 0..Len(p)
          /\ \A i \in 1..Len(q) : q[i] = p[i]
      BY AboveIsBeginning
    <2> QED
      BY <1>1, <2>1, BeginningIsAbove
  <1>5. c # p
    BY <1>1
  <1> QED
    BY <1>1, <1>2, <1>3, <1>4, <1>5 DEF c

LEMMA ParentIsAbove ==
    ASSUME NEW S, NEW p \in Seq(S), NEW name \in S, NEW q \in Seq(S),
           Append(p, name) \in Comparison!Lineage(q)
    PROVE  p \in Comparison!Lineage(q)
  <1> DEFINE c == Append(p, name)
  <1>1. /\ c \in Seq(S) /\ Len(c) = Len(p) + 1 /\ Len(p) \in Nat
        /\ \A i \in 1..Len(p) : c[i] = p[i]
    BY AppendProperties
  <1> HIDE DEF c
  <1>2. Len(c) \in 0..Len(q) /\ \A i \in 1..Len(c) : c[i] = q[i]
    BY AboveIsBeginning DEF c
  <1>3. Len(p) <= Len(q) /\ \A i \in 1..Len(p) : p[i] = q[i]
    BY <1>1, <1>2
  <1> QED
    BY <1>3, BeginningIsAbove

LEMMA JoinedIsBelow ==
    ASSUME NEW S, NEW p \in Seq(S), NEW r \in Seq(S)
    PROVE  p \o r \in Seq(S) /\ p \in Comparison!Lineage(p \o r)
  <1> DEFINE c == p \o r
  <1>1. c \in Seq(S) /\ Len(c) = Len(p) + Len(r) /\ \A i \in 1..Len(p) : p[i] = c[i]
    BY ConcatProperties
  <1> HIDE DEF c
  <1>2. Len(p) \in Nat /\ Len(r) \in Nat
    OBVIOUS
  <1>3. Len(p) <= Len(c)
    BY <1>1, <1>2
  <1>4. p \in Comparison!Lineage(c)
    BY <1>1, <1>3, BeginningIsAbove
  <1> QED
    BY <1>1, <1>4 DEF c

\* A child is told by its parent and its name.
LEMMA ChildIsItsNames ==
    ASSUME NEW S, NEW p \in Seq(S), p # Comparison!Root
    PROVE  /\ Comparison!ParentPath(p) \in Seq(S) /\ p[Len(p)] \in S
           /\ p = Append(Comparison!ParentPath(p), p[Len(p)])
  <1>1. Len(p) \in Nat /\ Len(p) > 0 /\ Len(p) \in 1..Len(p)
    BY DEF Comparison!Root
  <1>2. p = Append(SubSeq(p, 1, Len(p) - 1), p[Len(p)])
    BY <1>1
  <1> QED
    BY <1>1, <1>2 DEF Comparison!ParentPath

LEMMA ChildHasParent ==
    ASSUME NEW S, NEW p \in Seq(S), NEW name \in S
    PROVE  /\ Comparison!ParentPath(Append(p, name)) = p /\ Append(p, name) # Comparison!Root
           /\ Append(p, name)[Len(Append(p, name))] = name
  <1> DEFINE c == Append(p, name)
  <1>1. /\ c \in Seq(S) /\ Len(c) = Len(p) + 1 /\ Len(p) \in Nat
        /\ c[Len(c)] = name /\ \A i \in 1..Len(p) : c[i] = p[i]
    BY AppendProperties
  <1>2. SubSeq(c, 1, Len(p)) = p
    BY <1>1
  <1> QED
    BY <1>1, <1>2 DEF Comparison!ParentPath, Comparison!Root

-----------------------------------------------------------------------------
(* The comparison page, for all names and trees and however often its user     *)
(* acts. (d: a tree; at: the paths of the panes, or of one; p: a pane.)        *)

IsTree(d) ==
    /\ DOMAIN d \subseteq Seq(EntryNames)
    /\ \A p \in DOMAIN d : p \in Seq(Folders) => d[p] = Comparison!Folder

\* What the page is instantiated with: trees in which what is named as a folder is
\* one; panes that begin at paths of folders and have room for all entries of a directory;
\* names that have each their own place in the order; a user who waits for answers, and
\* operates on entries only if neither pane shows a directory of the other.
PairsAreListed ==
    /\ IsFiniteSet(EntryNames) /\ Folders \subseteq EntryNames
    /\ \A name \in EntryNames : Rank["name"][name] \in Nat
    /\ \A a, b \in EntryNames : Rank["name"][a] = Rank["name"][b] => a = b
    /\ ListedAtOnce \in Nat \ { 0 } /\ Cardinality(EntryNames) <= ListedAtOnce
    /\ \A d \in Trees : IsTree(d)
    /\ Starts \subseteq [Comparison!Sides -> Seq(Folders)]
    /\ Patient = TRUE /\ Apart = TRUE

ArePaths(at) == at \in [Comparison!Sides -> Seq(Folders)]

ArePathsApart(at) ==
    \A side \in Comparison!Sides :
        at[Comparison!Other(side)] \notin Comparison!Lineage(at[side])

IsOnEntry(op, at) ==
    /\ ArePathsApart(at)
    /\ \E name \in EntryNames :
        /\ op.source = Comparison!Child(at[op.side], name)
        /\ \/ /\ op.kind = "copy"
              /\ op.destination = Comparison!Child(at[Comparison!Other(op.side)], name)
           \/ op.kind = "delete"
           \/ /\ op.kind = "rename" /\ name \notin Folders
              /\ \E new \in EntryNames \ Folders :
                    op.destination = Comparison!Child(at[op.side], new)
           \/ /\ op.kind = "move" /\ name \notin Folders
              /\ \E target \in Seq(Folders) : op.destination = Comparison!Child(target, name)

EntryKinds == { "copy", "delete", "rename", "move" }
Stages == { "sent", "checked", "copied", "done", "failed", "refetching" }

OperationFields ==
    { "kind", "side", "source", "destination", "pair", "stage", "heard", "targets", "ignored" }

IsOperation(op, at) ==
    /\ DOMAIN op = OperationFields
    /\ op.side \in Comparison!Sides /\ op.pair = at /\ op.heard = TRUE /\ op.stage \in Stages
    /\ op.kind \in EntryKinds \cup { "ignore", "compare", "stop" }
    /\ op.stage \in { "checked", "failed" } => op.kind \in EntryKinds
    /\ op.stage = "copied" => op.kind \in { "delete", "move" }
    /\ op.kind \in EntryKinds => IsOnEntry(op, at)

IsAsked(request, at) ==
    /\ DOMAIN request = { "kind", "pair", "operation", "answered", "view" }
    /\ request.pair = at
    /\ request.operation = Comparison!Nothing \/ request.operation.stage = "refetching"

ShapesAreRight ==
    /\ IsTree(disk) /\ ArePaths(panePath)
    /\ \A op \in operations : IsOperation(op, panePath)
    /\ \A request \in requests : IsAsked(request, panePath)

\* One operation at a time. Until the page has heard of it, nothing else is on its way
\* but the interval's requests; and while a comparison is asked for, not even those.
OperationIsAlone ==
    /\ \A op, other \in operations : op = other
    /\ \A op \in operations : op.stage # "refetching" =>
        /\ \A request \in requests : request.kind = "poll"
        /\ \A side \in Comparison!Sides : panes[side].fetches = {}
        /\ op.kind = "compare" => requests = {} /\ ~view.active

PollsAreActive == \A request \in requests : request.kind = "poll" => view.active

\* Something has changed that the page has yet to be told of, or is asking about.
HasActed(op) == op.stage \in { "copied", "done" } \/ (op.kind = "ignore" /\ op.stage = "sent")

Awaiting ==
    \/ \E op \in operations : HasActed(op)
    \/ \E request \in requests : request.kind # "poll"

Current == Comparison!GetComparisonView(panePath)

ViewIsFresh == view = Current \/ view.active \/ Awaiting

\* What an answer shows is so or will be asked for again; or it is one to the interval
\* that a later answer overtakes, which ends the interval.
IsOvertaken(request) ==
    /\ request.kind = "poll" /\ running = << >> /\ Awaiting
    /\ \A other \in requests : other.kind # "poll" /\ other.answered => ~other.view.active

AnswersAreFresh ==
    \A request \in requests : request.answered =>
        request.view = Current \/ request.view.active \/ IsOvertaken(request)

IsFetchOf(fetch, p, at) ==
    /\ fetch.query = [path |-> at, sortBy |-> "name", sortDir |-> "asc"]
    /\ fetch.offset = 0 /\ fetch.collected = << >> /\ fetch.generation = p.generation

IsPaneAt(p, at) ==
    /\ HasFields(p) /\ p.generation \in Nat
    /\ \A fetch, other \in p.fetches : fetch = other
    /\ \A fetch \in p.fetches : IsFetchOf(fetch, p, at)

EntriesIn(d, at) ==
    LET below == { p \in DOMAIN d \ { Comparison!Root } : Comparison!ParentPath(p) = at }
    IN  { p[Len(p)] : p \in below }

ListedIn(d, fetch) ==
    LET at == fetch.query.path
    IN  IF at \notin DOMAIN d \/ (at \in DOMAIN d /\ d[at] # Comparison!Folder)
        THEN [status |-> "not_found"]
        ELSE Comparison!ListDirectory(EntriesIn(d, at), fetch.query, fetch.offset)

ShowsEntries(p, d, at) ==
    IF p.notFound THEN at \notin DOMAIN d
    ELSE { p.entries[i] : i \in DOMAIN p.entries } = EntriesIn(d, at)

PanesAreRight ==
    /\ DOMAIN panes = Comparison!Sides /\ panes = [side \in Comparison!Sides |-> panes[side]]
    /\ \A side \in Comparison!Sides : IsPaneAt(panes[side], panePath[side])

ListingsAreRight ==
    \A l \in listings :
        /\ l = [side |-> l.side, fetch |-> l.fetch, answer |-> ListedIn(disk, l.fetch)]
        /\ l.side \in Comparison!Sides /\ l.fetch \in panes[l.side].fetches

RowsAreFresh ==
    \A side \in Comparison!Sides :
        \/ panes[side].fetches # {} \/ ShowsEntries(panes[side], disk, panePath[side])
        \/ \E op \in operations :
            op.stage \in { "copied", "done" } /\ side \in Comparison!Refreshes(op)

CInv ==
    /\ ShapesAreRight /\ OperationIsAlone /\ PollsAreActive /\ ViewIsFresh
    /\ AnswersAreFresh /\ PanesAreRight /\ ListingsAreRight /\ RowsAreFresh

LEMMA CurrentStays ==
    ASSUME UNCHANGED << disk, rows, ignoredPaths, running, panePath >>
    PROVE  Current' = Current
  BY DEF Current, Comparison!GetComparisonView, Comparison!OwnStatus, Comparison!EntryStatus,
     Comparison!IsAtWork, Comparison!EntriesOf

-----------------------------------------------------------------------------
(* Listings of one pane *)

LEMMA SidesAreTwo ==
    ASSUME NEW side \in Comparison!Sides
    PROVE  /\ Comparison!Other(side) \in Comparison!Sides /\ Comparison!Other(side) # side
           /\ \A any \in Comparison!Sides : any = side \/ any = Comparison!Other(side)
  BY DEF Comparison!Sides, Comparison!Other

LEMMA EntriesAreNames ==
    ASSUME PairsAreListed, NEW d, IsTree(d), NEW at
    PROVE  /\ EntriesIn(d, at) \subseteq EntryNames /\ IsFiniteSet(EntriesIn(d, at))
           /\ Cardinality(EntriesIn(d, at)) \in Nat
           /\ Cardinality(EntriesIn(d, at)) <= ListedAtOnce
  <1> DEFINE T == EntriesIn(d, at)
  <1>1. T \in SUBSET EntryNames
    <2> SUFFICES ASSUME NEW p \in DOMAIN d, p # Comparison!Root PROVE p[Len(p)] \in EntryNames
      BY DEF EntriesIn
    <2>1. p \in Seq(EntryNames)
      BY DEF IsTree
    <2> QED
      BY <2>1, ChildIsItsNames
  <1> HIDE DEF T
  <1>2. IsFiniteSet(T) /\ Cardinality(T) <= Cardinality(EntryNames)
    BY <1>1, FS_Subset DEF PairsAreListed
  <1>3. Cardinality(T) \in Nat /\ Cardinality(EntryNames) \in Nat
    BY <1>2, FS_CardinalityType DEF PairsAreListed
  <1> QED
    BY <1>1, <1>2, <1>3 DEF T, PairsAreListed

LEMMA FetchIsAsked ==
    ASSUME NEW p, HasFields(p), p.generation \in Nat, p.fetches = {}, NEW at
    PROVE  IsPaneAt(Comparison!Fetched(p, at), at) /\ Comparison!Fetched(p, at).fetches # {}
  <1> DEFINE asked == [path |-> at, sortBy |-> "name", sortDir |-> "asc"]
             new == [generation |-> p.generation + 1, query |-> asked, reset |-> TRUE,
                     offset |-> 0, collected |-> << >>, pages |-> 0, visible |-> 0]
  <1>1. Comparison!Fetched(p, at) = [p EXCEPT !.generation = p.generation + 1, !.busy = TRUE,
                                              !.loading = TRUE, !.fetches = @ \cup { new }]
    BY DEF Comparison!Fetched, Comparison!FetchFromOffset
  <1>2. Comparison!Fetched(p, at) =
            [entries |-> p.entries, hasMore |-> p.hasMore, loading |-> TRUE,
             notFound |-> p.notFound, error |-> p.error, generation |-> p.generation + 1,
             busy |-> TRUE, seen |-> p.seen, fetches |-> { new }]
    BY <1>1 DEF HasFields
  <1>3. IsFetchOf(new, Comparison!Fetched(p, at), at)
    BY <1>2 DEF IsFetchOf
  <1>4. /\ HasFields(Comparison!Fetched(p, at)) /\ Comparison!Fetched(p, at).generation \in Nat
        /\ Comparison!Fetched(p, at).fetches = { new }
    BY <1>2 DEF HasFields
  <1> HIDE DEF new
  <1> QED
    BY <1>3, <1>4 DEF IsPaneAt

LEMMA MountIsAsked ==
    ASSUME NEW at
    PROVE  IsPaneAt(Comparison!Mounted(at), at) /\ Comparison!Mounted(at).fetches # {}
  <1>1. HasFields(Comparison!NewPane) /\ Comparison!NewPane.generation \in Nat
            /\ Comparison!NewPane.fetches = {}
    BY DEF HasFields, Comparison!NewPane
  <1> QED
    BY <1>1, FetchIsAsked DEF Comparison!Mounted

\* A pane with room for all shows all once its listing comes.
LEMMA ListingShows ==
    ASSUME PairsAreListed, NEW d, IsTree(d), NEW at \in Seq(Folders), NEW p, IsPaneAt(p, at),
           NEW fetch \in p.fetches
    PROVE  LET q == Comparison!Answered(p, fetch, ListedIn(d, fetch), Comparison!NoneHidden, {})
           IN  IsPaneAt(q, at) /\ q.fetches = {} /\ ShowsEntries(q, d, at)
  <1> DEFINE answer == ListedIn(d, fetch)
             q == Comparison!Answered(p, fetch, answer, Comparison!NoneHidden, {})
             T == EntriesIn(d, at)
             asked == [path |-> at, sortBy |-> "name", sortDir |-> "asc"]
             s == Comparison!Sorted(T, asked)
  <1>1. /\ HasFields(p) /\ p.generation \in Nat /\ p.fetches = { fetch }
        /\ fetch.query = asked /\ fetch.query.path = at /\ fetch.offset = 0
        /\ fetch.collected = << >> /\ fetch.generation = p.generation
    BY DEF IsPaneAt, IsFetchOf
  <1>2. ~Comparison!Superseded(p, fetch)
    BY <1>1 DEF Comparison!Superseded
  <1>3. CASE at \notin DOMAIN d
    <2>1. answer.status = "not_found"
      BY <1>1, <1>3 DEF ListedIn
    <2>2. q = Comparison!Ended([p EXCEPT !.notFound = TRUE, !.error = FALSE,
                                         !.entries = << >>, !.hasMore = FALSE], fetch)
      BY <1>2, <2>1 DEF Comparison!Answered
    <2>3. q = [entries |-> << >>, hasMore |-> FALSE, loading |-> FALSE, notFound |-> TRUE,
               error |-> FALSE, generation |-> p.generation, busy |-> FALSE,
               seen |-> p.seen, fetches |-> {}]
      BY <1>1, <2>2 DEF Comparison!Ended, HasFields
    <2> QED
      BY <1>1, <1>3, <2>3 DEF IsPaneAt, HasFields, ShowsEntries
  <1>4. CASE at \in DOMAIN d
    <2>1. d[at] = Comparison!Folder
      BY <1>4 DEF IsTree
    <2>2. answer = Comparison!ListDirectory(T, asked, 0)
      BY <1>1, <1>4, <2>1 DEF ListedIn
    <2>3. /\ s \in Seq(T) /\ Len(s) = Cardinality(T) /\ { s[i] : i \in 1..Len(s) } = T
      <3>1. \A name \in T : Rank["name"][name] \in Nat
        BY EntriesAreNames DEF PairsAreListed
      <3>2. \A a, b \in T : Rank["name"][a] = Rank["name"][b] => a = b
        BY EntriesAreNames DEF PairsAreListed
      <3>3. IsFiniteSet(T) /\ asked.sortBy = "name"
        BY EntriesAreNames
      <3> HIDE DEF T, asked
      <3> QED
        BY <3>1, <3>2, <3>3, SortedHasAll, ComparisonOrder DEF s
    <2>4. Cardinality(T) \in Nat /\ Cardinality(T) <= ListedAtOnce /\ ListedAtOnce \in Nat
      BY EntriesAreNames DEF PairsAreListed
    <2> HIDE DEF s, T
    <2>5. ~(0 + ListedAtOnce < Len(s))
      BY <2>3, <2>4
    <2>6. SubSeq(s, 0 + 1, Len(s)) = s
      BY <2>3
    <2>7. answer = [status |-> "ok", hasMore |-> FALSE, entries |-> s]
      <3>1. answer = [status |-> "ok", hasMore |-> 0 + ListedAtOnce < Len(s),
                      entries |-> SubSeq(s, 0 + 1, IF 0 + ListedAtOnce < Len(s)
                          THEN 0 + ListedAtOnce
                                                   ELSE Len(s))]
        BY <2>2 DEF Comparison!ListDirectory, s
      <3>2. (0 + ListedAtOnce < Len(s)) = FALSE
        BY <2>5
      <3>3. (IF 0 + ListedAtOnce < Len(s) THEN 0 + ListedAtOnce ELSE Len(s)) = Len(s)
        BY <2>5
      <3> HIDE DEF answer
      <3> QED
        BY <3>1, <3>2, <3>3, <2>6
    <2> HIDE DEF answer
    <2>8. q = Comparison!PageCame(p, fetch, answer, Comparison!NoneHidden, {})
      BY <1>2, <2>7 DEF Comparison!Answered
    <2>9. << >> \o answer.entries = s /\ answer.hasMore = FALSE
      BY <2>3, <2>7
    <2>10. \A visible : ~Comparison!KeepGoing(fetch, visible, answer, {})
      BY DEF Comparison!KeepGoing
    <2>11. q = Comparison!Ended([p EXCEPT !.notFound = FALSE, !.error = FALSE, !.entries = s,
                                          !.hasMore = FALSE], fetch)
      BY <1>1, <2>8, <2>9, <2>10 DEF Comparison!PageCame
    <2>12. q = [entries |-> s, hasMore |-> FALSE, loading |-> FALSE, notFound |-> FALSE,
                error |-> FALSE, generation |-> p.generation, busy |-> FALSE,
                seen |-> p.seen, fetches |-> {}]
      BY <1>1, <2>11 DEF Comparison!Ended, HasFields
    <2>13. DOMAIN s = 1..Len(s)
      BY <2>3
    <2> HIDE DEF q
    <2>14. IsPaneAt(q, at) /\ q.fetches = {} /\ ~q.notFound /\ q.entries = s
      BY <1>1, <2>12 DEF IsPaneAt, HasFields
    <2>15. ShowsEntries(q, d, at)
      BY <2>3, <2>13, <2>14 DEF ShowsEntries, T
    <2> QED
      BY <2>14, <2>15 DEF q, answer
  <1> QED
    BY <1>3, <1>4

-----------------------------------------------------------------------------
(* What the user does *)

LEMMA PageIsAtRest ==
    ASSUME CInv, Comparison!Calm
    PROVE  /\ operations = {} /\ listings = {} /\ ~Awaiting /\ (view = Current \/ view.active)
           /\ \A request \in requests :
                /\ request.kind = "poll"
                /\ request.answered => request.view = Current \/ request.view.active
           /\ \A side \in Comparison!Sides :
                panes[side].fetches = {} /\ ShowsEntries(panes[side], disk, panePath[side])
  <1>1. /\ operations = {} /\ \A request \in requests : request.kind = "poll"
        /\ \A side \in Comparison!Sides : panes[side].fetches = {}
    BY DEF Comparison!Calm
  <1>2. ~Awaiting
    BY <1>1 DEF Awaiting
  <1>3. listings = {}
    BY <1>1 DEF CInv, ListingsAreRight
  <1>4. view = Current \/ view.active
    BY <1>2 DEF CInv, ViewIsFresh
  <1>5. \A request \in requests :
            request.answered => request.view = Current \/ request.view.active
    BY <1>2 DEF CInv, AnswersAreFresh, IsOvertaken
  <1>6. \A side \in Comparison!Sides : ShowsEntries(panes[side], disk, panePath[side])
    BY <1>1 DEF CInv, RowsAreFresh
  <1> QED
    BY <1>1, <1>2, <1>3, <1>4, <1>5, <1>6

LEMMA UserIsPatient ==
    ASSUME PairsAreListed, Comparison!UserActs
    PROVE  Comparison!Calm
  BY DEF PairsAreListed, Comparison!UserActs

LEMMA AskedKeeps ==
    ASSUME PairsAreListed, CInv, NEW op, Comparison!Asked(op), IsOperation(op, panePath),
           op.stage = "sent",
           op.kind = "compare" => ~view.active
    PROVE  CInv'
  <1> USE DEF CInv
  <1>1. Comparison!Calm /\ operations' = operations \cup { op }
    BY UserIsPatient DEF Comparison!Asked
  <1>2. UNCHANGED << disk, trash, rows, ignoredPaths, running, panePath, moveSync, view,
                     requests, panes, listings >>
    BY DEF Comparison!Asked, Comparison!server, Comparison!shown
  <1>3. /\ operations = {} /\ ~Awaiting /\ (view = Current \/ view.active)
        /\ \A request \in requests :
             /\ request.kind = "poll"
             /\ request.answered => request.view = Current \/ request.view.active
        /\ \A side \in Comparison!Sides :
             panes[side].fetches = {} /\ ShowsEntries(panes[side], disk, panePath[side])
    BY <1>1, PageIsAtRest
  <1>4. operations' = { op }
    BY <1>1, <1>3
  <1>5. Current' = Current
    BY <1>2, CurrentStays
  <1>6. ShapesAreRight'
    BY <1>2, <1>4 DEF ShapesAreRight
  <1>7. OperationIsAlone'
    <2>1. op.kind = "compare" => requests = {} /\ ~view.active
      BY <1>3 DEF PollsAreActive
    <2> QED
      BY <1>2, <1>3, <1>4, <2>1 DEF OperationIsAlone
  <1>8. PollsAreActive'
    BY <1>2 DEF PollsAreActive
  <1>9. ViewIsFresh' /\ AnswersAreFresh'
    BY <1>2, <1>3, <1>5 DEF ViewIsFresh, AnswersAreFresh
  <1>10. PanesAreRight' /\ ListingsAreRight'
    BY <1>2 DEF PanesAreRight, ListingsAreRight
  <1>11. RowsAreFresh'
    BY <1>2, <1>3 DEF RowsAreFresh
  <1> QED
    BY <1>2, <1>4, <1>6, <1>7, <1>8, <1>9, <1>10, <1>11

LEMMA ShowsKeeps ==
    ASSUME PairsAreListed, CInv, Comparison!UserActs, NEW paths, ArePaths(paths),
           Comparison!ShowPaths(paths),
           UNCHANGED << Comparison!server, view, listings, operations >>
    PROVE  CInv'
  <1> USE DEF CInv
  <1>1. /\ panePath' = paths
        /\ panes' = [side \in Comparison!Sides |->
                        IF paths[side] = panePath[side] THEN panes[side]
                        ELSE Comparison!Fetched(panes[side], paths[side])]
    BY DEF Comparison!ShowPaths
  <1>2. UNCHANGED << disk, trash, rows, ignoredPaths, running, view, listings, operations >>
    BY DEF Comparison!server
  <1>3. /\ operations = {} /\ listings = {} /\ (view = Current \/ view.active)
        /\ \A request \in requests :
             /\ request.kind = "poll"
             /\ request.answered => request.view = Current \/ request.view.active
        /\ \A side \in Comparison!Sides :
             panes[side].fetches = {} /\ ShowsEntries(panes[side], disk, panePath[side])
    BY UserIsPatient, PageIsAtRest
  <1>4. DOMAIN panes = Comparison!Sides
            /\ \A side \in Comparison!Sides : IsPaneAt(panes[side], panePath[side])
    BY DEF PanesAreRight
  <1>5. ASSUME NEW side \in Comparison!Sides
        PROVE  /\ IsPaneAt(panes'[side], panePath'[side])
               /\ \/ panes'[side].fetches # {}
                  \/ ShowsEntries(panes'[side], disk', panePath'[side])
    <2>1. CASE paths[side] = panePath[side]
      BY <1>1, <1>2, <1>3, <1>4, <2>1
    <2>2. CASE paths[side] # panePath[side]
      <3>1. panes'[side] = Comparison!Fetched(panes[side], paths[side])
        BY <1>1, <2>2
      <3>2. HasFields(panes[side]) /\ panes[side].generation \in Nat /\ panes[side].fetches = {}
        BY <1>3, <1>4 DEF IsPaneAt
      <3> QED
        BY <1>1, <3>1, <3>2, FetchIsAsked
    <2> QED
      BY <2>1, <2>2
  <1>6. PanesAreRight'
    BY <1>1, <1>5 DEF PanesAreRight
  <1>7. RowsAreFresh'
    BY <1>5 DEF RowsAreFresh
  <1>8. ListingsAreRight'
    BY <1>2, <1>3 DEF ListingsAreRight
  <1>9. OperationIsAlone'
    BY <1>2, <1>3 DEF OperationIsAlone
  <1>10. CASE paths = panePath
    <2>1. requests' = requests
      BY <1>10 DEF Comparison!ShowPaths
    <2>2. Current' = Current
      BY <1>1, <1>2, <1>10, CurrentStays
    <2>3. ShapesAreRight' /\ PollsAreActive'
      BY <1>1, <1>2, <1>3, <1>10, <2>1 DEF ShapesAreRight, PollsAreActive
    <2>4. ViewIsFresh' /\ AnswersAreFresh'
      BY <1>2, <1>3, <2>1, <2>2 DEF ViewIsFresh, AnswersAreFresh
    <2> QED
      BY <1>2, <1>3, <1>6, <1>7, <1>8, <1>9, <2>3, <2>4
  <1>11. CASE paths # panePath
    <2> DEFINE new == Comparison!Request("effect", paths, Comparison!Nothing)
    <2>1. requests' = { new }
      <3>1. requests' = { r \in requests : ~Comparison!IsDropped(r) } \cup { new }
        BY <1>11 DEF Comparison!ShowPaths
      <3> HIDE DEF new
      <3> QED
        BY <1>3, <3>1 DEF Comparison!IsDropped
    <2>2. /\ new = [kind |-> "effect", pair |-> paths, operation |-> Comparison!Nothing,
                  answered |-> FALSE,
                    view |-> Comparison!NoView]
          /\ new.kind = "effect" /\ ~new.answered /\ IsAsked(new, paths)
      BY DEF Comparison!Request, IsAsked
    <2> HIDE DEF new
    <2>3. ShapesAreRight'
      BY <1>1, <1>2, <1>3, <2>1, <2>2 DEF ShapesAreRight
    <2>4. PollsAreActive' /\ ViewIsFresh' /\ AnswersAreFresh'
      BY <2>1, <2>2 DEF PollsAreActive, ViewIsFresh, AnswersAreFresh, Awaiting
    <2> QED
      BY <1>2, <1>3, <1>6, <1>7, <1>8, <1>9, <2>3, <2>4
  <1> QED
    BY <1>10, <1>11

LEMMA ReloadKeeps ==
    ASSUME PairsAreListed, CInv, Comparison!Reload
    PROVE  CInv'
  <1> USE DEF CInv
  <1>1. /\ view' = Comparison!NoView
        /\ requests' = { Comparison!Request("effect", panePath, Comparison!Nothing) }
        /\ panes' = [side \in Comparison!Sides |-> Comparison!Mounted(panePath[side])]
        /\ listings' = {} /\ UNCHANGED << panePath, disk, trash >>
    BY DEF Comparison!Reload, Comparison!server
  <1>2. operations = {}
    BY UserIsPatient, PageIsAtRest DEF Comparison!Reload
  <1>3. operations' = {}
    BY <1>2 DEF Comparison!Reload
  <1> DEFINE new == Comparison!Request("effect", panePath, Comparison!Nothing)
  <1>4. requests' = { new }
    BY <1>1
  <1>5. new.kind = "effect" /\ ~new.answered /\ IsAsked(new, panePath)
    BY DEF Comparison!Request, IsAsked
  <1> HIDE DEF new
  <1>6. ShapesAreRight'
    BY <1>1, <1>3, <1>4, <1>5 DEF ShapesAreRight
  <1>7. PollsAreActive' /\ ViewIsFresh' /\ AnswersAreFresh'
    BY <1>4, <1>5 DEF PollsAreActive, ViewIsFresh, AnswersAreFresh, Awaiting
  <1>8. OperationIsAlone' /\ ListingsAreRight'
    BY <1>1, <1>3 DEF OperationIsAlone, ListingsAreRight
  <1>9. \A side \in Comparison!Sides :
            IsPaneAt(panes'[side], panePath'[side]) /\ panes'[side].fetches # {}
    BY <1>1, MountIsAsked
  <1>10. PanesAreRight' /\ RowsAreFresh'
    BY <1>1, <1>9 DEF PanesAreRight, RowsAreFresh
  <1> QED
    BY <1>1, <1>3, <1>6, <1>7, <1>8, <1>10

LEMMA AboveAFolder ==
    ASSUME PairsAreListed, CInv, NEW side \in Comparison!Sides
    PROVE  /\ panePath[side] \in Seq(Folders) /\ Folders \subseteq EntryNames
           /\ Comparison!Lineage(panePath[side]) \subseteq Seq(Folders)
           /\ panePath[Comparison!Other(side)] \in Seq(Folders)
  <1>1. Comparison!Other(side) \in Comparison!Sides
    BY SidesAreTwo
  <1>2. panePath[side] \in Seq(Folders) /\ panePath[Comparison!Other(side)] \in Seq(Folders)
    BY <1>1 DEF CInv, ShapesAreRight, ArePaths
  <1>3. Comparison!Lineage(panePath[side]) \subseteq Seq(Folders)
    BY <1>2, AboveIsBeginning
  <1> QED
    BY <1>2, <1>3 DEF PairsAreListed

LEMMA BothArePaths ==
    ASSUME PairsAreListed, CInv, NEW side \in Comparison!Sides, NEW at \in Seq(Folders),
           NEW other \in Seq(Folders)
    PROVE  ArePaths(Comparison!Both(side, at, other))
  <1>1. \A s \in Comparison!Sides : panePath[s] \in Seq(Folders)
    BY AboveAFolder
  <1> QED
    BY <1>1 DEF ArePaths, Comparison!Both

LEMMA UpwardsIsAbove ==
    ASSUME NEW at \in Seq(Folders), NEW count \in Nat
    PROVE  Comparison!Upwards(at, count) \in Seq(Folders)
  <1>1. Len(at) \in Nat
    OBVIOUS
  <1>2. CASE count < Len(at)
    <2>1. Len(at) - count \in 0..Len(at)
      BY <1>1, <1>2
    <2> QED
      BY <1>2, <2>1 DEF Comparison!Upwards
  <1>3. CASE ~(count < Len(at))
    BY <1>3 DEF Comparison!Upwards
  <1> QED
    BY <1>2, <1>3

LEMMA NavigationKeeps ==
    ASSUME PairsAreListed, CInv, NEW side \in Comparison!Sides
    PROVE  /\ Comparison!NavigateUp(side) => CInv'
           /\ \A target : Comparison!NavigateToPath(side, target) => CInv'
           /\ \A name : Comparison!NavigateInto(side, name) => CInv'
  <1>1. /\ panePath[side] \in Seq(Folders)
        /\ Comparison!Lineage(panePath[side]) \subseteq Seq(Folders)
        /\ panePath[Comparison!Other(side)] \in Seq(Folders)
    BY AboveAFolder
  <1>2. ASSUME Comparison!NavigateUp(side) PROVE CInv'
    <2> DEFINE paths ==
        Comparison!Both(side, Comparison!ParentPath(panePath[side]),
                               Comparison!Upwards(panePath[Comparison!Other(side)], 1))
    <2>1. Comparison!ParentPath(panePath[side]) \in Seq(Folders)
      BY <1>1, <1>2, ChildIsItsNames DEF Comparison!NavigateUp
    <2>2. Comparison!Upwards(panePath[Comparison!Other(side)], 1) \in Seq(Folders)
      BY <1>1, UpwardsIsAbove
    <2>3. ArePaths(paths)
      BY <2>1, <2>2, BothArePaths
    <2>4. /\ Comparison!UserActs /\ Comparison!ShowPaths(paths)
          /\ UNCHANGED << Comparison!server, view, listings, operations >>
      BY <1>2 DEF Comparison!NavigateUp
    <2> HIDE DEF paths
    <2> QED
      BY <2>3, <2>4, ShowsKeeps
  <1>3. ASSUME NEW target, Comparison!NavigateToPath(side, target) PROVE CInv'
    <2> DEFINE up == Len(panePath[side]) - Len(target)
               paths == Comparison!Both(side, target,
                                   Comparison!Upwards(panePath[Comparison!Other(side)], up))
    <2>1. target \in Comparison!Lineage(panePath[side])
      BY <1>3 DEF Comparison!NavigateToPath
    <2>2. target \in Seq(Folders) /\ Len(target) \in 0..Len(panePath[side])
      BY <1>1, <2>1, AboveIsBeginning
    <2>3. up \in Nat
      BY <1>1, <2>2
    <2>4. /\ Comparison!UserActs /\ Comparison!ShowPaths(paths)
          /\ UNCHANGED << Comparison!server, view, listings, operations >>
      BY <1>3 DEF Comparison!NavigateToPath
    <2> HIDE DEF up
    <2>5. Comparison!Upwards(panePath[Comparison!Other(side)], up) \in Seq(Folders)
      BY <1>1, <2>3, UpwardsIsAbove
    <2>6. ArePaths(paths)
      BY <2>2, <2>5, BothArePaths
    <2> HIDE DEF paths
    <2> QED
      BY <2>4, <2>6, ShowsKeeps
  <1>4. ASSUME NEW name, Comparison!NavigateInto(side, name) PROVE CInv'
    <2> DEFINE paths == Comparison!Both(side, Comparison!Child(panePath[side], name),
                             Comparison!Child(panePath[Comparison!Other(side)], name))
    <2>1. name \in Folders
      BY <1>4 DEF Comparison!NavigateInto
    <2>2. /\ Comparison!Child(panePath[side], name) \in Seq(Folders)
          /\ Comparison!Child(panePath[Comparison!Other(side)], name) \in Seq(Folders)
      BY <1>1, <2>1 DEF Comparison!Child
    <2>3. ArePaths(paths)
      BY <2>2, BothArePaths
    <2>4. /\ Comparison!UserActs /\ Comparison!ShowPaths(paths)
          /\ UNCHANGED << Comparison!server, view, listings, operations >>
      BY <1>4 DEF Comparison!NavigateInto
    <2> HIDE DEF paths
    <2> QED
      BY <2>3, <2>4, ShowsKeeps
  <1> QED
    BY <1>2, <1>3, <1>4

LEMMA SwitchKeeps ==
    ASSUME PairsAreListed, CInv, Comparison!SwitchMoveSync
    PROVE  CInv'
  <1>1. UNCHANGED << disk, trash, rows, ignoredPaths, running, panePath, view, requests, panes,
                     listings, operations >>
    BY DEF Comparison!SwitchMoveSync, Comparison!server
  <1>2. Current' = Current
    BY <1>1, CurrentStays
  <1> QED
    BY <1>1, <1>2 DEF CInv, ShapesAreRight, OperationIsAlone, PollsAreActive, ViewIsFresh,
                      AnswersAreFresh, IsOvertaken, Awaiting, PanesAreRight, ListingsAreRight,
                      RowsAreFresh

LEMMA PathsAreApart ==
    ASSUME PairsAreListed, NEW op, Comparison!Asked(op), op.kind \in EntryKinds
    PROVE  ArePathsApart(panePath)
  <1>1. Comparison!AreApart
    BY DEF PairsAreListed, Comparison!Asked, EntryKinds
  <1> QED
    BY <1>1 DEF Comparison!AreApart, ArePathsApart, Comparison!IsWithinSubtree

\* What Toggle and Stop make of an operation.
LEMMA AimedOperation ==
    ASSUME NEW op, DOMAIN op = OperationFields, NEW targets, NEW ignored
    PROVE  /\ LET new == [op EXCEPT !.targets = targets]
              IN  /\ DOMAIN new = OperationFields /\ new.kind = op.kind /\ new.side = op.side
                  /\ new.pair = op.pair /\ new.stage = op.stage /\ new.heard = op.heard
           /\ LET new == [op EXCEPT !.targets = targets, !.ignored = ignored]
              IN  /\ DOMAIN new = OperationFields /\ new.kind = op.kind /\ new.side = op.side
                  /\ new.pair = op.pair /\ new.stage = op.stage /\ new.heard = op.heard
  BY DEF OperationFields

LEMMA NewOperation ==
    ASSUME NEW kind, NEW side, NEW source, NEW destination
    PROVE  LET new == Comparison!Operation(kind, side, source, destination)
           IN  /\ DOMAIN new = OperationFields /\ new.kind = kind /\ new.side = side
               /\ new.source = source /\ new.destination = destination
               /\ new.pair = panePath /\ new.stage = "sent" /\ new.heard = TRUE
  BY DEF OperationFields, Comparison!Operation

LEMMA EntryOperationKeeps ==
    ASSUME PairsAreListed, CInv, NEW side \in Comparison!Sides, NEW name \in EntryNames
    PROVE  /\ Comparison!CopyToOtherSide(side, name) => CInv'
           /\ Comparison!DeleteFromThisSide(side, name) => CInv'
           /\ \A dragged \in EntryNames : Comparison!RenameViaDrop(side, name, dragged)
              => CInv'
           /\ \A target \in Comparison!Segments :
              Comparison!MoveViaBreadcrumbDrop(side, name, target) => CInv'
  <1> DEFINE new(kind, destination) ==
                Comparison!Operation(kind, side, Comparison!Child(panePath[side], name),
                                      destination)
  <1>1. ASSUME NEW kind \in EntryKinds, NEW destination,
               Comparison!Asked(new(kind, destination)),
               \/ /\ kind = "copy"
                  /\ destination = Comparison!Child(panePath[Comparison!Other(side)], name)
               \/ kind = "delete"
               \/ /\ kind = "rename" /\ name \notin Folders
                  /\ \E renamed \in EntryNames \ Folders :
                        destination = Comparison!Child(panePath[side], renamed)
               \/ /\ kind = "move" /\ name \notin Folders
                  /\ \E target \in Seq(Folders) : destination = Comparison!Child(target, name)
        PROVE  CInv'
    <2> DEFINE op == new(kind, destination)
    <2>1. /\ DOMAIN op = OperationFields /\ op.kind = kind /\ op.side = side
          /\ op.source = Comparison!Child(panePath[side], name) /\ op.destination = destination
          /\ op.pair = panePath /\ op.stage = "sent" /\ op.heard = TRUE
      BY NewOperation
    <2>2. Comparison!Asked(op)
      BY <1>1
    <2> HIDE DEF op
    <2>3. ArePathsApart(panePath)
      BY <2>1, <2>2, PathsAreApart
    <2>4. IsOnEntry(op, panePath)
      BY <1>1, <2>1, <2>3 DEF IsOnEntry
    <2>5. IsOperation(op, panePath)
      BY <2>1, <2>4 DEF IsOperation, EntryKinds, Stages
    <2>6. op.stage = "sent" /\ op.kind # "compare"
      BY <2>1 DEF EntryKinds
    <2> QED
      BY <2>2, <2>5, <2>6, AskedKeeps
  <1>2. ASSUME Comparison!CopyToOtherSide(side, name) PROVE CInv'
    <2>1. Comparison!Asked(new("copy", Comparison!Child(
                                panePath[Comparison!Other(side)], name)))
      BY <1>2 DEF Comparison!CopyToOtherSide
    <2> HIDE DEF new
    <2> QED
      BY <1>1, <2>1 DEF EntryKinds
  <1>3. ASSUME Comparison!DeleteFromThisSide(side, name) PROVE CInv'
    <2>1. Comparison!Asked(new("delete", << >>))
      BY <1>3 DEF Comparison!DeleteFromThisSide
    <2> HIDE DEF new
    <2> QED
      BY <1>1, <2>1 DEF EntryKinds
  <1>4. ASSUME NEW dragged \in EntryNames, Comparison!RenameViaDrop(side, name, dragged)
        PROVE CInv'
    <2>1. Comparison!Asked(new("rename", Comparison!Child(panePath[side], dragged)))
      BY <1>4 DEF Comparison!RenameViaDrop
    <2>2. name \notin Folders /\ dragged \notin Folders
      BY <1>4 DEF Comparison!RenameViaDrop, Comparison!AcceptsDrop
    <2> HIDE DEF new
    <2> QED
      BY <1>1, <2>1, <2>2 DEF EntryKinds
  <1>5. ASSUME NEW target \in Comparison!Segments,
               Comparison!MoveViaBreadcrumbDrop(side, name, target) PROVE CInv'
    <2>1. Comparison!Asked(new("move", Comparison!Child(target, name)))
      BY <1>5 DEF Comparison!MoveViaBreadcrumbDrop
    <2>2. name \notin Folders
      BY <1>5 DEF Comparison!MoveViaBreadcrumbDrop
    <2>3. target \in Seq(Folders)
      BY AboveAFolder DEF Comparison!Segments, Comparison!Sides
    <2> HIDE DEF new
    <2> QED
      BY <1>1, <2>1, <2>2, <2>3 DEF EntryKinds
  <1> HIDE DEF new
  <1> QED
    BY <1>2, <1>3, <1>4, <1>5

LEMMA OtherOperationKeeps ==
    ASSUME PairsAreListed, CInv
    PROVE  /\ \A side \in Comparison!Sides : Comparison!ToggleOwnIgnore(side) => CInv'
           /\ \A side \in Comparison!Sides : \A name : Comparison!ToggleIgnore(side, name)
              => CInv'
           /\ Comparison!Compare => CInv'
           /\ Comparison!Stop => CInv'
  <1>1. ASSUME NEW op, Comparison!Asked(op), DOMAIN op = OperationFields,
               op.side \in Comparison!Sides,
               op.kind \in { "ignore", "compare", "stop" }, op.pair = panePath,
               op.stage = "sent", op.heard = TRUE, op.kind = "compare" => ~view.active
        PROVE  CInv'
    <2>1. IsOperation(op, panePath)
      BY <1>1 DEF IsOperation, EntryKinds, Stages
    <2> QED
      BY <1>1, <2>1, AskedKeeps
  <1>2. ASSUME NEW side \in Comparison!Sides, NEW pathOf, NEW mark,
               Comparison!Toggle(side, pathOf, mark) PROVE CInv'
    <2> DEFINE new == Comparison!Operation("ignore", side, << >>, << >>)
               targets == IF moveSync THEN << pathOf[side], pathOf[Comparison!Other(side)] >>
                          ELSE << pathOf[side] >>
               ignored == mark # "ignored"
               op == [new EXCEPT !.targets = targets, !.ignored = ignored]
    <2>1. Comparison!Asked(op)
      BY <1>2 DEF Comparison!Toggle
    <2>2. /\ DOMAIN new = OperationFields /\ new.kind = "ignore" /\ new.side = side
          /\ new.pair = panePath /\ new.stage = "sent" /\ new.heard = TRUE
      BY DEF OperationFields, Comparison!Operation
    <2> HIDE DEF new, targets, ignored
    <2>3. /\ DOMAIN op = OperationFields /\ op.kind = "ignore" /\ op.side = side
          /\ op.pair = panePath /\ op.stage = "sent" /\ op.heard = TRUE
      BY <2>2, AimedOperation
    <2> HIDE DEF op
    <2> QED
      BY <1>1, <2>1, <2>3
  <1>3. ASSUME NEW side \in Comparison!Sides, Comparison!ToggleOwnIgnore(side) PROVE CInv'
    BY <1>2, <1>3 DEF Comparison!ToggleOwnIgnore
  <1>4. ASSUME NEW side \in Comparison!Sides, NEW name, Comparison!ToggleIgnore(side, name)
        PROVE CInv'
    BY <1>2, <1>4 DEF Comparison!ToggleIgnore
  <1>5. "left" \in Comparison!Sides
    BY DEF Comparison!Sides
  <1>6. ASSUME Comparison!Compare PROVE CInv'
    <2> DEFINE op == Comparison!Operation("compare", "left", << >>, << >>)
    <2>1. Comparison!Asked(op) /\ ~view.active
      BY <1>6 DEF Comparison!Compare, PairsAreListed
    <2>2. /\ DOMAIN op = OperationFields /\ op.kind = "compare" /\ op.side = "left"
          /\ op.pair = panePath /\ op.stage = "sent" /\ op.heard = TRUE
      BY DEF OperationFields, Comparison!Operation
    <2> HIDE DEF op
    <2> QED
      BY <1>1, <1>5, <2>1, <2>2
  <1>7. ASSUME Comparison!Stop PROVE CInv'
    <2> DEFINE new == Comparison!Operation("stop", "left", << >>, << >>)
               op == [new EXCEPT !.targets = << view.activePair >>]
    <2>1. Comparison!Asked(op)
      BY <1>7 DEF Comparison!Stop
    <2>2. /\ DOMAIN new = OperationFields /\ new.kind = "stop" /\ new.side = "left"
          /\ new.pair = panePath /\ new.stage = "sent" /\ new.heard = TRUE
      BY DEF OperationFields, Comparison!Operation
    <2> HIDE DEF new
    <2>3. /\ DOMAIN op = OperationFields /\ op.kind = "stop" /\ op.side = "left"
          /\ op.pair = panePath /\ op.stage = "sent" /\ op.heard = TRUE
      BY <2>2, AimedOperation
    <2> HIDE DEF op
    <2> QED
      BY <1>1, <1>5, <2>1, <2>3
  <1> QED
    BY <1>3, <1>4, <1>6, <1>7

-----------------------------------------------------------------------------
(* What the server does *)

LEMMA OperationIsIt ==
    ASSUME CInv, NEW op \in operations
    PROVE  /\ operations = { op } /\ IsOperation(op, panePath)
           /\ \A new : (operations \ { op }) \cup { new } = { new }
           /\ op.stage # "refetching" =>
                /\ \A request \in requests : request.kind = "poll"
                /\ \A side \in Comparison!Sides : panes[side].fetches = {}
                /\ listings = {}
                /\ (Awaiting <=> HasActed(op))
  <1>1. \A other \in operations : other = op
    BY DEF CInv, OperationIsAlone
  <1>2. operations = { op }
    BY <1>1
  <1>3. IsOperation(op, panePath)
    BY DEF CInv, ShapesAreRight
  <1>4. ASSUME op.stage # "refetching"
        PROVE  /\ \A request \in requests : request.kind = "poll"
               /\ \A side \in Comparison!Sides : panes[side].fetches = {}
    BY <1>4 DEF CInv, OperationIsAlone
  <1>5. op.stage # "refetching" => listings = {}
    BY <1>4 DEF CInv, ListingsAreRight
  <1>6. op.stage # "refetching" => (Awaiting <=> HasActed(op))
    BY <1>2, <1>4 DEF Awaiting
  <1>7. \A new : (operations \ { op }) \cup { new } = { new }
    BY <1>2
  <1> QED
    BY <1>2, <1>3, <1>4, <1>5, <1>6, <1>7

\* A step of the server's. What the page shows stays right, or there will be an answer.
LEMMA ServerStepKeeps ==
    ASSUME CInv, NEW op \in operations, op.stage # "refetching",
           NEW new, operations' = (operations \ { op }) \cup { new },
           IsOperation(new, panePath), new.stage # "refetching", new.kind = op.kind,
           UNCHANGED Comparison!shown, IsTree(disk'),
           HasActed(op) => HasActed(new),
           ~HasActed(new) => Current' = Current,
           running = << >> => running' = << >> \/ op.kind = "compare",
           op.stage \in { "copied", "done" } =>
                new.stage \in { "copied", "done" }
                    /\ Comparison!Refreshes(new) = Comparison!Refreshes(op),
           \A side \in Comparison!Sides :
                \/ new.stage \in { "copied", "done" } /\ side \in Comparison!Refreshes(new)
                \/ ShowsEntries(panes[side], disk, panePath[side]) =>
                        ShowsEntries(panes[side], disk', panePath[side])
    PROVE  CInv'
  <1> USE DEF CInv
  <1>1. /\ operations = { op } /\ operations' = { new }
        /\ \A request \in requests : request.kind = "poll"
        /\ \A side \in Comparison!Sides : panes[side].fetches = {}
        /\ listings = {} /\ (Awaiting <=> HasActed(op))
    BY OperationIsIt
  <1>2. UNCHANGED << panePath, view, requests, panes, listings >>
    BY DEF Comparison!shown
  <1>3. ShapesAreRight'
    BY <1>1, <1>2 DEF ShapesAreRight
  <1>4. OperationIsAlone'
    BY <1>1, <1>2 DEF OperationIsAlone
  <1>5. PollsAreActive'
    BY <1>2 DEF PollsAreActive
  <1>6. PanesAreRight' /\ ListingsAreRight'
    BY <1>1, <1>2 DEF PanesAreRight, ListingsAreRight
  <1>7. RowsAreFresh'
    <2> SUFFICES ASSUME NEW side \in Comparison!Sides
                 PROVE  \/ ShowsEntries(panes[side], disk', panePath[side])
                        \/ new.stage \in { "copied", "done" }
                           /\ side \in Comparison!Refreshes(new)
      BY <1>1, <1>2 DEF RowsAreFresh
    <2>1. \/ ShowsEntries(panes[side], disk, panePath[side])
          \/ op.stage \in { "copied", "done" } /\ side \in Comparison!Refreshes(op)
      BY <1>1 DEF RowsAreFresh
    <2> QED
      BY <2>1
  <1>8. HasActed(new) => Awaiting'
    BY <1>1 DEF Awaiting
  <1>9. ViewIsFresh'
    BY <1>1, <1>2, <1>8 DEF ViewIsFresh
  <1>10. AnswersAreFresh'
    <2> SUFFICES ASSUME NEW request \in requests, request.answered
                 PROVE  request.view = Current' \/ request.view.active \/ IsOvertaken(request)'
      BY <1>2 DEF AnswersAreFresh
    <2>1. request.view = Current \/ request.view.active \/ IsOvertaken(request)
      BY DEF AnswersAreFresh
    <2>2. CASE ~HasActed(new)
      BY <1>1, <2>1, <2>2 DEF IsOvertaken
    <2>3. CASE HasActed(new) /\ ~request.view.active
      <3>1. running = << >>
        <4>1. Current.active = (running # << >>)
          BY DEF Current, Comparison!GetComparisonView
        <4> QED
          BY <2>1, <2>3, <4>1 DEF IsOvertaken
      <3>2. running' = << >>
        <4>1. op.kind # "compare"
          BY DEF OperationIsAlone
        <4> QED
          BY <3>1, <4>1
      <3> QED
        BY <1>1, <1>2, <1>8, <2>3, <3>2 DEF IsOvertaken
    <2> QED
      BY <2>2, <2>3
  <1> QED
    BY <1>3, <1>4, <1>5, <1>6, <1>7, <1>9, <1>10

\* An operation one stage further.
LEMMA StagedOperation ==
    ASSUME CInv, NEW op \in operations, NEW stage \in Stages,
           stage \in { "checked", "failed" } => op.kind \in EntryKinds,
           stage = "copied" => op.kind \in { "delete", "move" }
    PROVE  LET new == [op EXCEPT !.stage = stage]
           IN  /\ IsOperation(new, panePath) /\ new.kind = op.kind /\ new.stage = stage
               /\ Comparison!Refreshes(new) = Comparison!Refreshes(op)
               /\ new.source = op.source /\ new.destination = op.destination
  <1> DEFINE new == [op EXCEPT !.stage = stage]
  <1>1. IsOperation(op, panePath)
    BY DEF CInv, ShapesAreRight
  <1>2. /\ DOMAIN new = OperationFields /\ new.kind = op.kind /\ new.stage = stage
        /\ new.side = op.side /\ new.pair = op.pair /\ new.heard = op.heard
        /\ new.source = op.source /\ new.destination = op.destination
    BY <1>1 DEF IsOperation, OperationFields
  <1> HIDE DEF new
  <1>3. IsOnEntry(op, panePath) => IsOnEntry(new, panePath)
    BY <1>2 DEF IsOnEntry
  <1>4. Comparison!Refreshes(new) = Comparison!Refreshes(op)
    BY <1>2 DEF Comparison!Refreshes
  <1>5. IsOperation(new, panePath)
    BY <1>1, <1>2, <1>3 DEF IsOperation
  <1> QED
    BY <1>2, <1>4, <1>5 DEF new

LEMMA ServerChecksKeeps ==
    ASSUME CInv, NEW op \in operations, Comparison!ServerChecks(op)
    PROVE  CInv'
  <1> DEFINE stage == IF Comparison!IsRefused(op) THEN "failed" ELSE "checked"
             new == [op EXCEPT !.stage = stage]
  <1>1. /\ op.kind \in EntryKinds /\ op.stage = "sent"
        /\ operations' = (operations \ { op }) \cup { new }
        /\ UNCHANGED << disk, rows, ignoredPaths, running, panePath >>
        /\ UNCHANGED Comparison!shown
    BY DEF Comparison!ServerChecks, Comparison!To, EntryKinds, Comparison!server,
       Comparison!shown
  <1>2. stage \in { "failed", "checked" }
    OBVIOUS
  <1> HIDE DEF stage
  <1>3. /\ IsOperation(new, panePath) /\ new.kind = op.kind /\ new.stage = stage
    BY <1>1, <1>2, StagedOperation DEF Stages
  <1> HIDE DEF new
  <1>4. /\ ~HasActed(op) /\ op.stage \notin { "copied", "done", "refetching" }
        /\ new.stage # "refetching"
    BY <1>1, <1>2, <1>3 DEF HasActed, EntryKinds
  <1>5. Current' = Current
    BY <1>1, CurrentStays
  <1>6. IsTree(disk')
    BY <1>1 DEF CInv, ShapesAreRight
  <1> QED
    BY <1>1, <1>3, <1>4, <1>5, <1>6, ServerStepKeeps

LEMMA ServerMarksKeeps ==
    ASSUME CInv, NEW op \in operations, Comparison!ServerMarks(op)
    PROVE  CInv'
  <1>1. /\ op.kind = "ignore" /\ op.stage = "sent" /\ UNCHANGED << disk, running >>
        /\ UNCHANGED Comparison!shown
    BY DEF Comparison!ServerMarks, Comparison!shown
  <1>2. IsTree(disk') /\ IsOperation(op, panePath)
    BY <1>1 DEF CInv, ShapesAreRight
  <1>3. HasActed(op) /\ op.stage \notin { "copied", "done", "refetching" }
    BY <1>1 DEF HasActed
  <1>4. CASE Len(op.targets) = 1
    <2> DEFINE new == [op EXCEPT !.stage = "done"]
    <2>1. operations' = (operations \ { op }) \cup { new }
      BY <1>4 DEF Comparison!ServerMarks, Comparison!To
    <2>2. /\ IsOperation(new, panePath) /\ new.kind = op.kind /\ new.stage = "done"
      BY <1>1, StagedOperation DEF Stages, EntryKinds
    <2> HIDE DEF new
    <2>3. HasActed(new)
      BY <2>2 DEF HasActed
    <2> QED
      BY <1>1, <1>2, <1>3, <2>1, <2>2, <2>3, ServerStepKeeps
  <1>5. CASE Len(op.targets) # 1
    <2> DEFINE targets == Tail(op.targets)
               new == [op EXCEPT !.targets = targets]
    <2>1. operations' = (operations \ { op }) \cup { new }
      BY <1>5 DEF Comparison!ServerMarks
    <2> HIDE DEF targets
    <2>2. /\ DOMAIN new = OperationFields /\ new.kind = op.kind /\ new.side = op.side
          /\ new.pair = op.pair /\ new.stage = op.stage /\ new.heard = op.heard
      BY <1>2, AimedOperation DEF IsOperation
    <2> HIDE DEF new
    <2>3. IsOperation(new, panePath) /\ HasActed(new)
      BY <1>1, <1>2, <2>2 DEF IsOperation, HasActed, EntryKinds
    <2> QED
      BY <1>1, <1>2, <1>3, <2>1, <2>2, <2>3, ServerStepKeeps
  <1> QED
    BY <1>4, <1>5

LEMMA ServerRunsKeeps ==
    ASSUME CInv, NEW op \in operations,
           Comparison!ServerCompares(op) \/ Comparison!ServerStops(op)
    PROVE  CInv'
  <1> DEFINE new == [op EXCEPT !.stage = "done"]
  <1>1. /\ op.kind \in { "compare", "stop" } /\ op.stage = "sent" /\ disk' = disk
        /\ operations' = (operations \ { op }) \cup { new } /\ UNCHANGED Comparison!shown
    BY DEF Comparison!ServerCompares, Comparison!ServerStops, Comparison!To, Comparison!shown
  <1>2. /\ IsOperation(new, panePath) /\ new.kind = op.kind /\ new.stage = "done"
    BY <1>1, StagedOperation DEF Stages
  <1> HIDE DEF new
  <1>3. HasActed(new)
    BY <1>2 DEF HasActed
  <1>4. running = << >> => running' = << >> \/ op.kind = "compare"
    BY <1>1 DEF Comparison!ServerCompares, Comparison!ServerStops
  <1>5. IsTree(disk')
    BY <1>1 DEF CInv, ShapesAreRight
  <1>6. op.stage \notin { "copied", "done", "refetching" }
    BY <1>1
  <1> QED
    BY <1>1, <1>2, <1>3, <1>4, <1>5, <1>6, ServerStepKeeps

\* A directory that is there before and after, with the entries it had.
SameAt(d, after, at) ==
    /\ EntriesIn(after, at) = EntriesIn(d, at)
    /\ at \in DOMAIN d <=> at \in DOMAIN after

LEMMA SameIsShown ==
    ASSUME NEW d, NEW after, NEW at, SameAt(d, after, at), NEW p
    PROVE  ShowsEntries(p, d, at) => ShowsEntries(p, after, at)
  BY DEF SameAt, ShowsEntries

\* What happens below c, or to directories that were there or are elsewhere, is no
\* matter of `at` if c is neither an entry of it nor above it.
LEMMA EntriesStay ==
    ASSUME NEW d, DOMAIN d \subseteq Seq(EntryNames), NEW after,
           DOMAIN after \subseteq Seq(EntryNames),
           NEW at \in Seq(EntryNames), NEW c \in Seq(EntryNames),
           c \notin Comparison!Lineage(at), Comparison!ParentPath(c) # at,
           NEW above,
           \A q \in above : \/ q \in DOMAIN d
                            \/ q # at /\ (q = Comparison!Root \/ Comparison!ParentPath(q) # at),
           \A p \in Seq(EntryNames) : c \notin Comparison!Lineage(p) =>
                (p \in DOMAIN after <=> p \in DOMAIN d \/ p \in above)
    PROVE  SameAt(d, after, at)
  <1>1. ASSUME NEW p \in Seq(EntryNames),
               p = at \/ (p # Comparison!Root /\ Comparison!ParentPath(p) = at)
        PROVE  p \in DOMAIN after <=> p \in DOMAIN d
    <2>1. c \notin Comparison!Lineage(p)
      <3>1. CASE p = at
        BY <3>1
      <3>2. CASE p # at
        <4>1. p[Len(p)] \in EntryNames /\ p = Append(at, p[Len(p)])
          BY <1>1, <3>2, ChildIsItsNames
        <4>2. Comparison!Lineage(p) = { p } \cup Comparison!Lineage(at)
          BY <4>1, AboveChild
        <4> QED
          BY <1>1, <3>2, <4>2
      <3> QED
        BY <3>1, <3>2
    <2> QED
      BY <1>1, <2>1
  <1>2. { p \in DOMAIN d \ { Comparison!Root } : Comparison!ParentPath(p) = at } =
            { p \in DOMAIN after \ { Comparison!Root } : Comparison!ParentPath(p) = at }
    BY <1>1
  <1>3. EntriesIn(after, at) = EntriesIn(d, at)
    BY <1>2 DEF EntriesIn
  <1> QED
    BY <1>1, <1>3 DEF SameAt

LEMMA RestJoins ==
    ASSUME NEW S, NEW p \in Seq(S), NEW c \in Comparison!Lineage(p)
    PROVE  c \in Seq(S) /\ Comparison!Rest(p, c) \in Seq(S) /\ p = c \o Comparison!Rest(p, c)
  <1>1. c \in Seq(S) /\ Len(c) \in 0..Len(p) /\ \A i \in 1..Len(c) : c[i] = p[i]
    BY AboveIsBeginning
  <1>2. Len(p) \in Nat
    OBVIOUS
  <1> DEFINE r == Comparison!Rest(p, c)
  <1>3. r \in Seq(S) /\ Len(r) = Len(p) - Len(c) /\ \A i \in 1..Len(r) : r[i] = p[Len(c) + i]
    BY <1>1, <1>2 DEF Comparison!Rest
  <1> HIDE DEF r
  <1>4. /\ c \o r \in Seq(S) /\ Len(c \o r) = Len(p)
        /\ \A i \in 1..Len(p) : (c \o r)[i] = p[i]
    BY <1>1, <1>2, <1>3
  <1>5. p = c \o r
    BY <1>4, SeqEqual
  <1> QED
    BY <1>1, <1>3, <1>5 DEF r

LEMMA RestOfJoined ==
    ASSUME NEW S, NEW c \in Seq(S), NEW r \in Seq(S)
    PROVE  Comparison!Rest(c \o r, c) = r
  <1>1. Len(c) \in Nat /\ Len(r) \in Nat
    OBVIOUS
  <1> DEFINE p == c \o r
  <1>2. /\ p \in Seq(S) /\ Len(p) = Len(c) + Len(r)
        /\ \A i \in 1..Len(r) : p[Len(c) + i] = r[i]
    BY <1>1
  <1> HIDE DEF p
  <1>3. SubSeq(p, Len(c) + 1, Len(p)) = r
    <2> DEFINE s == SubSeq(p, Len(c) + 1, Len(p))
    <2>1. s \in Seq(S) /\ Len(s) = Len(r) /\ \A i \in 1..Len(r) : s[i] = p[Len(c) + i]
      BY <1>1, <1>2
    <2> HIDE DEF s
    <2>2. s = r
      BY <1>2, <2>1, SeqEqual
    <2> QED
      BY <2>2 DEF s
  <1> QED
    BY <1>3 DEF Comparison!Rest, p

LEMMA JoinedNames ==
    ASSUME NEW S, NEW F, NEW c \in Seq(S), NEW r \in Seq(S), c \o r \in Seq(F)
    PROVE  c \in Seq(F) /\ r \in Seq(F)
  <1>1. Len(c) \in Nat /\ Len(r) \in Nat /\ Len(c \o r) = Len(c) + Len(r)
    OBVIOUS
  <1>2. \A i \in 1..Len(c) : (c \o r)[i] = c[i]
    OBVIOUS
  <1>3. \A i \in 1..Len(r) : (c \o r)[Len(c) + i] = r[i]
    OBVIOUS
  <1>4. \A i \in 1..Len(c \o r) : (c \o r)[i] \in F
    OBVIOUS
  <1>5. \A i \in 1..Len(c) : c[i] \in F
    BY <1>1, <1>2, <1>4
  <1>6. \A i \in 1..Len(r) : r[i] \in F
    BY <1>1, <1>3, <1>4
  <1> QED
    BY <1>5, <1>6

\* A copy brings what is below the source, and makes the directories above it.
LEMMA CopiedIsTree ==
    ASSUME IsTree(disk), NEW source \in Seq(EntryNames), NEW destination \in Seq(EntryNames),
           Folders \subseteq EntryNames, destination \in Seq(Folders) => source \in Seq(Folders)
    PROVE  LET after == Comparison!Copied(source, destination)
           IN  /\ IsTree(after)
               /\ \A p \in Seq(EntryNames) : destination \notin Comparison!Lineage(p) =>
                    (p \in DOMAIN after <=>
                        \/ p \in DOMAIN disk
                        \/ p \in Comparison!Lineage(destination) \ { destination })
  <1> DEFINE arrived == { destination \o Comparison!Rest(p, source) :
                            p \in Comparison!Subtree(source) }
             above == Comparison!Lineage(destination) \ { destination }
             after == Comparison!Copied(source, destination)
  <1>1. /\ DOMAIN after = arrived \cup above \cup DOMAIN disk
        /\ \A p \in DOMAIN after :
             after[p] = IF p \in arrived THEN disk[source \o Comparison!Rest(p, destination)]
                        ELSE IF p \in above THEN Comparison!Folder ELSE disk[p]
    BY DEF Comparison!Copied
  <1>2. ASSUME NEW p \in arrived
        PROVE  /\ p \in Seq(EntryNames) /\ destination \in Comparison!Lineage(p)
               /\ p \in Seq(Folders)
                  => disk[source \o Comparison!Rest(p, destination)] = Comparison!Folder
    <2>1. PICK q \in Comparison!Subtree(source) : p = destination \o Comparison!Rest(q, source)
      OBVIOUS
    <2>2. q \in DOMAIN disk /\ q \in Seq(EntryNames) /\ source \in Comparison!Lineage(q)
      BY <2>1 DEF Comparison!Subtree, Comparison!IsWithinSubtree, IsTree
    <2> DEFINE r == Comparison!Rest(q, source)
    <2>3. r \in Seq(EntryNames) /\ q = source \o r
      BY <2>2, RestJoins
    <2>4. p = destination \o r
      BY <2>1
    <2> HIDE DEF r
    <2>5. p \in Seq(EntryNames) /\ destination \in Comparison!Lineage(p)
      BY <2>3, <2>4, JoinedIsBelow
    <2>6. Comparison!Rest(p, destination) = r
      BY <2>3, <2>4, RestOfJoined
    <2>7. ASSUME p \in Seq(Folders) PROVE q \in Seq(Folders)
      <3>1. destination \in Seq(Folders) /\ r \in Seq(Folders)
        BY <2>3, <2>4, <2>7, JoinedNames
      <3> QED
        BY <2>3, <3>1
    <2> QED
      BY <2>2, <2>3, <2>5, <2>6, <2>7 DEF IsTree
  <1>3. above \subseteq Seq(EntryNames)
    BY AboveIsBeginning
  <1>4. DOMAIN disk \subseteq Seq(EntryNames) /\ \A p \in DOMAIN disk : p \in Seq(Folders)
            => disk[p] = Comparison!Folder
    BY DEF IsTree
  <1> HIDE DEF arrived, above, after
  <1>5. IsTree(after)
    BY <1>1, <1>2, <1>3, <1>4 DEF IsTree
  <1>6. \A p \in Seq(EntryNames) : destination \notin Comparison!Lineage(p) =>
            (p \in DOMAIN after <=> p \in DOMAIN disk \/ p \in above)
    BY <1>1, <1>2
  <1> QED
    BY <1>5, <1>6 DEF after, above

\* What an operation does is no matter of a pane that it does not refresh.
LEMMA OperationIsApart ==
    ASSUME PairsAreListed, NEW at, ArePaths(at), NEW op, IsOnEntry(op, at),
           op.kind \in EntryKinds, op.side \in Comparison!Sides, op.pair = at
    PROVE  /\ op.source \in Seq(EntryNames)
           /\ op.kind # "delete" =>
                /\ op.destination \in Seq(EntryNames)
                /\ op.destination \in Seq(Folders) => op.source \in Seq(Folders)
           /\ \A side \in Comparison!Sides \ Comparison!Refreshes(op) :
                /\ op.kind # "copy" =>
                    /\ op.source \notin Comparison!Lineage(at[side])
                    /\ Comparison!ParentPath(op.source) # at[side]
                /\ op.kind # "delete" =>
                    /\ op.destination \notin Comparison!Lineage(at[side])
                    /\ Comparison!ParentPath(op.destination) # at[side]
                /\ op.kind = "copy" =>
                    \A q \in Comparison!Lineage(op.destination) \ { op.destination } :
                    q # at[side] /\ (q = Comparison!Root \/ Comparison!ParentPath(q) # at[side])
  <1> DEFINE s == op.side
             o == Comparison!Other(op.side)
  <1>1. PICK name \in EntryNames :
            /\ op.source = Comparison!Child(at[s], name)
            /\ \/ op.kind = "copy" /\ op.destination = Comparison!Child(at[o], name)
               \/ op.kind = "delete"
               \/ /\ op.kind = "rename" /\ name \notin Folders
                  /\ \E new \in EntryNames \ Folders :
                     op.destination = Comparison!Child(at[s], new)
               \/ /\ op.kind = "move" /\ name \notin Folders
                  /\ \E target \in Seq(Folders) :
                     op.destination = Comparison!Child(target, name)
    BY DEF IsOnEntry
  <1>2. s \in Comparison!Sides /\ o \in Comparison!Sides /\ o # s
            /\ \A any \in Comparison!Sides : any = s \/ any = o
    BY SidesAreTwo
  <1>3. Comparison!Other(o) = s
    BY DEF Comparison!Other, Comparison!Sides
  <1>4. /\ Folders \subseteq EntryNames /\ at[s] \in Seq(Folders) /\ at[o] \in Seq(Folders)
        /\ at[s] \in Seq(EntryNames) /\ at[o] \in Seq(EntryNames)
    BY <1>2 DEF PairsAreListed, ArePaths
  <1>5. at[o] \notin Comparison!Lineage(at[s]) /\ at[s] \notin Comparison!Lineage(at[o])
    BY <1>2, <1>3 DEF IsOnEntry, ArePathsApart
  <1> HIDE DEF s, o
  \* A child of one pane's path is neither above the other's nor in it.
  <1>6. ASSUME NEW p \in Seq(EntryNames), NEW q \in Seq(EntryNames),
               p \notin Comparison!Lineage(q), NEW child \in EntryNames
        PROVE  /\ Comparison!Child(p, child) \in Seq(EntryNames)
               /\ Comparison!Child(p, child) \notin Comparison!Lineage(q)
               /\ Comparison!ParentPath(Comparison!Child(p, child)) # q
    <2>1. Append(p, child) \in Seq(EntryNames)
      BY <1>6, AboveChild
    <2>2. Append(p, child) \notin Comparison!Lineage(q)
      BY <1>6, ParentIsAbove
    <2>3. Comparison!ParentPath(Append(p, child)) = p
      BY ChildHasParent
    <2>4. q \in Comparison!Lineage(q)
      BY IsAboveItself
    <2> QED
      BY <1>6, <2>1, <2>2, <2>3, <2>4 DEF Comparison!Child
  \* A file's path is none of a directory.
  <1>7. ASSUME NEW p \in Seq(EntryNames), NEW child \in EntryNames \ Folders
        PROVE  Comparison!Child(p, child) \notin Seq(Folders)
    <2>1. Append(p, child) # Comparison!Root /\ Append(p, child)[Len(Append(p, child))] = child
      BY ChildHasParent
    <2> HIDE DEF Comparison!Child
    <2>2. Append(p, child) \notin Seq(Folders)
      <3> DEFINE c == Append(p, child)
      <3> HIDE DEF c
      <3>1. c \in Seq(Folders) => c[Len(c)] \in Folders
        BY <2>1, ChildIsItsNames DEF c
      <3> QED
        BY <2>1, <3>1 DEF c
    <2> QED
      BY <2>2 DEF Comparison!Child
  <1>8. op.source \in Seq(EntryNames)
    BY <1>1, <1>4, <1>5, <1>6
  <1>9. CASE op.kind = "copy"
    <2>1. op.destination = Comparison!Child(at[o], name) /\ Comparison!Refreshes(op) = { o }
      BY <1>1, <1>9 DEF Comparison!Refreshes, o
    <2>2. op.destination \in Seq(Folders) => op.source \in Seq(Folders)
      <3>1. CASE name \in Folders
        BY <1>1, <1>4, <3>1 DEF Comparison!Child
      <3>2. CASE name \notin Folders
        BY <1>4, <1>7, <2>1, <3>2
      <3> QED
        BY <3>1, <3>2
    <2>3. /\ op.destination \in Seq(EntryNames)
          /\ op.destination \notin Comparison!Lineage(at[s])
          /\ Comparison!ParentPath(op.destination) # at[s]
      BY <1>4, <1>5, <1>6, <2>1
    <2>4. ASSUME NEW q \in Comparison!Lineage(op.destination) \ { op.destination }
          PROVE  q # at[s] /\ (q = Comparison!Root \/ Comparison!ParentPath(q) # at[s])
      <3>1. Comparison!Lineage(op.destination) =
              { op.destination } \cup Comparison!Lineage(at[o])
        BY <1>4, <2>1, AboveChild DEF Comparison!Child
      <3>2. q \in Comparison!Lineage(at[o])
        BY <3>1
      <3>3. q \in Seq(EntryNames)
        BY <1>4, <3>2, AboveIsBeginning
      <3>4. ASSUME q # Comparison!Root, Comparison!ParentPath(q) = at[s] PROVE FALSE
        <4>1. PICK last \in EntryNames : q = Append(at[s], last)
          BY <3>3, <3>4, ChildIsItsNames
        <4>2. at[s] \in Comparison!Lineage(at[o])
          BY <1>4, <3>2, <4>1, ParentIsAbove
        <4> QED
          BY <1>5, <4>2
      <3> QED
        BY <1>5, <3>2, <3>4
    <2> QED
      BY <1>2, <1>8, <1>9, <2>1, <2>2, <2>3, <2>4
  <1>10. CASE op.kind \in { "delete", "rename" }
    <2>1. Comparison!Refreshes(op) = { s }
      BY <1>10 DEF Comparison!Refreshes, s
    <2>2. op.source \notin Comparison!Lineage(at[o]) /\ Comparison!ParentPath(op.source) # at[o]
      BY <1>1, <1>4, <1>5, <1>6
    <2>3. ASSUME op.kind = "rename"
          PROVE  /\ op.destination \in Seq(EntryNames) /\ op.destination \notin Seq(Folders)
                 /\ op.destination \notin Comparison!Lineage(at[o])
                 /\ Comparison!ParentPath(op.destination) # at[o]
      <3>1. PICK new \in EntryNames \ Folders : op.destination = Comparison!Child(at[s], new)
        BY <1>1, <2>3
      <3> QED
        BY <1>4, <1>5, <1>6, <1>7, <3>1
    <2> QED
      BY <1>2, <1>8, <1>10, <2>1, <2>2, <2>3
  <1>11. CASE op.kind = "move"
    <2>1. name \notin Folders
      BY <1>1, <1>11
    <2>2. PICK target \in Seq(Folders) : op.destination = Comparison!Child(target, name)
      BY <1>1, <1>11
    <2>3. target \in Seq(EntryNames)
      BY <1>4
    <2>4. op.destination \in Seq(EntryNames) /\ Comparison!ParentPath(op.destination) = target
      BY <2>2, <2>3, AboveChild, ChildHasParent DEF Comparison!Child
    <2>5. op.destination \notin Seq(Folders)
      BY <1>7, <2>1, <2>2, <2>3
    <2>6. op.destination \notin Comparison!Lineage(at[o])
      BY <1>4, <2>5, AboveIsBeginning
    <2>7. op.source \notin Comparison!Lineage(at[o]) /\ Comparison!ParentPath(op.source) # at[o]
      BY <1>1, <1>4, <1>5, <1>6
    <2>8. Comparison!Refreshes(op) = { s } \cup { side \in Comparison!Sides :
              at[side] = target }
      BY <1>11, <2>4 DEF Comparison!Refreshes, s
    <2>9. \A side \in Comparison!Sides \ Comparison!Refreshes(op) : side = o /\ at[o] # target
      BY <1>2, <2>8
    <2> QED
      BY <1>8, <1>11, <2>4, <2>5, <2>6, <2>7, <2>9
  <1> QED
    BY <1>9, <1>10, <1>11 DEF EntryKinds

LEMMA RestrictedIsTree ==
    ASSUME NEW d, IsTree(d), NEW out, NEW source \in Seq(EntryNames),
           \A p \in out : source \in Comparison!Lineage(p),
           NEW at \in Seq(EntryNames)
    PROVE  LET after == [p \in DOMAIN d \ out |-> d[p]]
           IN  /\ IsTree(after)
               /\ source \notin Comparison!Lineage(at) /\ Comparison!ParentPath(source) # at
                  => SameAt(d, after, at)
  <1> DEFINE after == [p \in DOMAIN d \ out |-> d[p]]
  <1>1. DOMAIN after = DOMAIN d \ out /\ \A p \in DOMAIN after : after[p] = d[p]
    OBVIOUS
  <1> HIDE DEF after
  <1>2. IsTree(after)
    BY <1>1 DEF IsTree
  <1>3. ASSUME source \notin Comparison!Lineage(at), Comparison!ParentPath(source) # at
        PROVE  SameAt(d, after, at)
    <2>1. DOMAIN d \subseteq Seq(EntryNames) /\ DOMAIN after \subseteq Seq(EntryNames)
      BY <1>2 DEF IsTree
    <2>2. \A p \in Seq(EntryNames) : source \notin Comparison!Lineage(p) =>
                (p \in DOMAIN after <=> p \in DOMAIN d \/ p \in {})
      BY <1>1
    <2> QED
      BY <1>3, <2>1, <2>2, EntriesStay
  <1> QED
    BY <1>2, <1>3 DEF after

LEMMA ServerRemovesKeeps ==
    ASSUME PairsAreListed, CInv, NEW op \in operations, Comparison!ServerRemoves(op)
    PROVE  CInv'
  <1> DEFINE new == [op EXCEPT !.stage = "done"]
  <1>1. /\ op.stage = "copied" /\ running' = running /\ UNCHANGED Comparison!shown
        /\ disk' = Comparison!Removed(op.source)
        /\ operations' = (operations \ { op }) \cup { new }
    BY DEF Comparison!ServerRemoves, Comparison!To, Comparison!shown
  <1>2. /\ IsOperation(new, panePath) /\ new.kind = op.kind /\ new.stage = "done"
        /\ Comparison!Refreshes(new) = Comparison!Refreshes(op)
    BY StagedOperation DEF Stages
  <1> HIDE DEF new
  <1>3. HasActed(new) /\ new.stage # "refetching"
    BY <1>2 DEF HasActed
  <1>4. /\ IsOperation(op, panePath) /\ ArePaths(panePath) /\ IsTree(disk)
    BY DEF CInv, ShapesAreRight
  <1>5. /\ op.kind \in { "delete", "move" } /\ IsOnEntry(op, panePath)
        /\ op.side \in Comparison!Sides /\ op.pair = panePath
    BY <1>1, <1>4 DEF IsOperation, EntryKinds
  <1>6. /\ op.source \in Seq(EntryNames)
        /\ \A side \in Comparison!Sides \ Comparison!Refreshes(op) :
                /\ op.source \notin Comparison!Lineage(panePath[side])
                /\ Comparison!ParentPath(op.source) # panePath[side]
    BY <1>4, <1>5, OperationIsApart DEF EntryKinds
  <1>7. \A p \in Comparison!Subtree(op.source) : op.source \in Comparison!Lineage(p)
    BY DEF Comparison!Subtree, Comparison!IsWithinSubtree
  <1>8. \A side \in Comparison!Sides : panePath[side] \in Seq(EntryNames)
    BY <1>4 DEF ArePaths, PairsAreListed
  <1>9. disk' = [p \in DOMAIN disk \ Comparison!Subtree(op.source) |-> disk[p]]
    BY <1>1 DEF Comparison!Removed
  <1>10. IsTree(disk')
    <2>1. PICK side \in Comparison!Sides : TRUE
      BY <1>5
    <2> QED
      BY <1>4, <1>6, <1>7, <1>8, <1>9, <2>1, RestrictedIsTree
  <1>11. \A side \in Comparison!Sides \ Comparison!Refreshes(op) :
             SameAt(disk, disk', panePath[side])
    BY <1>4, <1>6, <1>7, <1>8, <1>9, RestrictedIsTree
  <1>12. \A side \in Comparison!Sides : \/ side \in Comparison!Refreshes(new)
                                        \/ ShowsEntries(panes[side], disk, panePath[side]) =>
                                               ShowsEntries(panes[side], disk', panePath[side])
    BY <1>2, <1>11, SameIsShown
  <1> QED
    BY <1>1, <1>2, <1>3, <1>10, <1>12, ServerStepKeeps

LEMMA ServerActsKeeps ==
    ASSUME PairsAreListed, CInv, NEW op \in operations, NEW outcome,
           Comparison!ServerActs(op, outcome)
    PROVE  CInv'
  <1>1. /\ op.stage = "checked" /\ UNCHANGED << rows, ignoredPaths, running, panePath >>
        /\ UNCHANGED Comparison!shown
    BY DEF Comparison!ServerActs, Comparison!shown
  <1>2. IsOperation(op, panePath) /\ ArePaths(panePath) /\ IsTree(disk)
    BY DEF CInv, ShapesAreRight
  <1>3. /\ op.kind \in EntryKinds /\ IsOnEntry(op, panePath) /\ op.side \in Comparison!Sides
        /\ op.pair = panePath
    BY <1>1, <1>2 DEF IsOperation
  <1>4. ~HasActed(op) /\ op.stage \notin { "copied", "done", "refetching" }
    BY <1>1, <1>3 DEF HasActed, EntryKinds
  <1>5. CASE outcome = "unreadable" \/ Comparison!MustFail(op)
    <2> DEFINE new == [op EXCEPT !.stage = "failed"]
    <2>1. operations' = (operations \ { op }) \cup { new } /\ disk' = disk
      BY <1>5 DEF Comparison!ServerActs, Comparison!To
    <2>2. /\ IsOperation(new, panePath) /\ new.kind = op.kind /\ new.stage = "failed"
      BY <1>3, StagedOperation DEF Stages
    <2> HIDE DEF new
    <2>3. Current' = Current
      BY <1>1, <2>1, CurrentStays
    <2> QED
      BY <1>1, <1>2, <1>4, <2>1, <2>2, <2>3, ServerStepKeeps
  <1>6. CASE ~(outcome = "unreadable" \/ Comparison!MustFail(op))
    <2> DEFINE stage == IF CrossDevice /\ op.kind \in { "move", "delete" } THEN "copied"
        ELSE "done"
               new == [op EXCEPT !.stage = stage]
               there == IF op.kind = "delete" THEN disk
                   ELSE Comparison!Copied(op.source, op.destination)
               stays == op.kind = "copy" \/ (CrossDevice /\ op.kind # "rename")
    <2>1. operations' = (operations \ { op }) \cup { new }
      BY <1>6 DEF Comparison!ServerActs, Comparison!To
    <2>2. disk' = IF stays THEN there
              ELSE [p \in DOMAIN there \ Comparison!Subtree(op.source) |-> there[p]]
      BY <1>6 DEF Comparison!ServerActs
    <2>3. stage \in { "copied", "done" } /\ (stage = "copied"
              => op.kind \in { "delete", "move" })
      OBVIOUS
    <2> HIDE DEF stage
    <2>4. /\ IsOperation(new, panePath) /\ new.kind = op.kind /\ new.stage = stage
          /\ Comparison!Refreshes(new) = Comparison!Refreshes(op)
      <3>1. stage \in Stages /\ stage \notin { "checked", "failed" }
        BY <2>3 DEF Stages
      <3> QED
        BY <2>3, <3>1, StagedOperation
    <2> HIDE DEF new
    <2>5. HasActed(new) /\ new.stage \in { "copied", "done" } /\ new.stage # "refetching"
      BY <2>3, <2>4 DEF HasActed
    <2>6. \A side \in Comparison!Sides : panePath[side] \in Seq(EntryNames)
      BY <1>2 DEF ArePaths, PairsAreListed
    <2>7. /\ op.source \in Seq(EntryNames)
          /\ op.kind # "delete" =>
               /\ op.destination \in Seq(EntryNames)
               /\ op.destination \in Seq(Folders) => op.source \in Seq(Folders)
      BY <1>2, <1>3, OperationIsApart
    <2>8. /\ IsTree(there)
          /\ \A side \in Comparison!Sides \ Comparison!Refreshes(op) :
             SameAt(disk, there, panePath[side])
      <3>1. CASE op.kind = "delete"
        BY <1>2, <3>1 DEF SameAt
      <3>2. CASE op.kind # "delete"
        <4> DEFINE above == Comparison!Lineage(op.destination) \ { op.destination }
        <4>1. there = Comparison!Copied(op.source, op.destination)
          BY <3>2
        <4>2. /\ IsTree(there)
              /\ \A p \in Seq(EntryNames) : op.destination \notin Comparison!Lineage(p) =>
                    (p \in DOMAIN there <=> p \in DOMAIN disk \/ p \in above)
          BY <1>2, <2>7, <3>2, <4>1, CopiedIsTree DEF PairsAreListed
        <4>3. \A q \in above : op.kind # "copy" => q \in DOMAIN disk
          BY <1>6, <3>2 DEF Comparison!MustFail
        <4> HIDE DEF there, above
        <4>4. ASSUME NEW side \in Comparison!Sides \ Comparison!Refreshes(op)
              PROVE  SameAt(disk, there, panePath[side])
          <5>1. /\ op.destination \notin Comparison!Lineage(panePath[side])
                /\ Comparison!ParentPath(op.destination) # panePath[side]
                /\ op.kind = "copy" => \A q \in above :
                    /\ q # panePath[side]
                    /\ q = Comparison!Root \/ Comparison!ParentPath(q) # panePath[side]
            BY <1>2, <1>3, <3>2, OperationIsApart DEF above
          <5>2. \A q \in above :
                    \/ q \in DOMAIN disk
                    \/ /\ q # panePath[side]
                       /\ q = Comparison!Root \/ Comparison!ParentPath(q) # panePath[side]
            BY <4>3, <5>1
          <5>3. DOMAIN disk \subseteq Seq(EntryNames) /\ DOMAIN there \subseteq Seq(EntryNames)
            BY <1>2, <4>2 DEF IsTree
          <5> QED
            BY <2>6, <2>7, <3>2, <4>2, <5>1, <5>2, <5>3, EntriesStay
        <4> QED
          BY <4>2, <4>4
      <3> QED
        BY <3>1, <3>2
    <2> HIDE DEF there
    <2>9. \A p \in Comparison!Subtree(op.source) : op.source \in Comparison!Lineage(p)
      BY DEF Comparison!Subtree, Comparison!IsWithinSubtree
    <2>10. PICK any \in Comparison!Sides : TRUE
      BY <1>3
    <2>11. IsTree(disk')
      <3>1. CASE stays
        BY <2>2, <2>8, <3>1
      <3>2. CASE ~stays
        <4>1. disk' = [p \in DOMAIN there \ Comparison!Subtree(op.source) |-> there[p]]
          BY <2>2, <3>2
        <4> QED
          BY <2>6, <2>7, <2>8, <2>9, <2>10, <4>1, RestrictedIsTree
      <3> QED
        BY <3>1, <3>2
    <2>12. ASSUME NEW side \in Comparison!Sides \ Comparison!Refreshes(op)
           PROVE  SameAt(disk, disk', panePath[side])
      <3>1. CASE stays
        BY <2>2, <2>8, <3>1
      <3>2. CASE ~stays
        <4>1. disk' = [p \in DOMAIN there \ Comparison!Subtree(op.source) |-> there[p]]
          BY <2>2, <3>2
        <4>2. /\ op.source \notin Comparison!Lineage(panePath[side])
              /\ Comparison!ParentPath(op.source) # panePath[side]
          BY <1>2, <1>3, <3>2, OperationIsApart
        <4>3. SameAt(there, disk', panePath[side])
          BY <2>6, <2>7, <2>8, <2>9, <4>1, <4>2, RestrictedIsTree
        <4> QED
          BY <2>8, <4>3 DEF SameAt
      <3> QED
        BY <3>1, <3>2
    <2>13. \A side \in Comparison!Sides : \/ side \in Comparison!Refreshes(new)
                                          \/ ShowsEntries(panes[side], disk, panePath[side]) =>
                                               ShowsEntries(panes[side], disk', panePath[side])
      BY <2>4, <2>12, SameIsShown
    <2> QED
      BY <1>1, <1>4, <2>1, <2>4, <2>5, <2>11, <2>13, ServerStepKeeps
  <1> QED
    BY <1>5, <1>6

\* While a comparison runs, no view that is right says that none does.
LEMMA ComparisonEndsKeeps ==
    ASSUME CInv, Comparison!ComparisonEnds
    PROVE  CInv'
  <1> USE DEF CInv
  <1>1. running # << >>
            /\ UNCHANGED << disk, panePath, view, requests, panes, listings, operations >>
    BY DEF Comparison!ComparisonEnds, Comparison!shown
  <1>2. Current.active
    BY <1>1 DEF Current, Comparison!GetComparisonView
  <1>3. ViewIsFresh'
    BY <1>1, <1>2 DEF ViewIsFresh, Awaiting
  <1>4. AnswersAreFresh'
    BY <1>1, <1>2 DEF AnswersAreFresh, IsOvertaken
  <1> QED
    BY <1>1, <1>3, <1>4 DEF ShapesAreRight, OperationIsAlone, PollsAreActive, PanesAreRight,
                            ListingsAreRight, RowsAreFresh

-----------------------------------------------------------------------------
(* What the page does *)

LEMMA PageHearsKeeps ==
    ASSUME CInv, NEW op \in operations, Comparison!PageHears(op)
    PROVE  CInv'
  <1> USE DEF CInv
  <1>1. /\ op.stage \in { "done", "failed" }
        /\ UNCHANGED << disk, rows, ignoredPaths, running, panePath, view, listings >>
    BY DEF Comparison!PageHears, Comparison!server
  <1>2. /\ operations = { op } /\ IsOperation(op, panePath)
        /\ \A request \in requests : request.kind = "poll"
        /\ \A side \in Comparison!Sides : panes[side].fetches = {}
        /\ listings = {} /\ (Awaiting <=> HasActed(op))
    BY <1>1, OperationIsIt
  <1>3. Current' = Current
    BY <1>1, CurrentStays
  <1>4. ListingsAreRight'
    BY <1>1, <1>2 DEF ListingsAreRight
  <1>5. CASE op.stage = "failed"
    <2>1. operations' = {} /\ UNCHANGED << panes, requests >>
      BY <1>2, <1>5 DEF Comparison!PageHears
    <2>2. ~Awaiting
      BY <1>2, <1>5 DEF HasActed
    <2>3. ShapesAreRight' /\ OperationIsAlone' /\ PollsAreActive' /\ PanesAreRight'
      BY <1>1, <2>1 DEF ShapesAreRight, OperationIsAlone, PollsAreActive, PanesAreRight
    <2>4. ViewIsFresh' /\ AnswersAreFresh'
      BY <1>1, <1>3, <2>1, <2>2 DEF ViewIsFresh, AnswersAreFresh, IsOvertaken
    <2>5. RowsAreFresh'
      BY <1>1, <1>2, <1>5, <2>1 DEF RowsAreFresh
    <2> QED
      BY <1>4, <2>3, <2>4, <2>5
  <1>6. CASE op.stage = "done"
    <2> DEFINE new == [op EXCEPT !.stage = "refetching"]
               asked == Comparison!Request("call", op.pair, new)
    <2>1. /\ operations' = { new } /\ requests' = requests \cup { asked }
          /\ panes' = [side \in Comparison!Sides |->
                          IF side \in Comparison!Refreshes(op)
                              THEN Comparison!Fetched(panes[side], panePath[side])
                          ELSE panes[side]]
      BY <1>2, <1>6 DEF Comparison!PageHears, Comparison!To, IsOperation
    <2>2. IsOperation(new, panePath) /\ new.stage = "refetching"
      BY <1>6, StagedOperation DEF Stages
    <2>3. op.pair = panePath
      BY <1>2 DEF IsOperation
    <2> HIDE DEF new
    <2>4. asked.kind = "call" /\ ~asked.answered /\ IsAsked(asked, panePath)
      BY <2>2, <2>3 DEF Comparison!Request, IsAsked
    <2> HIDE DEF asked
    <2>5. ShapesAreRight' /\ OperationIsAlone' /\ PollsAreActive'
      BY <1>1, <2>1, <2>2, <2>4 DEF ShapesAreRight, OperationIsAlone, PollsAreActive
    <2>6. Awaiting'
      BY <2>1, <2>4 DEF Awaiting
    <2>7. ViewIsFresh'
      BY <2>6 DEF ViewIsFresh
    <2>8. AnswersAreFresh'
      BY <1>1, <1>2, <1>3, <2>1, <2>4, <2>6 DEF AnswersAreFresh, IsOvertaken
    <2>9. DOMAIN panes = Comparison!Sides
              /\ \A side \in Comparison!Sides : IsPaneAt(panes[side], panePath[side])
      BY DEF PanesAreRight
    <2>10. ASSUME NEW side \in Comparison!Sides
           PROVE  /\ IsPaneAt(panes'[side], panePath'[side])
                  /\ \/ panes'[side].fetches # {}
                     \/ ShowsEntries(panes'[side], disk', panePath'[side])
      <3>1. CASE side \in Comparison!Refreshes(op)
        <4>1. panes'[side] = Comparison!Fetched(panes[side], panePath[side])
          BY <2>1, <3>1
        <4>2. HasFields(panes[side]) /\ panes[side].generation \in Nat
          BY <2>9 DEF IsPaneAt
        <4> QED
          BY <1>1, <1>2, <4>1, <4>2, FetchIsAsked
      <3>2. CASE side \notin Comparison!Refreshes(op)
        <4>1. panes'[side] = panes[side]
          BY <2>1, <3>2
        <4>2. ShowsEntries(panes[side], disk, panePath[side])
          BY <1>2, <3>2 DEF RowsAreFresh
        <4> QED
          BY <1>1, <2>9, <4>1, <4>2
      <3> QED
        BY <3>1, <3>2
    <2>11. PanesAreRight'
      BY <2>1, <2>10 DEF PanesAreRight
    <2>12. RowsAreFresh'
      BY <2>10 DEF RowsAreFresh
    <2> QED
      BY <1>4, <2>5, <2>7, <2>8, <2>11, <2>12
  <1> QED
    BY <1>1, <1>5, <1>6

LEMMA PollKeeps ==
    ASSUME CInv, Comparison!Poll
    PROVE  CInv'
  <1> USE DEF CInv
  <1> DEFINE asked == Comparison!Request("poll", panePath, Comparison!Nothing)
  <1>1. /\ view.active /\ requests' = requests \cup { asked }
        /\ UNCHANGED << disk, rows, ignoredPaths, running, panePath, view, panes, listings,
                        operations >>
    BY DEF Comparison!Poll, Comparison!server
  <1>2. asked.kind = "poll" /\ ~asked.answered /\ IsAsked(asked, panePath)
    BY DEF Comparison!Request, IsAsked
  <1> HIDE DEF asked
  <1>3. Current' = Current
    BY <1>1, CurrentStays
  <1>4. Awaiting' <=> Awaiting
    BY <1>1, <1>2 DEF Awaiting
  <1>5. ShapesAreRight' /\ PollsAreActive'
    BY <1>1, <1>2 DEF ShapesAreRight, PollsAreActive
  <1>6. OperationIsAlone'
    BY <1>1, <1>2 DEF OperationIsAlone
  <1>7. ViewIsFresh'
    BY <1>1, <1>3, <1>4 DEF ViewIsFresh
  <1>8. AnswersAreFresh'
    BY <1>1, <1>2, <1>3, <1>4 DEF AnswersAreFresh, IsOvertaken
  <1> QED
    BY <1>1, <1>5, <1>6, <1>7, <1>8 DEF PanesAreRight, ListingsAreRight, RowsAreFresh

LEMMA ServerReadsKeeps ==
    ASSUME CInv, NEW request \in requests, Comparison!ServerReads(request)
    PROVE  CInv'
  <1> USE DEF CInv
  <1> DEFINE seen == Comparison!GetComparisonView(request.pair)
             new == [request EXCEPT !.answered = TRUE, !.view = seen]
  <1>1. /\ ~request.answered /\ requests' = (requests \ { request }) \cup { new }
        /\ UNCHANGED << disk, rows, ignoredPaths, running, panePath, view, panes, listings,
                        operations >>
    BY DEF Comparison!ServerReads, Comparison!server
  <1>2. IsAsked(request, panePath)
    BY DEF ShapesAreRight
  <1>3. seen = Current
    BY <1>2 DEF IsAsked, Current
  <1> HIDE DEF seen
  <1>4. new.kind = request.kind /\ new.answered /\ new.view = seen /\ IsAsked(new, panePath)
    BY <1>2 DEF IsAsked
  <1> HIDE DEF new
  <1>5. Current' = Current
    BY <1>1, CurrentStays
  <1>6. Awaiting' <=> Awaiting
    BY <1>1, <1>4 DEF Awaiting
  <1>7. ShapesAreRight' /\ PollsAreActive'
    BY <1>1, <1>4 DEF ShapesAreRight, PollsAreActive
  <1>8. OperationIsAlone'
    BY <1>1, <1>4 DEF OperationIsAlone
  <1>9. ViewIsFresh'
    BY <1>1, <1>5, <1>6 DEF ViewIsFresh
  <1>10. AnswersAreFresh'
    <2> SUFFICES ASSUME NEW r \in requests', r.answered
                 PROVE  r.view = Current \/ r.view.active \/ IsOvertaken(r)'
      BY <1>5 DEF AnswersAreFresh
    <2>1. CASE r = new
      BY <1>3, <1>4, <2>1
    <2>2. CASE r # new
      <3>1. r \in requests
        BY <1>1, <2>2
      <3>2. r.view = Current \/ r.view.active \/ IsOvertaken(r)
        BY <3>1 DEF AnswersAreFresh
      <3>3. ASSUME IsOvertaken(r) PROVE IsOvertaken(r)'
        <4>1. ~Current.active
          BY <3>3 DEF IsOvertaken, Current, Comparison!GetComparisonView
        <4> QED
          BY <1>1, <1>3, <1>4, <1>6, <3>3, <4>1 DEF IsOvertaken
      <3> QED
        BY <3>2, <3>3
    <2> QED
      BY <2>1, <2>2
  <1> QED
    BY <1>1, <1>7, <1>8, <1>9, <1>10 DEF PanesAreRight, ListingsAreRight, RowsAreFresh

LEMMA StatusArrivesKeeps ==
    ASSUME CInv, NEW request \in requests, Comparison!StatusArrives(request)
    PROVE  CInv'
  <1> USE DEF CInv
  <1>1. /\ request.answered /\ view' = request.view
        /\ requests' = { r \in requests \ { request } : r.kind = "poll" => view'.active }
        /\ operations' = operations \ { request.operation }
        /\ UNCHANGED << disk, rows, ignoredPaths, running, panePath, panes, listings >>
    BY DEF Comparison!StatusArrives, Comparison!Applied, Comparison!server
  <1>2. Current' = Current
    BY <1>1, CurrentStays
  <1>3. operations' \subseteq operations /\ requests' \subseteq requests
    BY <1>1
  <1>4. ASSUME NEW op \in operations, op.stage # "refetching" PROVE op \in operations'
    <2>1. op.kind # "nothing"
      BY DEF ShapesAreRight, IsOperation, EntryKinds
    <2>2. Comparison!Nothing.kind = "nothing"
      BY DEF Comparison!Nothing
    <2>3. request.operation # op
      BY <1>4, <2>1, <2>2 DEF ShapesAreRight, IsAsked
    <2> QED
      BY <1>1, <2>3
  <1>5. ASSUME Awaiting, request.kind = "poll" PROVE Awaiting'
    <2>1. CASE \E op \in operations : HasActed(op)
      <3>1. PICK op \in operations : HasActed(op)
        BY <2>1
      <3>2. op.stage # "refetching"
        BY <3>1 DEF HasActed
      <3> QED
        BY <1>4, <3>1, <3>2 DEF Awaiting
    <2>2. CASE \E r \in requests : r.kind # "poll"
      <3>1. PICK r \in requests : r.kind # "poll"
        BY <2>2
      <3> QED
        BY <1>1, <1>5, <3>1 DEF Awaiting
    <2> QED
      BY <1>5, <2>1, <2>2 DEF Awaiting
  <1>6. ShapesAreRight' /\ PollsAreActive'
    BY <1>1, <1>3 DEF ShapesAreRight, PollsAreActive
  <1>7. OperationIsAlone'
    BY <1>1, <1>3 DEF OperationIsAlone
  <1>8. ViewIsFresh'
    BY <1>1, <1>2, <1>5 DEF ViewIsFresh, AnswersAreFresh, IsOvertaken
  <1>9. AnswersAreFresh'
    <2> SUFFICES ASSUME NEW r \in requests', r.answered
                 PROVE  r.view = Current \/ r.view.active \/ IsOvertaken(r)'
      BY <1>2 DEF AnswersAreFresh
    <2>1. r \in requests /\ (r.kind = "poll" => request.view.active)
      BY <1>1
    <2>2. ASSUME IsOvertaken(r) PROVE IsOvertaken(r)'
      <3>1. request.view.active /\ r.kind = "poll"
        BY <2>1, <2>2 DEF IsOvertaken
      <3>2. request.kind = "poll"
        BY <1>1, <2>2, <3>1 DEF IsOvertaken
      <3> QED
        BY <1>1, <1>3, <1>5, <2>2, <3>2 DEF IsOvertaken
    <2> QED
      BY <2>1, <2>2 DEF AnswersAreFresh
  <1>10. PanesAreRight' /\ ListingsAreRight'
    BY <1>1 DEF PanesAreRight, ListingsAreRight
  <1>11. RowsAreFresh'
    <2> SUFFICES ASSUME NEW side \in Comparison!Sides, panes[side].fetches = {},
                        ~ShowsEntries(panes[side], disk, panePath[side])
                 PROVE  \E op \in operations' : op.stage \in { "copied", "done" }
                                                /\ side \in Comparison!Refreshes(op)
      BY <1>1 DEF RowsAreFresh
    <2>1. PICK op \in operations : op.stage \in { "copied", "done" }
              /\ side \in Comparison!Refreshes(op)
      BY DEF RowsAreFresh
    <2> QED
      BY <1>4, <2>1
  <1> QED
    BY <1>6, <1>7, <1>8, <1>9, <1>10, <1>11

LEMMA ServerListsKeeps ==
    ASSUME CInv, NEW side \in Comparison!Sides, NEW fetch \in panes[side].fetches,
           Comparison!ServerLists(side, fetch)
    PROVE  CInv'
  <1> USE DEF CInv
  <1> DEFINE new == [side |-> side, fetch |-> fetch, answer |-> ListedIn(disk, fetch)]
  <1>1. /\ listings' = listings \cup { new }
        /\ UNCHANGED << disk, rows, ignoredPaths, running, panePath, view, requests, panes,
                        operations >>
    BY DEF Comparison!ServerLists, Comparison!server, Comparison!ListingOf, ListedIn,
       Comparison!EntriesOf, EntriesIn
  <1>2. /\ new = [side |-> new.side, fetch |-> new.fetch, answer |-> ListedIn(disk, new.fetch)]
        /\ new.side \in Comparison!Sides /\ new.fetch \in panes[new.side].fetches
    OBVIOUS
  <1> HIDE DEF new
  <1>3. ListingsAreRight'
    BY <1>1, <1>2 DEF ListingsAreRight
  <1>4. Current' = Current
    BY <1>1, CurrentStays
  <1>5. ViewIsFresh' /\ AnswersAreFresh'
    BY <1>1, <1>4 DEF ViewIsFresh, AnswersAreFresh, IsOvertaken, Awaiting
  <1> QED
    BY <1>1, <1>3, <1>5 DEF ShapesAreRight, OperationIsAlone, PollsAreActive, PanesAreRight,
                            RowsAreFresh

LEMMA ListingArrivesKeeps ==
    ASSUME PairsAreListed, CInv, NEW listing \in listings, Comparison!ListingArrives(listing)
    PROVE  CInv'
  <1> USE DEF CInv
  <1> DEFINE s == listing.side
             answer == ListedIn(disk, listing.fetch)
             q == Comparison!Answered(panes[s], listing.fetch, answer,
                                      Comparison!NoneHidden, {})
  <1>1. /\ listing = [side |-> s, fetch |-> listing.fetch, answer |-> answer]
        /\ s \in Comparison!Sides /\ listing.fetch \in panes[s].fetches
    BY DEF ListingsAreRight
  <1>2. /\ listings' = listings \ { listing }
        /\ panes' = [panes EXCEPT ![listing.side] =
                        Comparison!Answered(@, listing.fetch, listing.answer,
                                            Comparison!NoneHidden, {})]
        /\ UNCHANGED << disk, rows, ignoredPaths, running, panePath, view, requests,
                        operations >>
    BY DEF Comparison!ListingArrives, Comparison!server
  <1>3. listing.answer = answer
    BY <1>1
  <1> HIDE DEF answer
  <1>4. panes' = [panes EXCEPT ![s] = q]
    BY <1>2, <1>3
  <1>5. /\ DOMAIN panes = Comparison!Sides /\ panePath[s] \in Seq(Folders) /\ IsTree(disk)
        /\ \A side \in Comparison!Sides : IsPaneAt(panes[side], panePath[side])
    BY <1>1 DEF PanesAreRight, ShapesAreRight, ArePaths
  <1>6. IsPaneAt(q, panePath[s]) /\ q.fetches = {} /\ ShowsEntries(q, disk, panePath[s])
    BY <1>1, <1>5, ListingShows DEF answer
  <1> HIDE DEF s, q
  <1>7. /\ DOMAIN panes' = Comparison!Sides
        /\ \A side \in Comparison!Sides : panes'[side] = IF side = s THEN q ELSE panes[side]
    BY <1>1, <1>4, <1>5
  <1>8. panes' = [side \in Comparison!Sides |-> panes'[side]]
    BY <1>4, <1>7
  <1>9. PanesAreRight'
    BY <1>2, <1>5, <1>6, <1>7, <1>8 DEF PanesAreRight
  <1>10. RowsAreFresh'
    BY <1>2, <1>6, <1>7 DEF RowsAreFresh
  <1>11. ListingsAreRight'
    <2> SUFFICES ASSUME NEW l \in listings, l # listing
                 PROVE  /\ l = [side |-> l.side, fetch |-> l.fetch,
                               answer |-> ListedIn(disk, l.fetch)]
                        /\ l.side \in Comparison!Sides /\ l.fetch \in panes'[l.side].fetches
      BY <1>2 DEF ListingsAreRight
    <2>1. /\ l = [side |-> l.side, fetch |-> l.fetch,
                               answer |-> ListedIn(disk, l.fetch)]
          /\ l.side \in Comparison!Sides /\ l.fetch \in panes[l.side].fetches
      BY DEF ListingsAreRight
    <2>2. l.side # s
      <3>1. ASSUME l.side = s PROVE FALSE
        <4>1. l.fetch = listing.fetch
          BY <1>1, <1>5, <2>1, <3>1 DEF IsPaneAt
        <4> QED
          BY <1>1, <2>1, <3>1, <4>1 DEF answer
      <3> QED
        BY <3>1
    <2> QED
      BY <1>7, <2>1, <2>2
  <1>12. OperationIsAlone'
    BY <1>1, <1>2, <1>6, <1>7 DEF OperationIsAlone
  <1>13. Current' = Current
    BY <1>2, CurrentStays
  <1>14. ViewIsFresh' /\ AnswersAreFresh'
    BY <1>2, <1>13 DEF ViewIsFresh, AnswersAreFresh, IsOvertaken, Awaiting
  <1>15. ShapesAreRight' /\ PollsAreActive'
    BY <1>2 DEF ShapesAreRight, PollsAreActive
  <1> QED
    BY <1>9, <1>10, <1>11, <1>12, <1>14, <1>15

-----------------------------------------------------------------------------
(* The page at rest *)

LEMMA PairInit ==
    ASSUME PairsAreListed, Comparison!Init
    PROVE  CInv
  <1> DEFINE asked == Comparison!Request("effect", panePath, Comparison!Nothing)
  <1>1. /\ disk \in Trees /\ panePath \in Starts /\ view = Comparison!NoView
        /\ requests = { asked }
        /\ panes = [side \in Comparison!Sides |-> Comparison!Mounted(panePath[side])]
        /\ listings = {}
        /\ operations = {}
    BY DEF Comparison!Init
  <1>2. asked.kind = "effect" /\ ~asked.answered /\ IsAsked(asked, panePath)
    BY DEF Comparison!Request, IsAsked
  <1> HIDE DEF asked
  <1>3. ShapesAreRight
    BY <1>1, <1>2 DEF ShapesAreRight, PairsAreListed, ArePaths
  <1>4. OperationIsAlone /\ PollsAreActive
    BY <1>1, <1>2 DEF OperationIsAlone, PollsAreActive
  <1>5. ViewIsFresh /\ AnswersAreFresh
    BY <1>1, <1>2 DEF ViewIsFresh, AnswersAreFresh, Awaiting
  <1>6. \A side \in Comparison!Sides : IsPaneAt(panes[side], panePath[side])
            /\ panes[side].fetches # {}
    BY <1>1, MountIsAsked
  <1>7. PanesAreRight /\ RowsAreFresh
    BY <1>1, <1>6 DEF PanesAreRight, RowsAreFresh
  <1>8. ListingsAreRight
    BY <1>1 DEF ListingsAreRight
  <1> QED
    BY <1>3, <1>4, <1>5, <1>7, <1>8 DEF CInv

LEMMA PairStep ==
    ASSUME PairsAreListed, CInv, Comparison!Next
    PROVE  CInv'
  <1>1. ASSUME Comparison!ServerWorks PROVE CInv'
    BY <1>1, ServerChecksKeeps, ServerActsKeeps, ServerRemovesKeeps, ServerMarksKeeps,
       ServerRunsKeeps, PageHearsKeeps DEF Comparison!ServerWorks
  <1>2. ASSUME Comparison!StatusComes \/ Comparison!RowsCome PROVE CInv'
    BY <1>2, ServerReadsKeeps, StatusArrivesKeeps, ServerListsKeeps, ListingArrivesKeeps
       DEF Comparison!StatusComes, Comparison!RowsCome
  <1>3. ASSUME Comparison!ComparisonEnds \/ Comparison!Poll PROVE CInv'
    BY <1>3, ComparisonEndsKeeps, PollKeeps
  <1>4. ASSUME NEW side \in Comparison!Sides,
               \/ Comparison!ToggleOwnIgnore(side) \/ Comparison!NavigateUp(side)
               \/ \E target \in Comparison!Lineage(panePath[side]) :
                  Comparison!NavigateToPath(side, target)
        PROVE  CInv'
    BY <1>4, NavigationKeeps, OtherOperationKeeps
  <1>5. ASSUME NEW side \in Comparison!Sides, NEW name \in EntryNames,
               \/ Comparison!NavigateInto(side, name) \/ Comparison!CopyToOtherSide(side, name)
               \/ Comparison!DeleteFromThisSide(side, name)
                  \/ Comparison!ToggleIgnore(side, name)
               \/ \E dragged \in EntryNames : Comparison!RenameViaDrop(side, name, dragged)
               \/ \E target \in Comparison!Segments :
                  Comparison!MoveViaBreadcrumbDrop(side, name, target)
        PROVE  CInv'
    BY <1>5, NavigationKeeps, EntryOperationKeeps, OtherOperationKeeps
  <1>6. ASSUME Comparison!SwitchMoveSync \/ Comparison!Reload \/ Comparison!Compare
            \/ Comparison!Stop PROVE CInv'
    BY <1>6, SwitchKeeps, ReloadKeeps, OtherOperationKeeps
  <1> QED
    BY <1>1, <1>2, <1>3, <1>4, <1>5, <1>6 DEF Comparison!Next

LEMMA PairStays ==
    ASSUME CInv, UNCHANGED Comparison!vars
    PROVE  CInv'
  <1>1. UNCHANGED << disk, trash, rows, ignoredPaths, running, panePath, view, requests, panes,
                     listings, operations >>
    BY DEF Comparison!vars, Comparison!server, Comparison!shown
  <1>2. Current' = Current
    BY <1>1, CurrentStays
  <1> QED
    BY <1>1, <1>2 DEF CInv, ShapesAreRight, OperationIsAlone, PollsAreActive, ViewIsFresh,
                      AnswersAreFresh, IsOvertaken, Awaiting, PanesAreRight, ListingsAreRight,
                      RowsAreFresh

LEMMA ShownIsRight ==
    ASSUME CInv
    PROVE  Comparison!ShownIsCurrent
  <1> SUFFICES ASSUME Comparison!IsIdle
               PROVE  /\ view = Comparison!GetComparisonView(panePath)
                      /\ \A side \in Comparison!Sides :
                            IF panes[side].notFound THEN panePath[side] \notin DOMAIN disk
                            ELSE Comparison!Rows(side) = Comparison!EntriesOf(panePath[side])
    BY DEF Comparison!ShownIsCurrent
  <1>1. /\ view = Current \/ view.active
        /\ \A side \in Comparison!Sides : ShowsEntries(panes[side], disk, panePath[side])
    BY PageIsAtRest DEF Comparison!IsIdle
  <1>2. view = Comparison!GetComparisonView(panePath)
    BY <1>1 DEF Comparison!IsIdle, Current
  <1>3. \A side \in Comparison!Sides :
            EntriesIn(disk, panePath[side]) = Comparison!EntriesOf(panePath[side])
    BY DEF EntriesIn, Comparison!EntriesOf
  <1> QED
    BY <1>1, <1>2, <1>3 DEF ShowsEntries, Comparison!Rows

-----------------------------------------------------------------------------
(* Nothing is lost: here it does not matter where the panes are, nor what they *)
(* show. (t: the trash.)                                                       *)

IsClosed(d) == \A p \in DOMAIN d : Comparison!Lineage(p) \subseteq DOMAIN d

\* What the page is instantiated with: trees in which what is named as a folder is one
\* and what is above a path is there too, panes that begin at paths of folders, and a user
\* who waits for answers.
PathsAreListed ==
    /\ Folders \subseteq EntryNames
    /\ \A d \in Trees : IsTree(d) /\ IsClosed(d)
    /\ Starts \subseteq [Comparison!Sides -> Seq(Folders)]
    /\ Patient = TRUE

IsAimed(op) ==
    /\ DOMAIN op = OperationFields
    /\ op.stage = "checked" => op.kind \in EntryKinds
    /\ op.stage = "copied" => op.kind \in { "delete", "move" }
    /\ op.kind \in EntryKinds =>
        /\ op.source \in Seq(EntryNames)
        /\ op.kind # "delete" =>
            /\ op.destination \in Seq(EntryNames)
            /\ op.destination \in Seq(Folders) => op.source \in Seq(Folders)

\* Where an operation that was checked goes, nothing is; what one is about to remove is
\* in the trash, or elsewhere on the disk.
IsSafe(op, d, t) ==
    /\ op.stage = "checked" /\ op.kind # "delete" => op.destination \notin DOMAIN d
    /\ op.stage = "copied" => \A p \in DOMAIN d : op.source \in Comparison!Lineage(p) =>
            \/ \E entry \in UNION t : entry[2] = d[p]
            \/ \E q \in DOMAIN d : op.source \notin Comparison!Lineage(q) /\ d[q] = d[p]

KInv ==
    /\ IsTree(disk) /\ IsClosed(disk) /\ ArePaths(panePath)
    /\ \A op, other \in operations : op = other
    /\ \A op \in operations : IsAimed(op) /\ IsSafe(op, disk, trash)

KeepsAll == KInv' /\ Comparison!KeepsContents

LEMMA AboveTheAbove ==
    ASSUME NEW S, NEW p \in Seq(S), NEW q \in Comparison!Lineage(p),
           NEW r \in Comparison!Lineage(q)
    PROVE  r \in Comparison!Lineage(p)
  <1>1. q \in Seq(S) /\ Len(q) \in 0..Len(p) /\ \A i \in 1..Len(q) : q[i] = p[i]
    BY AboveIsBeginning
  <1>2. r \in Seq(S) /\ Len(r) \in 0..Len(q) /\ \A i \in 1..Len(r) : r[i] = q[i]
    BY <1>1, AboveIsBeginning
  <1>3. Len(r) <= Len(p) /\ \A i \in 1..Len(r) : r[i] = p[i]
    BY <1>1, <1>2
  <1> QED
    BY <1>2, <1>3, BeginningIsAbove

LEMMA OneIsAbove ==
    ASSUME NEW S, NEW p \in Seq(S), NEW q \in Comparison!Lineage(p),
           NEW r \in Comparison!Lineage(p)
    PROVE  q \in Comparison!Lineage(r) \/ r \in Comparison!Lineage(q)
  <1>1. q \in Seq(S) /\ Len(q) \in 0..Len(p) /\ \A i \in 1..Len(q) : q[i] = p[i]
    BY AboveIsBeginning
  <1>2. r \in Seq(S) /\ Len(r) \in 0..Len(p) /\ \A i \in 1..Len(r) : r[i] = p[i]
    BY AboveIsBeginning
  <1>3. CASE Len(q) <= Len(r)
    <2>1. \A i \in 1..Len(q) : q[i] = r[i]
      BY <1>1, <1>2, <1>3
    <2> QED
      BY <1>1, <1>2, <1>3, <2>1, BeginningIsAbove
  <1>4. CASE ~(Len(q) <= Len(r))
    <2>1. Len(r) <= Len(q)
      BY <1>1, <1>2, <1>4
    <2>2. \A i \in 1..Len(r) : r[i] = q[i]
      BY <1>1, <1>2, <2>1
    <2> QED
      BY <1>1, <1>2, <2>1, <2>2, BeginningIsAbove
  <1> QED
    BY <1>3, <1>4

\* What is above c \o r is above c, or c joined with what is above r.
LEMMA AboveJoined ==
    ASSUME NEW S, NEW c \in Seq(S), NEW r \in Seq(S), NEW q \in Comparison!Lineage(c \o r),
           q \notin Comparison!Lineage(c)
    PROVE  LET s == Comparison!Rest(q, c)
           IN  s \in Seq(S) /\ q = c \o s
               /\ \A a \in Seq(S) : a \o s \in Comparison!Lineage(a \o r)
  <1> DEFINE p == c \o r
  <1>1. p \in Seq(S) /\ c \in Comparison!Lineage(p)
    BY JoinedIsBelow
  <1>2. Comparison!Rest(p, c) = r
    BY RestOfJoined
  <1> HIDE DEF p
  <1>3. q \in Seq(S) /\ Len(q) \in 0..Len(p) /\ \A i \in 1..Len(q) : q[i] = p[i]
    BY <1>1, AboveIsBeginning DEF p
  <1>4. c \in Comparison!Lineage(q)
    BY <1>1, OneIsAbove DEF p
  <1> DEFINE s == Comparison!Rest(q, c)
  <1>5. s \in Seq(S) /\ q = c \o s
    BY <1>3, <1>4, RestJoins
  <1> HIDE DEF s
  <1>6. /\ Len(c) \in Nat /\ Len(s) \in Nat /\ Len(r) \in Nat
        /\ Len(q) = Len(c) + Len(s) /\ Len(p) = Len(c) + Len(r)
    BY <1>5 DEF p
  <1>7. Len(s) <= Len(r)
    BY <1>3, <1>6
  <1>8. \A i \in 1..Len(s) : s[i] = r[i]
    <2> SUFFICES ASSUME NEW i \in 1..Len(s) PROVE s[i] = r[i]
      OBVIOUS
    <2>1. i \in 1..Len(r) /\ Len(c) + i \in 1..Len(q)
      BY <1>6, <1>7
    <2>2. q[Len(c) + i] = s[i] /\ p[Len(c) + i] = r[i]
      BY <1>5, <1>6, <2>1 DEF p
    <2> QED
      BY <1>3, <2>1, <2>2
  <1>9. ASSUME NEW a \in Seq(S) PROVE a \o s \in Comparison!Lineage(a \o r)
    <2> DEFINE u == a \o s
               v == a \o r
    <2>1. /\ u \in Seq(S) /\ Len(u) = Len(a) + Len(s) /\ Len(a) \in Nat
          /\ \A i \in 1..Len(u) : u[i] = IF i <= Len(a) THEN a[i] ELSE s[i - Len(a)]
      BY <1>5, <1>6, ConcatProperties
    <2>2. /\ v \in Seq(S) /\ Len(v) = Len(a) + Len(r)
          /\ \A i \in 1..Len(v) : v[i] = IF i <= Len(a) THEN a[i] ELSE r[i - Len(a)]
      BY <1>6, ConcatProperties
    <2> HIDE DEF u, v
    <2>3. Len(u) <= Len(v)
      BY <1>6, <1>7, <2>1, <2>2
    <2>4. \A i \in 1..Len(u) : u[i] = v[i]
      <3> SUFFICES ASSUME NEW i \in 1..Len(u) PROVE u[i] = v[i]
        OBVIOUS
      <3>1. i \in 1..Len(v)
        BY <2>1, <2>2, <2>3, <1>6
      <3>2. CASE i <= Len(a)
        BY <2>1, <2>2, <3>1, <3>2
      <3>3. CASE ~(i <= Len(a))
        <4>1. i - Len(a) \in 1..Len(s)
          BY <1>6, <2>1, <3>3
        <4> QED
          BY <1>8, <2>1, <2>2, <3>1, <3>3, <4>1
      <3> QED
        BY <3>2, <3>3
    <2>5. u \in Comparison!Lineage(v)
      BY <2>1, <2>2, <2>3, <2>4, BeginningIsAbove
    <2> QED
      BY <2>5 DEF u, v
  <1> QED
    BY <1>5, <1>9 DEF s

LEMMA DiskStays ==
    ASSUME KInv, UNCHANGED << disk, trash >>, ArePaths(panePath'),
           \A op, other \in operations' : op = other,
           \A op \in operations' :
                IsAimed(op) /\ (op \in operations \/ op.stage \notin { "checked", "copied" })
    PROVE  KeepsAll
  BY DEF KInv, IsSafe, KeepsAll, Comparison!KeepsContents, Comparison!Contents

LEMMA OnlyOperation ==
    ASSUME KInv, NEW op \in operations
    PROVE  /\ IsAimed(op) /\ IsSafe(op, disk, trash)
           /\ \A new : (operations \ { op }) \cup { new } = { new }
  BY DEF KInv

LEMMA StagedIsAimed ==
    ASSUME NEW op, IsAimed(op), NEW stage,
           stage = "checked" => op.kind \in EntryKinds,
           stage = "copied" => op.kind \in { "delete", "move" }
    PROVE  LET new == [op EXCEPT !.stage = stage]
           IN  /\ IsAimed(new) /\ new.kind = op.kind /\ new.stage = stage
               /\ new.source = op.source /\ new.destination = op.destination
  <1> DEFINE new == [op EXCEPT !.stage = stage]
  <1>1. /\ DOMAIN new = OperationFields /\ new.kind = op.kind /\ new.stage = stage
        /\ new.source = op.source /\ new.destination = op.destination
    BY DEF IsAimed, OperationFields
  <1> HIDE DEF new
  <1>2. IsAimed(new)
    BY <1>1 DEF IsAimed
  <1> QED
    BY <1>1, <1>2 DEF new

\* A copy to where nothing is, into directories that are there or can be made.
LEMMA CopiedIsThere ==
    ASSUME IsTree(disk), IsClosed(disk),
           NEW source \in DOMAIN disk, NEW destination \in Seq(EntryNames),
           destination \notin DOMAIN disk, source \notin Comparison!Lineage(destination),
           \A q \in Comparison!Lineage(destination) \ { destination } :
                q \in DOMAIN disk => disk[q] = Comparison!Folder
    PROVE  LET there == Comparison!Copied(source, destination)
           IN  /\ IsClosed(there)
               /\ \A p \in DOMAIN disk : p \in DOMAIN there /\ there[p] = disk[p]
               /\ \A p \in Comparison!Subtree(source) : \E q \in DOMAIN there :
                    source \notin Comparison!Lineage(q) /\ there[q] = disk[p]
               /\ \A p \in DOMAIN there : source \in Comparison!Lineage(p) => p \in DOMAIN disk
  <1> DEFINE arrived == { destination \o Comparison!Rest(p, source) :
                            p \in Comparison!Subtree(source) }
             above == Comparison!Lineage(destination) \ { destination }
             there == Comparison!Copied(source, destination)
  <1>1. /\ DOMAIN there = arrived \cup above \cup DOMAIN disk
        /\ \A p \in DOMAIN there :
             there[p] = IF p \in arrived THEN disk[source \o Comparison!Rest(p, destination)]
                        ELSE IF p \in above THEN Comparison!Folder ELSE disk[p]
    BY DEF Comparison!Copied
  <1>2. DOMAIN disk \subseteq Seq(EntryNames) /\ source \in Seq(EntryNames)
    BY DEF IsTree
  <1>3. destination \notin Comparison!Lineage(source)
    BY DEF IsClosed
  \* What has arrived is below the destination, and so not below the source.
  <1>4. ASSUME NEW p \in Comparison!Subtree(source)
        PROVE  LET r == Comparison!Rest(p, source)
                   q == destination \o r
               IN  /\ r \in Seq(EntryNames) /\ p = source \o r /\ p \in DOMAIN disk
                   /\ q \in arrived /\ q \in Seq(EntryNames)
                   /\ destination \in Comparison!Lineage(q)
                   /\ source \notin Comparison!Lineage(q) /\ Comparison!Rest(q, destination) = r
    <2> DEFINE r == Comparison!Rest(p, source)
               q == destination \o r
    <2>1. p \in DOMAIN disk /\ p \in Seq(EntryNames) /\ source \in Comparison!Lineage(p)
      BY <1>2 DEF Comparison!Subtree, Comparison!IsWithinSubtree
    <2>2. r \in Seq(EntryNames) /\ p = source \o r
      BY <2>1, RestJoins
    <2>3. q \in arrived
      OBVIOUS
    <2> HIDE DEF r
    <2>4. q \in Seq(EntryNames) /\ destination \in Comparison!Lineage(q)
              /\ Comparison!Rest(q, destination) = r
      BY <2>2, JoinedIsBelow, RestOfJoined
    <2> HIDE DEF q
    <2>5. source \notin Comparison!Lineage(q)
      BY <1>3, <2>4, OneIsAbove
    <2> QED
      BY <2>1, <2>2, <2>3, <2>4, <2>5 DEF q, r
  <1>5. ASSUME NEW p \in arrived
        PROVE  /\ p \in Seq(EntryNames) /\ destination \in Comparison!Lineage(p)
               /\ source \notin Comparison!Lineage(p) /\ p \notin DOMAIN disk
    <2>1. PICK q \in Comparison!Subtree(source) : p = destination \o Comparison!Rest(q, source)
      OBVIOUS
    <2>2. /\ p \in Seq(EntryNames) /\ destination \in Comparison!Lineage(p)
          /\ source \notin Comparison!Lineage(p)
      BY <1>4, <2>1
    <2> QED
      BY <2>2 DEF IsClosed
  <1>6. ASSUME NEW p \in above
        PROVE  /\ p \in Seq(EntryNames) /\ Comparison!Lineage(p) \subseteq above
               /\ source \notin Comparison!Lineage(p)
    <2>1. /\ p \in Seq(EntryNames) /\ Len(p) \in 0..Len(destination) /\ p # destination
          /\ \A i \in 1..Len(p) : p[i] = destination[i]
      BY AboveIsBeginning
    <2>2. Len(p) # Len(destination)
      BY <2>1, SeqEqual
    <2>3. ASSUME NEW q \in Comparison!Lineage(p) PROVE q \in above
      <3>1. q \in Comparison!Lineage(destination)
        BY <2>1, AboveTheAbove
      <3>2. q \in Seq(EntryNames) /\ Len(q) \in 0..Len(p)
        BY <2>1, AboveIsBeginning
      <3>3. q # destination
        BY <2>1, <2>2, <3>2
      <3> QED
        BY <3>1, <3>3
    <2> QED
      BY <2>1, <2>3
  <1>7. ASSUME NEW p \in DOMAIN disk PROVE p \in DOMAIN there /\ there[p] = disk[p]
    <2>1. p \notin arrived
      BY <1>5
    <2> HIDE DEF there, arrived
    <2> QED
      BY <1>1, <2>1
  <1>8. ASSUME NEW p \in Comparison!Subtree(source)
        PROVE  \E q \in DOMAIN there : source \notin Comparison!Lineage(q) /\ there[q] = disk[p]
    <2> DEFINE r == Comparison!Rest(p, source)
               q == destination \o r
    <2>1. /\ p = source \o r /\ q \in arrived /\ source \notin Comparison!Lineage(q)
          /\ Comparison!Rest(q, destination) = r
      BY <1>4
    <2> HIDE DEF there, arrived, r, q
    <2>2. q \in DOMAIN there /\ there[q] = disk[source \o r]
      BY <1>1, <2>1
    <2> QED
      BY <2>1, <2>2
  <1>9. ASSUME NEW p \in DOMAIN there, source \in Comparison!Lineage(p) PROVE p \in DOMAIN disk
    <2> HIDE DEF there
    <2> QED
      BY <1>1, <1>5, <1>6, <1>9
  <1>10. ASSUME NEW p \in DOMAIN there, NEW q \in Comparison!Lineage(p) PROVE q \in DOMAIN there
    <2>1. CASE p \in arrived
      <3>1. PICK b \in Comparison!Subtree(source) :
                p = destination \o Comparison!Rest(b, source)
        BY <2>1
      <3> DEFINE r == Comparison!Rest(b, source)
      <3>2. r \in Seq(EntryNames) /\ b = source \o r /\ b \in DOMAIN disk
                /\ p = destination \o r
        BY <1>4, <3>1
      <3> HIDE DEF r
      <3>3. CASE q \in Comparison!Lineage(destination)
        <4>1. CASE q = destination
          <5>1. source \in Comparison!Subtree(source)
            BY <1>2, IsAboveItself DEF Comparison!Subtree, Comparison!IsWithinSubtree
          <5>2. destination \o Comparison!Rest(source, source) \in arrived
            BY <5>1
          <5>3. Comparison!Rest(source, source) = << >>
            BY <1>2 DEF Comparison!Rest
          <5>4. destination \o << >> = destination
            OBVIOUS
          <5> HIDE DEF there, arrived
          <5> QED
            BY <1>1, <4>1, <5>2, <5>3, <5>4
        <4>2. CASE q # destination
          <5> HIDE DEF there, arrived
          <5> QED
            BY <1>1, <3>3, <4>2
        <4> QED
          BY <4>1, <4>2
      <3>4. CASE q \notin Comparison!Lineage(destination)
        <4> DEFINE s == Comparison!Rest(q, destination)
        <4>1. /\ s \in Seq(EntryNames) /\ q = destination \o s
              /\ \A a \in Seq(EntryNames) : a \o s \in Comparison!Lineage(a \o r)
          BY <3>2, <3>4, AboveJoined
        <4> HIDE DEF s
        <4>2. source \o s \in Comparison!Lineage(b)
          BY <1>2, <3>2, <4>1
        <4>3. source \o s \in Comparison!Subtree(source)
          BY <1>2, <3>2, <4>1, <4>2, JoinedIsBelow DEF IsClosed, Comparison!Subtree,
             Comparison!IsWithinSubtree
        <4>4. Comparison!Rest(source \o s, source) = s
          BY <1>2, <4>1, RestOfJoined
        <4>5. q \in arrived
          BY <4>1, <4>3, <4>4
        <4> HIDE DEF there, arrived
        <4> QED
          BY <1>1, <4>5
      <3> QED
        BY <3>3, <3>4
    <2>2. CASE p \in above
      <3>1. q \in above
        BY <1>6, <2>2
      <3> HIDE DEF there, above
      <3> QED
        BY <1>1, <3>1
    <2>3. CASE p \in DOMAIN disk
      <3>1. q \in DOMAIN disk
        BY <2>3 DEF IsClosed
      <3> QED
        BY <1>7, <3>1
    <2> HIDE DEF there, arrived, above
    <2> QED
      BY <1>1, <2>1, <2>2, <2>3
  <1> HIDE DEF there
  <1> QED
    BY <1>7, <1>8, <1>9, <1>10 DEF IsClosed, there

LEMMA OtherStepsAreSafe ==
    ASSUME KInv, NEW op \in operations,
           \/ Comparison!ServerMarks(op) \/ Comparison!ServerCompares(op)
           \/ Comparison!ServerStops(op) \/ Comparison!PageHears(op)
    PROVE  KeepsAll
  <1> DEFINE marked == [op EXCEPT !.targets = Tail(@)]
             done == [op EXCEPT !.stage = "done"]
             heard == [op EXCEPT !.stage = "refetching"]
  <1>1. UNCHANGED << disk, trash, panePath >>
    BY DEF Comparison!ServerMarks, Comparison!ServerCompares, Comparison!ServerStops,
           Comparison!PageHears, Comparison!server, Comparison!shown
  <1>2. /\ IsAimed(op)
        /\ \A new : (operations \ { op }) \cup { new } = { new }
    BY OnlyOperation
  <1>3. /\ IsAimed(done) /\ done.stage \notin { "checked", "copied" }
        /\ IsAimed(heard) /\ heard.stage \notin { "checked", "copied" }
    BY <1>2, StagedIsAimed
  <1>4. CASE Comparison!ServerMarks(op)
    <2>1. op.kind = "ignore" /\ op.stage = "sent"
      BY <1>4 DEF Comparison!ServerMarks
    <2>2. DOMAIN marked = OperationFields /\ marked.kind = "ignore" /\ marked.stage = "sent"
      BY <1>2, <2>1, AimedOperation DEF IsAimed
    <2>3. operations' = { done } \/ operations' = { marked }
      BY <1>2, <1>4 DEF Comparison!ServerMarks, Comparison!To
    <2> HIDE DEF marked, done
    <2>4. IsAimed(marked)
      BY <2>2 DEF IsAimed, EntryKinds
    <2> QED
      BY <1>1, <1>3, <2>2, <2>3, <2>4, DiskStays DEF KInv
  <1>5. CASE Comparison!ServerCompares(op) \/ Comparison!ServerStops(op)
    <2>1. operations' = { done }
      BY <1>2, <1>5 DEF Comparison!ServerCompares, Comparison!ServerStops, Comparison!To
    <2> HIDE DEF done
    <2> QED
      BY <1>1, <1>3, <2>1, DiskStays DEF KInv
  <1>6. CASE Comparison!PageHears(op)
    <2>1. operations' = operations \ { op } \/ operations' = { heard }
      BY <1>2, <1>6 DEF Comparison!PageHears, Comparison!To
    <2> HIDE DEF heard
    <2>2. operations' \subseteq operations \/ operations' = { heard }
      BY <2>1
    <2> QED
      BY <1>1, <1>3, <2>2, DiskStays DEF KInv
  <1> QED
    BY <1>4, <1>5, <1>6

LEMMA ServerChecksSafe ==
    ASSUME KInv, NEW op \in operations, Comparison!ServerChecks(op)
    PROVE  KeepsAll
  <1> DEFINE stage == IF Comparison!IsRefused(op) THEN "failed" ELSE "checked"
             new == [op EXCEPT !.stage = stage]
  <1>1. /\ op.kind \in EntryKinds /\ UNCHANGED << disk, trash, panePath >>
        /\ operations' = (operations \ { op }) \cup { new }
    BY DEF Comparison!ServerChecks, Comparison!To, EntryKinds, Comparison!server,
           Comparison!shown
  <1>2. stage \in { "failed", "checked" }
    OBVIOUS
  <1>3. stage = "checked" => op.kind = "delete" \/ op.destination \notin DOMAIN disk
    BY DEF Comparison!IsRefused
  <1> HIDE DEF stage
  <1>4. /\ IsAimed(new) /\ new.kind = op.kind /\ new.stage = stage
        /\ new.destination = op.destination
    BY <1>1, <1>2, OnlyOperation, StagedIsAimed
  <1>5. operations' = { new }
    BY <1>1, OnlyOperation
  <1> HIDE DEF new
  <1>6. IsSafe(new, disk, trash)
    BY <1>2, <1>3, <1>4 DEF IsSafe
  <1> QED
    BY <1>1, <1>4, <1>5, <1>6 DEF KInv, KeepsAll, Comparison!KeepsContents

\* What is removed is in the trash, or elsewhere.
LEMMA RemovedIsKept ==
    ASSUME NEW d, NEW t, NEW out, NEW after,
           after = [p \in DOMAIN d \ out |-> d[p]],
           \A p \in DOMAIN d \cap out : \/ \E entry \in UNION t : entry[2] = d[p]
                                        \/ \E q \in DOMAIN d \ out : d[q] = d[p]
    PROVE  Comparison!Contents(d, t) \subseteq Comparison!Contents(after, t)
  <1>1. DOMAIN after = DOMAIN d \ out /\ \A p \in DOMAIN after : after[p] = d[p]
    OBVIOUS
  <1> SUFFICES ASSUME NEW p \in DOMAIN d PROVE d[p] \in Comparison!Contents(after, t)
    BY DEF Comparison!Contents
  <1>2. CASE p \notin out
    BY <1>1, <1>2 DEF Comparison!Contents
  <1>3. CASE p \in out
    <2>1. CASE \E entry \in UNION t : entry[2] = d[p]
      BY <2>1 DEF Comparison!Contents
    <2>2. CASE \E q \in DOMAIN d \ out : d[q] = d[p]
      BY <1>1, <2>2 DEF Comparison!Contents
    <2> QED
      BY <1>3, <2>1, <2>2
  <1> QED
    BY <1>2, <1>3

\* Nor is anything left below a directory that is no longer there.
LEMMA RemovedIsClosed ==
    ASSUME NEW d, IsTree(d), IsClosed(d), NEW source, NEW out,
           \A p \in out : source \in Comparison!Lineage(p),
           \A p \in DOMAIN d : source \in Comparison!Lineage(p) => p \in out
    PROVE  IsTree([p \in DOMAIN d \ out |-> d[p]]) /\ IsClosed([p \in DOMAIN d \ out |-> d[p]])
  <1> SUFFICES ASSUME NEW p \in DOMAIN d \ out, NEW q \in Comparison!Lineage(p)
               PROVE  q \in DOMAIN d \ out
    BY DEF IsClosed, IsTree
  <1>1. q \in DOMAIN d /\ p \in Seq(EntryNames)
    BY DEF IsClosed, IsTree
  <1>2. q \notin out
    BY <1>1, AboveTheAbove
  <1> QED
    BY <1>1, <1>2

LEMMA ServerRemovesSafe ==
    ASSUME PathsAreListed, KInv, NEW op \in operations, Comparison!ServerRemoves(op)
    PROVE  KeepsAll
  <1> DEFINE new == [op EXCEPT !.stage = "done"]
  <1>1. /\ op.stage = "copied" /\ trash' = trash /\ panePath' = panePath
        /\ disk' = [p \in DOMAIN disk \ Comparison!Subtree(op.source) |-> disk[p]]
        /\ operations' = (operations \ { op }) \cup { new }
    BY DEF Comparison!ServerRemoves, Comparison!Removed, Comparison!To, Comparison!shown
  <1>2. IsAimed(new) /\ new.stage = "done"
    BY OnlyOperation, StagedIsAimed
  <1> HIDE DEF new
  <1>3. operations' = { new }
    BY <1>1, OnlyOperation
  <1>4. IsTree(disk) /\ IsClosed(disk) /\ IsSafe(op, disk, trash) /\ ArePaths(panePath)
    BY DEF KInv
  <1>5. Comparison!Subtree(op.source) = { p \in DOMAIN disk :
            op.source \in Comparison!Lineage(p) }
    BY DEF Comparison!Subtree, Comparison!IsWithinSubtree
  <1>6. IsTree(disk') /\ IsClosed(disk')
    BY <1>1, <1>4, <1>5, RemovedIsClosed
  <1>7. \A p \in Comparison!Subtree(op.source) :
            \/ \E entry \in UNION trash : entry[2] = disk[p]
            \/ \E q \in DOMAIN disk \ Comparison!Subtree(op.source) : disk[q] = disk[p]
    BY <1>1, <1>4, <1>5 DEF IsSafe
  <1>8. Comparison!Contents(disk, trash) \subseteq Comparison!Contents(disk', trash')
    BY <1>1, <1>7, RemovedIsKept
  <1>9. IsSafe(new, disk', trash')
    BY <1>2 DEF IsSafe
  <1> QED
    BY <1>1, <1>2, <1>3, <1>4, <1>6, <1>8, <1>9 DEF KeepsAll, KInv, Comparison!KeepsContents

LEMMA ServerActsSafe ==
    ASSUME PathsAreListed, KInv, NEW op \in operations, NEW outcome,
           Comparison!ServerActs(op, outcome)
    PROVE  KeepsAll
  <1>1. op.stage = "checked"
    BY DEF Comparison!ServerActs
  <1>2. /\ IsTree(disk) /\ IsClosed(disk) /\ IsSafe(op, disk, trash) /\ IsAimed(op)
        /\ ArePaths(panePath) /\ UNCHANGED panePath
    BY DEF KInv, Comparison!ServerActs, Comparison!shown
  <1>3. op.kind \in EntryKinds
    BY <1>1, <1>2 DEF IsAimed
  <1>4. CASE outcome = "unreadable" \/ Comparison!MustFail(op)
    <2> DEFINE new == [op EXCEPT !.stage = "failed"]
    <2>1. /\ operations' = (operations \ { op }) \cup { new }
          /\ UNCHANGED << disk, trash >>
      BY <1>4 DEF Comparison!ServerActs, Comparison!To
    <2>2. IsAimed(new) /\ new.stage = "failed"
      BY <1>2, StagedIsAimed
    <2> HIDE DEF new
    <2>3. operations' = { new }
      BY <2>1, OnlyOperation
    <2> QED
      BY <1>2, <2>1, <2>2, <2>3, DiskStays
  <1>5. CASE ~(outcome = "unreadable" \/ Comparison!MustFail(op))
    <2> DEFINE stage == IF CrossDevice /\ op.kind \in { "move", "delete" } THEN "copied"
        ELSE "done"
               new == [op EXCEPT !.stage = stage]
               there == IF op.kind = "delete" THEN disk
                   ELSE Comparison!Copied(op.source, op.destination)
               stays == op.kind = "copy" \/ (CrossDevice /\ op.kind # "rename")
               out == Comparison!Subtree(op.source)
               binned == IF op.kind = "delete"
                   THEN trash \cup { Comparison!Snapshot(op.source) } ELSE trash
    <2>1. operations' = (operations \ { op }) \cup { new } /\ trash' = binned
      BY <1>5 DEF Comparison!ServerActs, Comparison!To
    <2>2. disk' = IF stays THEN there ELSE [p \in DOMAIN there \ out |-> there[p]]
      BY <1>5 DEF Comparison!ServerActs
    <2>3. /\ stage \in { "copied", "done" }
          /\ stage = "copied" => op.kind \in { "delete", "move" } /\ stays
      OBVIOUS
    <2> HIDE DEF stage
    <2>4. IsAimed(new) /\ new.kind = op.kind /\ new.stage = stage /\ new.source = op.source
      BY <1>2, <2>3, StagedIsAimed
    <2> HIDE DEF new
    <2>5. operations' = { new }
      BY <2>1, OnlyOperation
    <2>6. out = { p \in DOMAIN disk : op.source \in Comparison!Lineage(p) }
      BY DEF Comparison!Subtree, Comparison!IsWithinSubtree
    <2>7. op.source \in DOMAIN disk
      BY <1>5 DEF Comparison!MustFail
    \* There and in the trash is all that was; and what is below the source twice.
    <2>8. /\ IsTree(there) /\ IsClosed(there)
          /\ Comparison!Contents(disk, trash) \subseteq Comparison!Contents(there, binned)
          /\ \A p \in DOMAIN there : op.source \in Comparison!Lineage(p) => p \in out
          /\ op.kind # "copy" => \A p \in DOMAIN there : op.source \in Comparison!Lineage(p) =>
                \/ \E entry \in UNION binned : entry[2] = there[p]
                \/ \E q \in DOMAIN there :
                    op.source \notin Comparison!Lineage(q) /\ there[q] = there[p]
      <3>1. CASE op.kind = "delete"
        <4>1. there = disk /\ binned = trash \cup { Comparison!Snapshot(op.source) }
          BY <3>1
        <4>2. ASSUME NEW p \in DOMAIN disk, op.source \in Comparison!Lineage(p)
              PROVE  \E entry \in UNION binned : entry[2] = disk[p]
          <5> DEFINE entry == << Comparison!Rest(p, op.source), disk[p] >>
          <5>1. entry \in Comparison!Snapshot(op.source)
            BY <2>6, <4>2 DEF Comparison!Snapshot
          <5>2. entry \in UNION binned /\ entry[2] = disk[p]
            BY <4>1, <5>1
          <5> QED
            BY <5>2
        <4>3. Comparison!Contents(disk, trash) \subseteq Comparison!Contents(disk, binned)
          BY <4>1 DEF Comparison!Contents
        <4> HIDE DEF there, binned
        <4> QED
          BY <1>2, <2>6, <4>1, <4>2, <4>3
      <3>2. CASE op.kind # "delete"
        <4>1. there = Comparison!Copied(op.source, op.destination) /\ binned = trash
          BY <3>2
        <4>2. /\ op.destination \in Seq(EntryNames) /\ op.source \in Seq(EntryNames)
              /\ op.destination \in Seq(Folders) => op.source \in Seq(Folders)
          BY <1>2, <1>3, <3>2 DEF IsAimed
        <4>3. IsTree(there)
          BY <1>2, <4>1, <4>2, CopiedIsTree DEF PathsAreListed
        <4>4. op.destination \notin DOMAIN disk
          BY <1>1, <1>2, <3>2 DEF IsSafe
        <4>5. /\ op.source \notin Comparison!Lineage(op.destination)
              /\ \A q \in Comparison!Lineage(op.destination) \ { op.destination } :
                    q \in DOMAIN disk => disk[q] = Comparison!Folder
          BY <1>5, <3>2 DEF Comparison!MustFail, Comparison!IsWithinSubtree
        <4>6. /\ IsClosed(there)
              /\ \A p \in DOMAIN disk : p \in DOMAIN there /\ there[p] = disk[p]
              /\ \A p \in out : \E q \in DOMAIN there :
                    op.source \notin Comparison!Lineage(q) /\ there[q] = disk[p]
              /\ \A p \in DOMAIN there : op.source \in Comparison!Lineage(p)
                 => p \in DOMAIN disk
          BY <1>2, <2>7, <4>1, <4>2, <4>4, <4>5, CopiedIsThere
        <4> HIDE DEF there, binned, out
        <4>7. Comparison!Contents(disk, trash) \subseteq Comparison!Contents(there, binned)
          BY <4>1, <4>6 DEF Comparison!Contents
        <4>8. \A p \in DOMAIN there : op.source \in Comparison!Lineage(p) => p \in out
          BY <2>6, <4>6
        <4>9. \A p \in DOMAIN there : op.source \in Comparison!Lineage(p) =>
                \E q \in DOMAIN there : op.source \notin Comparison!Lineage(q)
                    /\ there[q] = there[p]
          BY <4>6, <4>8
        <4> QED
          BY <4>3, <4>6, <4>7, <4>8, <4>9
      <3> QED
        BY <3>1, <3>2
    <2> HIDE DEF there, binned
    <2>9. IsTree(disk') /\ IsClosed(disk')
      <3>1. CASE stays
        BY <2>2, <2>8, <3>1
      <3>2. CASE ~stays
        <4>1. disk' = [p \in DOMAIN there \ out |-> there[p]]
          BY <2>2, <3>2
        <4> HIDE DEF out
        <4> QED
          BY <2>6, <2>8, <4>1, RemovedIsClosed
      <3> QED
        BY <3>1, <3>2
    <2>10. Comparison!KeepsContents
      <3>1. CASE stays
        BY <2>1, <2>2, <2>8, <3>1 DEF Comparison!KeepsContents
      <3>2. CASE ~stays
        <4>1. disk' = [p \in DOMAIN there \ out |-> there[p]]
          BY <2>2, <3>2
        <4>2. op.kind # "copy"
          BY <3>2
        <4> HIDE DEF out
        <4>3. \A p \in DOMAIN there \cap out :
                \/ \E entry \in UNION binned : entry[2] = there[p]
                \/ \E q \in DOMAIN there \ out : there[q] = there[p]
          BY <2>6, <2>8, <4>2
        <4>4. Comparison!Contents(there, binned) \subseteq Comparison!Contents(disk', binned)
          BY <4>1, <4>3, RemovedIsKept
        <4> QED
          BY <2>1, <2>8, <4>4 DEF Comparison!KeepsContents
      <3> QED
        BY <3>1, <3>2
    <2>11. IsSafe(new, disk', trash')
      <3> SUFFICES ASSUME stage = "copied"
                   PROVE  \A p \in DOMAIN there : op.source \in Comparison!Lineage(p) =>
                            \/ \E entry \in UNION binned : entry[2] = there[p]
                            \/ \E q \in DOMAIN there :
                                    op.source \notin Comparison!Lineage(q)
                                        /\ there[q] = there[p]
        BY <2>1, <2>2, <2>3, <2>4 DEF IsSafe
      <3> QED
        BY <2>3, <2>8
    <2> QED
      BY <1>2, <2>4, <2>5, <2>9, <2>10, <2>11 DEF KeepsAll, KInv
  <1> QED
    BY <1>4, <1>5

\* The user asks for one operation at a time, and goes elsewhere when none is under way.
LEMMA NoneIsAsked ==
    ASSUME PathsAreListed, Comparison!UserActs
    PROVE  operations = {}
  BY DEF PathsAreListed, Comparison!UserActs, Comparison!Calm

LEMMA AskedIsSafe ==
    ASSUME PathsAreListed, KInv, NEW op, Comparison!Asked(op), IsAimed(op), op.stage = "sent"
    PROVE  KeepsAll
  <1>1. operations' = { op } /\ UNCHANGED << disk, trash, panePath >>
    BY NoneIsAsked DEF Comparison!Asked, Comparison!server, Comparison!shown
  <1> QED
    BY <1>1, DiskStays DEF KInv

LEMMA EntryOperationIsSafe ==
    ASSUME PathsAreListed, KInv, NEW side \in Comparison!Sides, NEW name \in EntryNames,
           \/ Comparison!CopyToOtherSide(side, name)
           \/ Comparison!DeleteFromThisSide(side, name)
           \/ \E dragged \in EntryNames : Comparison!RenameViaDrop(side, name, dragged)
           \/ \E target \in Comparison!Segments :
                Comparison!MoveViaBreadcrumbDrop(side, name, target)
    PROVE  KeepsAll
  <1> DEFINE new(kind, destination) ==
                Comparison!Operation(kind, side, Comparison!Child(panePath[side], name),
                                     destination)
  <1>1. Comparison!Other(side) \in Comparison!Sides
    BY SidesAreTwo
  <1>2. /\ \A s \in Comparison!Sides : panePath[s] \in Seq(Folders)
        /\ Folders \subseteq EntryNames
    BY DEF KInv, ArePaths, PathsAreListed
  \* A path whose last name is a folder's is one of folders if it is at the end of one.
  <1>3. ASSUME NEW at \in Seq(Folders), NEW last \in EntryNames
        PROVE  /\ Comparison!Child(at, last) \in Seq(EntryNames)
               /\ Comparison!Child(at, last) \in Seq(Folders) <=> last \in Folders
    <2> DEFINE c == Append(at, last)
    <2>1. at \in Seq(EntryNames)
      BY <1>2
    <2>2. /\ c \in Seq(EntryNames) /\ Len(c) = Len(at) + 1 /\ Len(at) \in Nat
          /\ c[Len(c)] = last
      BY <2>1, AppendProperties
    <2>3. last \in Folders => c \in Seq(Folders)
      BY AppendProperties
    <2> HIDE DEF c
    <2>4. c \in Seq(Folders) => last \in Folders
      <3> SUFFICES ASSUME c \in Seq(Folders) PROVE last \in Folders
        OBVIOUS
      <3>1. Len(c) \in 1..Len(c)
        BY <2>2
      <3>2. c[Len(c)] \in Folders
        BY <3>1
      <3> QED
        BY <2>2, <3>2
    <2>5. Comparison!Child(at, last) = c
      BY DEF Comparison!Child, c
    <2> QED
      BY <2>2, <2>3, <2>4, <2>5
  <1>4. ASSUME NEW kind \in EntryKinds, NEW destination,
               Comparison!Asked(new(kind, destination)),
               kind # "delete" =>
                    /\ destination \in Seq(EntryNames)
                    /\ destination \in Seq(Folders) =>
                            Comparison!Child(panePath[side], name) \in Seq(Folders)
        PROVE  KeepsAll
    <2> DEFINE op == new(kind, destination)
    <2>1. /\ DOMAIN op = OperationFields /\ op.kind = kind
          /\ op.source = Comparison!Child(panePath[side], name)
          /\ op.destination = destination /\ op.stage = "sent"
      BY DEF OperationFields, Comparison!Operation
    <2>2. Comparison!Asked(op)
      BY <1>4
    <2> HIDE DEF op
    <2>3. op.source \in Seq(EntryNames)
      BY <1>2, <1>3, <2>1
    <2>4. IsAimed(op)
      BY <1>4, <2>1, <2>3 DEF IsAimed
    <2> QED
      BY <2>1, <2>2, <2>4, AskedIsSafe
  <1>5. CASE Comparison!CopyToOtherSide(side, name)
    <2> DEFINE destination == Comparison!Child(panePath[Comparison!Other(side)], name)
    <2>1. Comparison!Asked(new("copy", destination))
      BY <1>5 DEF Comparison!CopyToOtherSide
    <2>2. /\ destination \in Seq(EntryNames)
          /\ destination \in Seq(Folders) =>
                Comparison!Child(panePath[side], name) \in Seq(Folders)
      BY <1>1, <1>2, <1>3
    <2> HIDE DEF new, destination
    <2> QED
      BY <1>4, <2>1, <2>2 DEF EntryKinds
  <1>6. CASE Comparison!DeleteFromThisSide(side, name)
    <2>1. Comparison!Asked(new("delete", << >>))
      BY <1>6 DEF Comparison!DeleteFromThisSide
    <2> HIDE DEF new
    <2> QED
      BY <1>4, <2>1 DEF EntryKinds
  <1>7. ASSUME NEW dragged \in EntryNames, Comparison!RenameViaDrop(side, name, dragged)
        PROVE  KeepsAll
    <2> DEFINE destination == Comparison!Child(panePath[side], dragged)
    <2>1. Comparison!Asked(new("rename", destination)) /\ dragged \notin Folders
      BY <1>7 DEF Comparison!RenameViaDrop, Comparison!AcceptsDrop
    <2>2. destination \in Seq(EntryNames) /\ destination \notin Seq(Folders)
      BY <1>2, <1>3, <2>1
    <2> HIDE DEF new, destination
    <2> QED
      BY <1>4, <2>1, <2>2 DEF EntryKinds
  <1>8. ASSUME NEW target \in Comparison!Segments,
               Comparison!MoveViaBreadcrumbDrop(side, name, target)
        PROVE  KeepsAll
    <2> DEFINE destination == Comparison!Child(target, name)
    <2>1. Comparison!Asked(new("move", destination)) /\ name \notin Folders
      BY <1>8 DEF Comparison!MoveViaBreadcrumbDrop
    <2>2. target \in Seq(Folders)
      BY <1>2, AboveIsBeginning DEF Comparison!Segments, Comparison!Sides
    <2>3. destination \in Seq(EntryNames) /\ destination \notin Seq(Folders)
      BY <1>3, <2>1, <2>2
    <2> HIDE DEF new, destination
    <2> QED
      BY <1>4, <2>1, <2>3 DEF EntryKinds
  <1> QED
    BY <1>5, <1>6, <1>7, <1>8

LEMMA OtherOperationIsSafe ==
    ASSUME PathsAreListed, KInv,
           \/ Comparison!Compare \/ Comparison!Stop
           \/ \E side \in Comparison!Sides : Comparison!ToggleOwnIgnore(side)
           \/ \E side \in Comparison!Sides, name \in EntryNames :
                Comparison!ToggleIgnore(side, name)
    PROVE  KeepsAll
  <1>1. ASSUME NEW op, Comparison!Asked(op), DOMAIN op = OperationFields,
               op.kind \in { "compare", "stop", "ignore" }, op.stage = "sent"
        PROVE  KeepsAll
    <2>1. IsAimed(op)
      BY <1>1 DEF IsAimed, EntryKinds
    <2> QED
      BY <1>1, <2>1, AskedIsSafe
  <1>2. ASSUME NEW side \in Comparison!Sides, NEW pathOf, NEW mark,
               Comparison!Toggle(side, pathOf, mark)
        PROVE  KeepsAll
    <2> DEFINE base == Comparison!Operation("ignore", side, << >>, << >>)
               targets == IF moveSync THEN << pathOf[side], pathOf[Comparison!Other(side)] >>
                          ELSE << pathOf[side] >>
               op == [base EXCEPT !.targets = targets, !.ignored = mark # "ignored"]
    <2>1. Comparison!Asked(op)
      BY <1>2 DEF Comparison!Toggle
    <2>2. DOMAIN base = OperationFields /\ base.kind = "ignore" /\ base.stage = "sent"
      BY DEF OperationFields, Comparison!Operation
    <2> HIDE DEF base, targets
    <2>3. DOMAIN op = OperationFields /\ op.kind = "ignore" /\ op.stage = "sent"
      BY <2>2, AimedOperation
    <2> HIDE DEF op
    <2> QED
      BY <1>1, <2>1, <2>3
  <1>3. ASSUME NEW side \in Comparison!Sides, NEW name,
               Comparison!ToggleOwnIgnore(side) \/ Comparison!ToggleIgnore(side, name)
        PROVE  KeepsAll
    BY <1>2, <1>3 DEF Comparison!ToggleOwnIgnore, Comparison!ToggleIgnore
  <1>4. CASE Comparison!Compare
    <2> DEFINE op == Comparison!Operation("compare", "left", << >>, << >>)
    <2>1. Comparison!Asked(op)
      BY <1>4 DEF Comparison!Compare
    <2>2. DOMAIN op = OperationFields /\ op.kind = "compare" /\ op.stage = "sent"
      BY DEF OperationFields, Comparison!Operation
    <2> HIDE DEF op
    <2> QED
      BY <1>1, <2>1, <2>2
  <1>5. CASE Comparison!Stop
    <2> DEFINE base == Comparison!Operation("stop", "left", << >>, << >>)
               op == [base EXCEPT !.targets = << view.activePair >>]
    <2>1. Comparison!Asked(op)
      BY <1>5 DEF Comparison!Stop
    <2>2. DOMAIN base = OperationFields /\ base.kind = "stop" /\ base.stage = "sent"
      BY DEF OperationFields, Comparison!Operation
    <2> HIDE DEF base
    <2>3. DOMAIN op = OperationFields /\ op.kind = "stop" /\ op.stage = "sent"
      BY <2>2, AimedOperation
    <2> HIDE DEF op
    <2> QED
      BY <1>1, <2>1, <2>3
  <1> QED
    BY <1>3, <1>4, <1>5

LEMMA NavigationIsSafe ==
    ASSUME PathsAreListed, KInv, NEW side \in Comparison!Sides,
           \/ Comparison!NavigateUp(side)
           \/ \E target \in Comparison!Lineage(panePath[side]) :
                Comparison!NavigateToPath(side, target)
           \/ \E name \in EntryNames : Comparison!NavigateInto(side, name)
    PROVE  KeepsAll
  <1> DEFINE at == panePath[side]
             other == panePath[Comparison!Other(side)]
  <1>1. /\ \A s \in Comparison!Sides : panePath[s] \in Seq(Folders)
        /\ at \in Seq(Folders) /\ other \in Seq(Folders)
    BY SidesAreTwo DEF KInv, ArePaths
  <1>2. ASSUME Comparison!UserActs, NEW there \in Seq(Folders), NEW beside \in Seq(Folders),
               Comparison!ShowPaths(Comparison!Both(side, there, beside)),
               UNCHANGED << Comparison!server, operations >>
        PROVE  KeepsAll
    <2>1. ArePaths(Comparison!Both(side, there, beside))
      BY <1>1 DEF ArePaths, Comparison!Both
    <2>2. ArePaths(panePath')
      BY <1>2, <2>1 DEF Comparison!ShowPaths
    <2>3. UNCHANGED << disk, trash >> /\ operations' = {}
      BY <1>2, NoneIsAsked DEF Comparison!server
    <2> QED
      BY <2>2, <2>3, DiskStays
  <1>3. CASE Comparison!NavigateUp(side)
    <2>1. Comparison!ParentPath(at) \in Seq(Folders)
      BY <1>1, <1>3, ChildIsItsNames DEF Comparison!NavigateUp
    <2>2. Comparison!Upwards(other, 1) \in Seq(Folders)
      BY <1>1, UpwardsIsAbove
    <2>3. /\ Comparison!UserActs /\ UNCHANGED << Comparison!server, operations >>
          /\ Comparison!ShowPaths(Comparison!Both(side, Comparison!ParentPath(at),
                                                  Comparison!Upwards(other, 1)))
      BY <1>3 DEF Comparison!NavigateUp
    <2> HIDE DEF at, other
    <2> QED
      BY <1>2, <2>1, <2>2, <2>3
  <1>4. ASSUME NEW target \in Comparison!Lineage(at), Comparison!NavigateToPath(side, target)
        PROVE  KeepsAll
    <2> DEFINE up == Len(at) - Len(target)
    <2>1. target \in Seq(Folders) /\ Len(target) \in 0..Len(at)
      BY <1>1, AboveIsBeginning
    <2>2. up \in Nat
      BY <1>1, <2>1
    <2>3. /\ Comparison!UserActs /\ UNCHANGED << Comparison!server, operations >>
          /\ Comparison!ShowPaths(Comparison!Both(side, target,
                                                  Comparison!Upwards(other, up)))
      BY <1>4 DEF Comparison!NavigateToPath
    <2> HIDE DEF at, other, up
    <2>4. Comparison!Upwards(other, up) \in Seq(Folders)
      BY <1>1, <2>2, UpwardsIsAbove
    <2> QED
      BY <1>2, <2>1, <2>3, <2>4
  <1>5. ASSUME NEW name \in EntryNames, Comparison!NavigateInto(side, name)
        PROVE  KeepsAll
    <2>1. name \in Folders
      BY <1>5 DEF Comparison!NavigateInto
    <2>2. /\ Comparison!Child(at, name) \in Seq(Folders)
          /\ Comparison!Child(other, name) \in Seq(Folders)
      BY <1>1, <2>1, AppendProperties DEF Comparison!Child
    <2>3. /\ Comparison!UserActs /\ UNCHANGED << Comparison!server, operations >>
          /\ Comparison!ShowPaths(Comparison!Both(side, Comparison!Child(at, name),
                                                  Comparison!Child(other, name)))
      BY <1>5 DEF Comparison!NavigateInto
    <2> HIDE DEF at, other
    <2> QED
      BY <1>2, <2>2, <2>3
  <1> QED
    BY <1>3, <1>4, <1>5

LEMMA KeptInit == PathsAreListed /\ Comparison!Init => KInv
  BY DEF PathsAreListed, KInv, Comparison!Init, ArePaths

LEMMA KeptStep ==
    ASSUME PathsAreListed, KInv, Comparison!Next
    PROVE  KeepsAll
  <1>1. ASSUME UNCHANGED << disk, trash, panePath >>, operations' \subseteq operations
        PROVE  KeepsAll
    BY <1>1, DiskStays DEF KInv
  <1>2. CASE Comparison!ServerWorks
    BY <1>2, ServerChecksSafe, ServerActsSafe, ServerRemovesSafe, OtherStepsAreSafe
       DEF Comparison!ServerWorks
  <1>3. CASE Comparison!StatusComes
    BY <1>1, <1>3 DEF Comparison!StatusComes, Comparison!ServerReads,
                      Comparison!StatusArrives, Comparison!server
  <1>4. CASE Comparison!RowsCome
    BY <1>1, <1>4 DEF Comparison!RowsCome, Comparison!ServerLists, Comparison!ListingArrives,
                      Comparison!server
  <1>5. CASE Comparison!ComparisonEnds \/ Comparison!Poll \/ Comparison!SwitchMoveSync
    BY <1>1, <1>5 DEF Comparison!ComparisonEnds, Comparison!Poll, Comparison!SwitchMoveSync,
                      Comparison!server, Comparison!shown
  <1>6. CASE Comparison!Reload
    <2>1. operations' = {} /\ UNCHANGED << disk, trash, panePath >>
      BY <1>6, NoneIsAsked DEF Comparison!Reload, Comparison!server
    <2> QED
      BY <1>1, <2>1
  <1>7. CASE Comparison!Compare \/ Comparison!Stop
    BY <1>7, OtherOperationIsSafe
  <1>8. ASSUME NEW side \in Comparison!Sides,
               \/ Comparison!ToggleOwnIgnore(side) \/ Comparison!NavigateUp(side)
               \/ \E target \in Comparison!Lineage(panePath[side]) :
                    Comparison!NavigateToPath(side, target)
        PROVE  KeepsAll
    BY <1>8, NavigationIsSafe, OtherOperationIsSafe
  <1>9. ASSUME NEW side \in Comparison!Sides, NEW name \in EntryNames,
               \/ Comparison!NavigateInto(side, name) \/ Comparison!CopyToOtherSide(side, name)
               \/ Comparison!DeleteFromThisSide(side, name)
               \/ Comparison!ToggleIgnore(side, name)
               \/ \E dragged \in EntryNames : Comparison!RenameViaDrop(side, name, dragged)
               \/ \E target \in Comparison!Segments :
                    Comparison!MoveViaBreadcrumbDrop(side, name, target)
        PROVE  KeepsAll
    BY <1>9, NavigationIsSafe, EntryOperationIsSafe, OtherOperationIsSafe
  <1> QED
    BY <1>2, <1>3, <1>4, <1>5, <1>6, <1>7, <1>8, <1>9 DEF Comparison!Next

LEMMA KeptStays ==
    ASSUME KInv, UNCHANGED Comparison!vars
    PROVE  KeepsAll
  <1>1. UNCHANGED << disk, trash, panePath, operations >>
    BY DEF Comparison!vars, Comparison!server, Comparison!shown
  <1> QED
    BY <1>1, DiskStays DEF KInv

-----------------------------------------------------------------------------
(* The same of the four pages: while the comparison page is on the screen, the *)
(* others do nothing.                                                          *)

LEMMA ComparisonInit == PagesInit /\ ShowsComparison => Comparison!Init
  BY DEF PagesInit, ShowsComparison

LEMMA ComparisonIsAlone ==
    ASSUME [PagesNext]_pagesVars
    PROVE  /\ ShowsComparison' => ShowsComparison
           /\ ShowsComparison => [Comparison!Next]_Comparison!vars
  <1>1. ShowsComparison' => ShowsComparison
    BY DEF PagesNext, OnPane, OnComparison, OnSizes, OnDuplicates, pagesVars, ShowsComparison
  <1>2. ASSUME ShowsComparison PROVE [Comparison!Next]_Comparison!vars
    <2>1. CASE OnPane(Next)
      BY <1>2, <2>1 DEF OnPane, ShowsPane, ShowsComparison
    <2>2. CASE OnComparison(Comparison!Next)
      BY <2>2 DEF OnComparison
    <2>3. CASE OnSizes(Sizes!Next)
      BY <1>2, <2>3 DEF OnSizes, ShowsSizes, ShowsComparison
    <2>4. CASE OnDuplicates(Duplicates!Next)
      BY <1>2, <2>4 DEF OnDuplicates, ShowsDuplicates, ShowsComparison
    <2>5. CASE UNCHANGED pagesVars
      BY <2>5 DEF pagesVars, ofComparison, Comparison!vars, Comparison!server, Comparison!shown
    <2> QED
      BY <2>1, <2>2, <2>3, <2>4, <2>5 DEF PagesNext
  <1> QED
    BY <1>1, <1>2

PairInv == ShowsComparison => CInv
DiskInv == ShowsComparison => KInv

\* A comparison page at rest shows the statuses of the pair it is at, and in either pane
\* the entries of its directory, whatever was copied, deleted, renamed, moved or compared
\* on the way there and whichever answer came when.
THEOREM ShownIsCurrentHolds ==
    ASSUME PairsAreListed
    PROVE  PagesSpec => []ShownIsCurrent
  <1>1. PagesInit => PairInv
    BY ComparisonInit, PairInit DEF PairInv
  <1>2. PairInv /\ [PagesNext]_pagesVars => PairInv'
    BY ComparisonIsAlone, PairStep, PairStays DEF PairInv
  <1>3. PairInv => ShownIsCurrent
    BY ShownIsRight DEF PairInv, ShownIsCurrent
  <1> QED
    BY <1>1, <1>2, <1>3, PTL DEF PagesSpec

\* No operation on entries loses a content: what leaves its path is elsewhere on the
\* disk, or in the trash, before it is gone from it.
THEOREM NothingIsLostHolds ==
    ASSUME PathsAreListed
    PROVE  PagesSpec => NothingIsLost
  <1>1. PagesInit => DiskInv
    BY ComparisonInit, KeptInit DEF DiskInv
  <1>2. DiskInv /\ [PagesNext]_pagesVars =>
            DiskInv' /\ [ShowsComparison => Comparison!KeepsContents]_pagesVars
    BY ComparisonIsAlone, KeptStep, KeptStays DEF DiskInv, KeepsAll
  <1> QED
    BY <1>1, <1>2, PTL DEF PagesSpec, NothingIsLost
-----------------------------------------------------------------------------
(* The duplicate finder's page, for all files and however often its user acts. *)

\* What the page is instantiated with: finitely many files, none below another,
\* whose contents are numbered from 1 on; and a user who waits for answers.
CopiesAreListed ==
    /\ IsFiniteSet(Duplicates!Files)
    /\ \A p, q \in Duplicates!Files : p \in Duplicates!Lineage(q) <=> p = q
    /\ \A p \in Duplicates!Files : ContentOf[p] \in Nat \ { 0 }
    /\ GroupsAtOnce \in Nat \ { 0 }
    /\ Patient = TRUE

CallFields == { "kind", "from", "query", "key", "path", "paths", "answer", "isHeard" }
ViewFields == { "page", "at", "data", "expanded", "target", "result", "plan" }

IsCall(c) ==
    /\ DOMAIN c = CallFields
    /\ c.kind = "effect" => c.from = "tab" /\ c.isHeard
    /\ c.kind = "load" => c.from \in { "tab", "expansion", "dialog" }
    /\ c.kind = "ignore" => c.from \in { "tab", "dialog" }
    /\ c.kind \in { "expand", "rescan" } => c.from = "tab"
    /\ c.kind \in { "scan", "stop" } => c.from = "page"
    /\ c.kind \in { "occurrences", "plan", "delete" } => c.from = "dialog"

DuplicatesAreShaped ==
    /\ disk \subseteq Duplicates!Files /\ reported \subseteq Duplicates!Files
    /\ DOMAIN scan = { "state", "kind", "isStopping" }
    /\ DOMAIN view = ViewFields /\ view.page \in Nat
    /\ view.result.failed => view.result.paths = {}
    /\ \A c \in calls : IsCall(c)
    /\ \A s \in statusCalls : DOMAIN s = { "kind", "isAnswered", "value" }

IsScan(c) == c.kind \in { "scan", "rescan" }
HasBegun(c) == IsScan(c) /\ c.answer.status = "ok"
HasRemoved(c) == c.kind \in { "ignore", "delete" } /\ c.answer.status = "ok"

\* Nothing but the interval goes on while a scan or refresh is asked for, or the dialog
\* is open or asks for something.
IsQuietBut(c) ==
    calls = { c } /\ statusCalls = {} /\ status.state # "running"

CallsAreAlone ==
    /\ \A c, d \in calls : (c.kind = "effect") = (d.kind = "effect") => c = d
    /\ \A c \in calls : IsScan(c) =>
        IsQuietBut(c) /\ (scan.state = "running" => c.answer.status = "ok")
    /\ \A c \in calls : c.from = "dialog" =>
        IsQuietBut(c) /\ scan.state # "running" /\ c.isHeard

\* The page knows the run's state, or has it running still, or will be told.
RunIsKnown ==
    /\ \A s \in statusCalls : /\ s.kind = "poll" => status.state = "running"
                              /\ s.isAnswered => s.value.state \in { scan.state, "running" }
    /\ \/ status.state \in { scan.state, "running" }
       \/ \E s \in statusCalls : s.kind # "poll"
       \/ \E c \in calls : HasBegun(c)

\* Another status will come, and with it another listing.
TickIsDue ==
    \/ status.state = "running" /\ scan.state # "running"
    \/ \E s \in statusCalls : s.kind # "poll"
    \/ \E c \in calls :
        HasBegun(c) \/ (c.from = "tab" /\ (c.kind = "load" \/ HasRemoved(c)))

ListingIsDue ==
    \E c \in calls : \/ c.kind = "effect"
                     \/ c.kind = "load" /\ c.isHeard
                     \/ c.from = "dialog" /\ HasRemoved(c)

CurrentListing == Duplicates!ListingOf(Duplicates!ThisQuery)

ResultsAreFresh ==
    /\ \A c \in calls : c.isHeard /\ c.from # "page" =>
        c.query = Duplicates!ThisQuery /\ Duplicates!HasResults(status)
    /\ Duplicates!HasResults(status) =>
        view.data = CurrentListing \/ TickIsDue \/ ListingIsDue
    /\ \A c \in calls : c.answer.status = "ok" =>
        /\ c.kind = "effect" => c.answer = CurrentListing \/ TickIsDue
        /\ c.kind = "load" /\ c.isHeard /\ c.from # "tab" => c.answer = CurrentListing

\* While a run goes on no copies of a group on show are gone: what is listed because
\* they are is listed of results that stay.
ExpansionsAreRight ==
    \A c \in calls : c.isHeard =>
        /\ c.kind = "expand" =>
            /\ scan.state = "running" => Duplicates!Copies(c.key) # {}
            /\ c.answer.status \notin { "awaited", "ok" } => scan.state # "running"
        /\ c.kind = "load" /\ c.from = "expansion" => scan.state # "running"

IsLastButOne(c) ==
    IF c.kind = "delete" THEN c.answer.plan.groupDisappears
    ELSE Duplicates!Cardinality(c.paths \ { c.path }) < 2

ResultIsRight ==
    /\ view.result.key = view.target.key
    /\ view.result.failed \/ view.result.paths = Duplicates!Copies(view.target.key)

DialogIsRight ==
    /\ Duplicates!IsOpen =>
        /\ tab = "directories" /\ statusCalls = {} /\ Duplicates!HasResults(status)
        /\ view.target.key \in Nat \ { 0 }
        /\ status.state # "running" /\ scan.state # "running"
        /\ \A c \in calls : c.from = "dialog"
        /\ ResultIsRight \/ \E c \in calls : c.kind = "occurrences" \/ HasRemoved(c)
    /\ \A c \in calls : c.kind = "occurrences" =>
        /\ c.key = view.target.key
        /\ c.answer.status = "ok" => c.answer.paths = Duplicates!Copies(c.key)
    /\ \A c \in calls : c.kind \in { "ignore", "delete" } /\ c.from = "dialog" =>
        /\ c.key = view.target.key /\ c.path \in c.paths
        /\ IF HasRemoved(c) THEN IsLastButOne(c) \/ c.paths \ { c.path } = Duplicates!Copies(c.key)
           ELSE c.paths = Duplicates!Copies(c.key)

DInv ==
    /\ DuplicatesAreShaped /\ CallsAreAlone /\ RunIsKnown
    /\ ResultsAreFresh /\ ExpansionsAreRight /\ DialogIsRight

LEMMA CardinalityIsHis == \A S : Duplicates!Cardinality(S) = Cardinality(S)
  BY DEF Cardinality, Duplicates!Cardinality

\* A listing depends on the results, on what is ignored, and on whether a scan goes on.
LEMMA ListingStays ==
    ASSUME UNCHANGED << reported, ignoredPaths >>, scan'.kind = scan.kind
    PROVE  \A q : Duplicates!ListingOf(q)' = Duplicates!ListingOf(q)
  <1>1. \A g : Duplicates!Copies(g)' = Duplicates!Copies(g)
    BY DEF Duplicates!Copies
  <1>2. ASSUME NEW dir PROVE Duplicates!GroupsInOrder(dir)' = Duplicates!GroupsInOrder(dir)
    <2> DEFINE groups == { [what |-> g, count |-> Duplicates!Cardinality(Duplicates!Copies(g))] :
                            g \in { ContentOf[p] : p \in reported } }
               before(S) == { pair \in S \X S :
                                IF dir = "desc" THEN Duplicates!GroupPrecedes(pair[1], pair[2])
                                ELSE Duplicates!GroupPrecedes(pair[2], pair[1]) }
    <2>1. groups' = groups
      BY <1>1
    <2>2. Duplicates!GroupsInOrder(dir) = Duplicates!Ordered(groups, before(groups))
      BY DEF Duplicates!GroupsInOrder
    <2>3. Duplicates!GroupsInOrder(dir)' = Duplicates!Ordered(groups', before(groups'))
      BY DEF Duplicates!GroupsInOrder
    <2> HIDE DEF groups, before
    <2> QED
      BY <2>1, <2>2, <2>3
  <1>3. /\ \A p : Duplicates!IsIgnored(p)' = Duplicates!IsIgnored(p)
        /\ \A p : Duplicates!ChildDirectories(p)' = Duplicates!ChildDirectories(p)
        /\ \A p : Duplicates!DuplicatesHere(p)' = Duplicates!DuplicatesHere(p)
        /\ \A p : Duplicates!DuplicatesBelow(p)' = Duplicates!DuplicatesBelow(p)
    BY DEF Duplicates!IsIgnored, Duplicates!ChildDirectories, Duplicates!DuplicatesHere,
           Duplicates!DuplicatesBelow
  <1>4. ASSUME NEW q PROVE Duplicates!RowsInOrder(q)' = Duplicates!RowsInOrder(q)
    <2> DEFINE here == Duplicates!ChildDirectories(q.at) \cup Duplicates!DuplicatesHere(q.at)
               all == { [what |-> p, count |-> Duplicates!DuplicatesBelow(p)] :
                            p \in { r \in here : ~Duplicates!IsIgnored(r) } }
               shown == { row \in all : q.hideEmpty => row.count > 0 }
               before(S) == { pair \in S \X S :
                                Duplicates!RowPrecedes(pair[1], pair[2], q.sortDir) }
    <2>1. shown' = shown
      BY <1>3
    <2>2. Duplicates!RowsInOrder(q) = Duplicates!Ordered(shown, before(shown))
      BY DEF Duplicates!RowsInOrder
    <2>3. Duplicates!RowsInOrder(q)' = Duplicates!Ordered(shown', before(shown'))
      BY DEF Duplicates!RowsInOrder
    <2> HIDE DEF shown, before
    <2> QED
      BY <2>1, <2>2, <2>3
  <1> QED
    BY <1>2, <1>4 DEF Duplicates!ListingOf, Duplicates!PageOf

LEMMA CurrentListingStays ==
    ASSUME UNCHANGED << reported, ignoredPaths >>, scan'.kind = scan.kind,
           Duplicates!ThisQuery' = Duplicates!ThisQuery
    PROVE  CurrentListing' = CurrentListing
  BY ListingStays DEF CurrentListing

LEMMA ResultsAreFinite ==
    ASSUME CopiesAreListed, reported \subseteq Duplicates!Files
    PROVE  /\ IsFiniteSet(reported)
           /\ \A g : IsFiniteSet(Duplicates!Copies(g)) /\ Cardinality(Duplicates!Copies(g)) \in Nat
  <1>1. IsFiniteSet(reported)
    BY FS_Subset DEF CopiesAreListed
  <1>2. \A g : Duplicates!Copies(g) \in SUBSET reported
    BY DEF Duplicates!Copies
  <1> QED
    BY <1>1, <1>2, FS_Subset, FS_CardinalityType

\* A group that is listed has copies.
LEMMA GroupsHaveCopies ==
    ASSUME CopiesAreListed, reported \subseteq Duplicates!Files, NEW dir
    PROVE  LET all == Duplicates!GroupsInOrder(dir)
           IN  /\ Len(all) \in Nat
               /\ \A i \in 1..Len(all) : Duplicates!Copies(all[i].what) # {}
  <1> DEFINE groups == { [what |-> g, count |-> Duplicates!Cardinality(Duplicates!Copies(g))] :
                            g \in { ContentOf[p] : p \in reported } }
             Lower(a, b) == IF dir = "desc" THEN Duplicates!GroupPrecedes(a, b)
                            ELSE Duplicates!GroupPrecedes(b, a)
             below == [a \in groups |-> { b \in groups : Lower(b, a) }]
             all == Duplicates!GroupsInOrder(dir)
             n == Cardinality(groups)
  <1>1. IsFiniteSet(groups)
    <2>1. IsFiniteSet(reported)
      BY ResultsAreFinite
    <2> DEFINE f == [p \in reported |->
                        [what |-> ContentOf[p],
                         count |-> Duplicates!Cardinality(Duplicates!Copies(ContentOf[p]))]]
    <2>2. f \in [reported -> groups]
      OBVIOUS
    <2>3. \A a \in groups : \E p \in reported : f[p] = a
      OBVIOUS
    <2> HIDE DEF groups, f
    <2>4. f \in Surjection(reported, groups)
      BY <2>2, <2>3, Fun_IsSurj
    <2> QED
      BY <2>1, <2>4, FS_Surjection
  <1>2. \A a \in groups : /\ a.what \in Nat /\ a.count \in Nat
                          /\ a = [what |-> a.what, count |-> a.count]
                          /\ a.count = Cardinality(Duplicates!Copies(a.what))
                          /\ Duplicates!Copies(a.what) # {}
    <2> SUFFICES ASSUME NEW p \in reported
                 PROVE  LET g == ContentOf[p]
                        IN  /\ g \in Nat /\ Duplicates!Copies(g) # {}
                            /\ Cardinality(Duplicates!Copies(g)) \in Nat
      BY CardinalityIsHis
    <2>1. ContentOf[p] \in Nat
      BY DEF CopiesAreListed
    <2>2. p \in Duplicates!Copies(ContentOf[p])
      BY DEF Duplicates!Copies
    <2> QED
      BY <2>1, <2>2, ResultsAreFinite
  <1> HIDE DEF groups
  <1>3. /\ \A a \in groups : ~Lower(a, a)
        /\ \A a, b, c \in groups : Lower(a, b) /\ Lower(b, c) => Lower(a, c)
        /\ \A a, b \in groups : a = b \/ Lower(a, b) \/ Lower(b, a)
    <2>1. \A a, b \in groups : a.what = b.what => a = b
      BY <1>2
    <2> QED
      BY <1>2, <2>1 DEF Duplicates!GroupPrecedes
  <1> DEFINE before == { pair \in groups \X groups : Lower(pair[1], pair[2]) }
  <1>4. all = [i \in 1..Duplicates!Cardinality(groups) |->
                CHOOSE a \in groups :
                    Duplicates!Cardinality({ b \in groups : << b, a >> \in before }) = i - 1]
    BY DEF Duplicates!GroupsInOrder, Duplicates!Ordered, groups
  <1>10. \A a, b \in groups : << b, a >> \in before <=> Lower(b, a)
    OBVIOUS
  <1> HIDE DEF Lower, all, before
  <1>5. \A a \in groups : below[a] = { b \in groups : Lower(b, a) }
    OBVIOUS
  <1> HIDE DEF below
  <1>6. n \in Nat /\ \A i \in 1..n : \E a \in groups : Cardinality(below[a]) = i - 1
    BY <1>1, <1>3, <1>5, OneIsAtEachPlace
  <1>7. n = Duplicates!Cardinality(groups)
    BY CardinalityIsHis
  <1> HIDE DEF n
  <1>8. Len(all) = n
    BY <1>4, <1>6, <1>7
  <1>9. ASSUME NEW i \in 1..n PROVE all[i] \in groups
    <2>1. all[i] = CHOOSE a \in groups :
                Duplicates!Cardinality({ b \in groups : << b, a >> \in before }) = i - 1
      BY <1>4, <1>7
    <2>2. \A a \in groups : { b \in groups : << b, a >> \in before } = below[a]
      BY <1>5, <1>10
    <2>3. \E a \in groups :
                Duplicates!Cardinality({ b \in groups : << b, a >> \in before }) = i - 1
      BY <1>6, <2>2, CardinalityIsHis
    <2> QED
      BY <2>1, <2>3
  <1> QED
    BY <1>2, <1>6, <1>8, <1>9 DEF all

LEMMA RowsShownAreListed ==
    ASSUME NEW all, Len(all) \in Nat, NEW number \in Nat, GroupsAtOnce \in Nat,
           NEW i \in DOMAIN Duplicates!PageOf(all, number)
    PROVE  \E j \in 1..Len(all) : Duplicates!PageOf(all, number)[i] = all[j]
  <1> DEFINE from == number * GroupsAtOnce
             len == IF Len(all) <= from THEN 0
                    ELSE IF Len(all) < from + GroupsAtOnce THEN Len(all) - from
                    ELSE GroupsAtOnce
  <1>1. from \in Nat
    OBVIOUS
  <1>2. Duplicates!PageOf(all, number) = [k \in 1..len |-> all[from + k]]
    BY DEF Duplicates!PageOf
  <1> HIDE DEF from
  <1>3. i \in 1..len /\ Duplicates!PageOf(all, number)[i] = all[from + i]
    BY <1>2
  <1>4. from + i \in 1..Len(all)
    BY <1>1, <1>3
  <1> QED
    BY <1>3, <1>4

\* So a group of a fresh listing has copies.
LEMMA ShownGroupHasCopies ==
    ASSUME CopiesAreListed, DuplicatesAreShaped, view.data = CurrentListing,
           tab = "duplicates", NEW group, Duplicates!IsRow(group)
    PROVE  Duplicates!Copies(group) # {}
  <1> DEFINE all == Duplicates!GroupsInOrder(sortDir[tab])
  <1>1. view.data.rows = Duplicates!PageOf(all, view.page)
    BY DEF CurrentListing, Duplicates!ListingOf, Duplicates!ThisQuery, Duplicates!Query
  <1>2. PICK i \in DOMAIN view.data.rows : view.data.rows[i].what = group
    BY DEF Duplicates!IsRow, Duplicates!Shown
  <1>3. Len(all) \in Nat /\ \A j \in 1..Len(all) : Duplicates!Copies(all[j].what) # {}
    BY GroupsHaveCopies DEF DuplicatesAreShaped
  <1> HIDE DEF all
  <1>4. PICK j \in 1..Len(all) : view.data.rows[i] = all[j]
    BY <1>1, <1>2, <1>3, RowsShownAreListed DEF DuplicatesAreShaped, CopiesAreListed
  <1> QED
    BY <1>2, <1>3, <1>4

\* Of the copies of a group one was removed: the others are left, or none.
LEMMA CopiesLeft ==
    ASSUME CopiesAreListed, reported \subseteq Duplicates!Files,
           NEW g, NEW gone \in Duplicates!Copies(g),
           reported' = Duplicates!Repaired(reported \ { gone })
    PROVE  LET left == Duplicates!Copies(g) \ { gone }
           IN  /\ Duplicates!Cardinality(left) \in Nat
               /\ Duplicates!Cardinality(Duplicates!Copies(g)) - 1 = Duplicates!Cardinality(left)
               /\ Duplicates!Cardinality(left) < 2 \/ left = Duplicates!Copies(g)'
  <1> DEFINE left == Duplicates!Copies(g) \ { gone }
  <1>1. /\ IsFiniteSet(left) /\ Cardinality(left) \in Nat
        /\ Cardinality(Duplicates!Copies(g)) \in Nat
        /\ Cardinality(left) = Cardinality(Duplicates!Copies(g)) - 1
    BY ResultsAreFinite, FS_RemoveElement, FS_CardinalityType
  <1>2. ASSUME ~(Cardinality(left) < 2) PROVE left = Duplicates!Copies(g)'
    <2>1. \A p \in left : \E q \in left : q # p
      <3> SUFFICES ASSUME NEW p \in left, left \subseteq { p } PROVE FALSE
        OBVIOUS
      <3>1. left = { p }
        OBVIOUS
      <3>2. Cardinality(left) = 1
        BY <3>1, FS_Singleton
      <3> QED
        BY <1>2, <3>2
    <2>2. \A p \in left : p \in reported \ { gone } /\ ContentOf[p] = g
      BY DEF Duplicates!Copies
    <2>3. \A p : p \in reported \ { gone } /\ ContentOf[p] = g => p \in left
      BY DEF Duplicates!Copies
    <2>4. Duplicates!Copies(g)' = { p \in reported' : ContentOf[p] = g }
      BY DEF Duplicates!Copies
    <2> HIDE DEF left
    <2> QED
      BY <2>1, <2>2, <2>3, <2>4 DEF Duplicates!Repaired
  <1> QED
    BY <1>1, <1>2, CardinalityIsHis

LEMMA CallIsAnswered ==
    ASSUME NEW c, DOMAIN c = CallFields
    PROVE  /\ \A answer : LET d == [c EXCEPT !.answer = answer]
                          IN  /\ DOMAIN d = CallFields /\ d.kind = c.kind /\ d.from = c.from
                              /\ d.query = c.query /\ d.key = c.key /\ d.path = c.path
                              /\ d.paths = c.paths /\ d.isHeard = c.isHeard
                              /\ d.answer = answer
           /\ \A heard : LET d == [c EXCEPT !.isHeard = heard]
                         IN  /\ DOMAIN d = CallFields /\ d.kind = c.kind /\ d.from = c.from
                             /\ d.query = c.query /\ d.key = c.key /\ d.path = c.path
                             /\ d.paths = c.paths /\ d.answer = c.answer
                             /\ d.isHeard = heard
  BY DEF CallFields

LEMMA DuplicatesBegin == CopiesAreListed /\ Duplicates!Init => DInv
  <1> SUFFICES ASSUME CopiesAreListed, Duplicates!Init PROVE DInv
    OBVIOUS
  <1>1. /\ calls = {} /\ ~Duplicates!HasResults(status) /\ ~Duplicates!IsOpen
        /\ \A s \in statusCalls : s.kind = "first" /\ ~s.isAnswered
        /\ \E s \in statusCalls : s.kind = "first"
    BY DEF Duplicates!Init, Duplicates!HasResults, Duplicates!IsOpen, Duplicates!Blank,
           Duplicates!StatusCall
  <1>2. DuplicatesAreShaped
    BY <1>1 DEF Duplicates!Init, DuplicatesAreShaped, Duplicates!Repaired, Duplicates!Blank,
           Duplicates!NoResult, Duplicates!StatusCall, ViewFields
  <1>3. CallsAreAlone /\ ResultsAreFresh /\ ExpansionsAreRight /\ DialogIsRight
    BY <1>1 DEF CallsAreAlone, ResultsAreFresh, ExpansionsAreRight, DialogIsRight
  <1>4. RunIsKnown
    BY <1>1 DEF RunIsKnown
  <1> QED
    BY <1>2, <1>3, <1>4 DEF DInv

\* What does not touch the server keeps what the page is listed of.
LEMMA PageUnchanged ==
    ASSUME UNCHANGED << view, tab, sortDir, hideEmpty >>
    PROVE  /\ Duplicates!ThisQuery' = Duplicates!ThisQuery
           /\ Duplicates!IsOpen' = Duplicates!IsOpen
  BY DEF Duplicates!ThisQuery, Duplicates!IsOpen

LEMMA CopiesUnchanged ==
    ASSUME UNCHANGED reported
    PROVE  \A g : Duplicates!Copies(g)' = Duplicates!Copies(g)
  BY DEF Duplicates!Copies

-----------------------------------------------------------------------------
(* The server. *)

\* An answer that changes nothing but, perhaps, whether the run is to stop.
LEMMA AnswerKeeps ==
    ASSUME CopiesAreListed, DInv, NEW call \in calls, call.answer.status = "awaited",
           NEW answer, Duplicates!Answer(call, answer),
           IsScan(call) \/ call.kind \in { "ignore", "delete" } => answer.status # "ok",
           call.kind \in { "effect", "load" } => answer = Duplicates!ListingOf(call.query),
           call.kind = "expand" /\ answer.status \notin { "awaited", "ok" } =>
                Duplicates!Copies(call.key) = {},
           call.kind = "occurrences" /\ answer.status = "ok" =>
                answer.paths = Duplicates!Copies(call.key),
           UNCHANGED << disk, ignoredPaths, reported, status, statusCalls, tab, sortDir,
                        hideEmpty, view >>,
           scan'.state = scan.state, scan'.kind = scan.kind, DOMAIN scan' = DOMAIN scan
    PROVE  DInv'
  <1> DEFINE d == [call EXCEPT !.answer = answer]
  <1>1. /\ DOMAIN d = CallFields /\ d.kind = call.kind /\ d.from = call.from
        /\ d.query = call.query /\ d.key = call.key /\ d.path = call.path
        /\ d.paths = call.paths /\ d.isHeard = call.isHeard /\ d.answer = answer
    BY CallIsAnswered DEF DInv, DuplicatesAreShaped, IsCall
  <1>2. calls' = (calls \ { call }) \cup { d }
    BY DEF Duplicates!Answer
  <1> HIDE DEF d
  <1>3. /\ CurrentListing' = CurrentListing
        /\ Duplicates!ThisQuery' = Duplicates!ThisQuery
        /\ Duplicates!IsOpen' = Duplicates!IsOpen
        /\ \A g : Duplicates!Copies(g)' = Duplicates!Copies(g)
    BY PageUnchanged, CopiesUnchanged, CurrentListingStays
  <1>4. TickIsDue' <=> TickIsDue
    BY <1>1, <1>2 DEF TickIsDue, HasBegun, HasRemoved, IsScan
  <1>5. ListingIsDue => ListingIsDue'
    BY <1>1, <1>2 DEF ListingIsDue, HasRemoved
  <1>6. DuplicatesAreShaped'
    BY <1>1, <1>2 DEF DInv, DuplicatesAreShaped, IsCall
  <1>7. CallsAreAlone'
    BY <1>1, <1>2 DEF DInv, CallsAreAlone, IsScan, IsQuietBut
  <1>8. RunIsKnown'
    BY <1>1, <1>2 DEF DInv, RunIsKnown, HasBegun, IsScan
  <1>9. ResultsAreFresh'
    <2>1. ASSUME NEW c \in calls' PROVE c.isHeard /\ c.from # "page" =>
            c.query = Duplicates!ThisQuery /\ Duplicates!HasResults(status)
      BY <1>1, <1>2 DEF DInv, ResultsAreFresh
    <2>2. call.isHeard /\ call.from # "page" => Duplicates!ListingOf(call.query) = CurrentListing
      BY DEF DInv, ResultsAreFresh, CurrentListing
    <2>3. ASSUME NEW c \in calls', c.answer.status = "ok"
          PROVE  /\ c.kind = "effect" => c.answer = CurrentListing \/ TickIsDue
                 /\ c.kind = "load" /\ c.isHeard /\ c.from # "tab" => c.answer = CurrentListing
      <3>1. CASE c \in calls
        BY <2>3, <3>1 DEF DInv, ResultsAreFresh
      <3>2. CASE c = d
        BY <1>1, <2>2, <3>2 DEF DInv, DuplicatesAreShaped, IsCall
      <3> QED
        BY <1>2, <3>1, <3>2
    <2> QED
      BY <1>3, <1>4, <1>5, <2>1, <2>3 DEF DInv, ResultsAreFresh
  <1>10. ExpansionsAreRight'
    BY <1>1, <1>2, <1>3 DEF DInv, ExpansionsAreRight
  <1>11. DialogIsRight'
    <2>1. Duplicates!IsOpen => ResultIsRight' \/ \E c \in calls' : c.kind = "occurrences" \/ HasRemoved(c)
      BY <1>1, <1>2, <1>3 DEF DInv, DialogIsRight, ResultIsRight, HasRemoved
    <2>2. \A c \in calls' : IsLastButOne(c)' = IsLastButOne(c) /\ HasRemoved(c)' = HasRemoved(c)
      BY DEF IsLastButOne, HasRemoved
    <2>3. Duplicates!IsOpen => \A c \in calls' : c.from = "dialog"
      BY <1>1, <1>2 DEF DInv, DialogIsRight
    <2>4. \A c \in calls' : c.kind = "occurrences" =>
            /\ c.key = view.target.key
            /\ c.answer.status = "ok" => c.answer.paths = Duplicates!Copies(c.key)
      BY <1>1, <1>2 DEF DInv, DialogIsRight
    <2>5. ASSUME NEW c \in calls', c.kind \in { "ignore", "delete" }, c.from = "dialog"
          PROVE  /\ c.key = view.target.key /\ c.path \in c.paths
                 /\ IF HasRemoved(c)
                    THEN IsLastButOne(c) \/ c.paths \ { c.path } = Duplicates!Copies(c.key)
                    ELSE c.paths = Duplicates!Copies(c.key)
      <3>1. CASE c \in calls
        BY <2>5, <3>1 DEF DInv, DialogIsRight
      <3>2. CASE c = d
        <4>1. ~HasRemoved(c) /\ ~HasRemoved(call)
          BY <1>1, <2>5, <3>2 DEF HasRemoved
        <4> QED
          BY <1>1, <2>5, <3>2, <4>1 DEF DInv, DialogIsRight
      <3> QED
        BY <1>2, <3>1, <3>2
    <2> QED
      BY <1>3, <2>1, <2>2, <2>3, <2>4, <2>5 DEF DInv, DialogIsRight
  <1> QED
    BY <1>6, <1>7, <1>8, <1>9, <1>10, <1>11 DEF DInv

\* A scan or refresh begins: whatever it changes, the page will ask again.
LEMMA BeginKeeps ==
    ASSUME CopiesAreListed, DInv, NEW call \in calls, IsScan(call),
           Duplicates!Answer(call, Duplicates!Done),
           scan' = [state |-> "running", kind |-> call.kind, isStopping |-> FALSE],
           reported' \subseteq reported,
           UNCHANGED << disk, ignoredPaths, status, statusCalls, tab, sortDir, hideEmpty, view >>
    PROVE  DInv'
  <1> DEFINE d == [call EXCEPT !.answer = Duplicates!Done]
  <1>1. /\ DOMAIN d = CallFields /\ d.kind = call.kind /\ d.from = call.from
        /\ d.query = call.query /\ d.isHeard = call.isHeard /\ d.answer.status = "ok"
    BY CallIsAnswered DEF DInv, DuplicatesAreShaped, IsCall, Duplicates!Done
  <1>2. calls = { call } /\ statusCalls = {} /\ status.state # "running"
    BY DEF DInv, CallsAreAlone, IsQuietBut
  <1>3. calls' = { d }
    BY <1>2 DEF Duplicates!Answer
  <1> HIDE DEF d
  <1>4. HasBegun(d) /\ d.from # "dialog" /\ d.kind \in { "scan", "rescan" }
    BY <1>1 DEF HasBegun, IsScan, DInv, DuplicatesAreShaped, IsCall
  <1>5. TickIsDue'
    BY <1>3, <1>4 DEF TickIsDue, HasBegun, IsScan
  <1>6. Duplicates!ThisQuery' = Duplicates!ThisQuery /\ Duplicates!IsOpen' = Duplicates!IsOpen
    BY PageUnchanged
  <1>7. ~Duplicates!IsOpen
    BY <1>1, <1>2, <1>4 DEF DInv, DialogIsRight
  <1>8. DuplicatesAreShaped'
    BY <1>1, <1>3, <1>4 DEF DInv, DuplicatesAreShaped, IsCall
  <1>9. CallsAreAlone' /\ ExpansionsAreRight'
    BY <1>1, <1>2, <1>3, <1>4 DEF CallsAreAlone, IsScan, IsQuietBut, ExpansionsAreRight
  <1>10. RunIsKnown'
    BY <1>2, <1>3, <1>4 DEF RunIsKnown, HasBegun, IsScan
  <1>11. ResultsAreFresh'
    BY <1>1, <1>2, <1>3, <1>4, <1>5, <1>6 DEF DInv, ResultsAreFresh
  <1>12. DialogIsRight'
    BY <1>3, <1>4, <1>6, <1>7 DEF DialogIsRight
  <1> QED
    BY <1>8, <1>9, <1>10, <1>11, <1>12 DEF DInv

\* So does what the tab ignores, and the dialog, which is alone, lists again.
LEMMA RemovalKeeps ==
    ASSUME CopiesAreListed, DInv, NEW call \in calls, call.kind \in { "ignore", "delete" },
           call.answer.status = "awaited",
           NEW answer, answer.status = "ok", Duplicates!Answer(call, answer),
           disk' \subseteq disk, reported' \subseteq reported,
           call.from = "dialog" =>
                \/ IsLastButOne([call EXCEPT !.answer = answer])
                \/ call.paths \ { call.path } = Duplicates!Copies(call.key)',
           UNCHANGED << scan, status, statusCalls, tab, sortDir, hideEmpty, view >>
    PROVE  DInv'
  <1> DEFINE d == [call EXCEPT !.answer = answer]
  <1>1. /\ DOMAIN d = CallFields /\ d.kind = call.kind /\ d.from = call.from
        /\ d.query = call.query /\ d.key = call.key /\ d.path = call.path
        /\ d.paths = call.paths /\ d.isHeard = call.isHeard /\ d.answer.status = "ok"
    BY CallIsAnswered DEF DInv, DuplicatesAreShaped, IsCall
  <1>2. calls' = (calls \ { call }) \cup { d }
    BY DEF Duplicates!Answer
  <1>3. d.from = "dialog" => IsLastButOne(d) \/ d.paths \ { d.path } = Duplicates!Copies(d.key)'
    BY <1>1
  <1> HIDE DEF d
  <1>4. d.kind \in { "ignore", "delete" } /\ d.from \in { "tab", "dialog" } /\ HasRemoved(d)
    BY <1>1 DEF HasRemoved, DInv, DuplicatesAreShaped, IsCall
  <1>5. \A c \in calls' : c = d \/ (c \in calls /\ c.kind = "effect" /\ d.from = "tab")
    BY <1>1, <1>2, <1>4 DEF DInv, CallsAreAlone, IsQuietBut
  <1>6. d.from = "tab" => TickIsDue'
    BY <1>2, <1>4 DEF TickIsDue, HasRemoved
  <1>7. d.from = "dialog" => ListingIsDue'
    BY <1>2, <1>4 DEF ListingIsDue, HasRemoved
  <1>8. Duplicates!ThisQuery' = Duplicates!ThisQuery /\ Duplicates!IsOpen' = Duplicates!IsOpen
    BY PageUnchanged
  <1>9. DuplicatesAreShaped'
    BY <1>1, <1>4, <1>5 DEF DInv, DuplicatesAreShaped, IsCall
  <1>10. CallsAreAlone'
    <2>1. \A c, e \in calls' : (c.kind = "effect") = (e.kind = "effect") => c = e
      BY <1>4, <1>5 DEF DInv, CallsAreAlone
    <2>2. \A c \in calls' : ~IsScan(c)
      BY <1>4, <1>5 DEF IsScan
    <2>3. ASSUME NEW c \in calls', c.from = "dialog"
          PROVE  /\ calls' = { c } /\ statusCalls = {} /\ status.state # "running"
                 /\ scan.state # "running" /\ c.isHeard
      <3>1. c = d /\ call.from = "dialog"
        BY <1>1, <1>4, <1>5, <2>3 DEF DInv, DuplicatesAreShaped, IsCall
      <3>2. /\ calls = { call } /\ statusCalls = {} /\ status.state # "running"
            /\ scan.state # "running" /\ call.isHeard
        BY <3>1 DEF DInv, CallsAreAlone, IsQuietBut
      <3> QED
        BY <1>1, <1>2, <3>1, <3>2
    <2> QED
      BY <2>1, <2>2, <2>3 DEF CallsAreAlone, IsQuietBut, IsScan
  <1>11. RunIsKnown'
    BY <1>1, <1>2, <1>4 DEF DInv, RunIsKnown, HasBegun, IsScan
  <1>12. ResultsAreFresh'
    <2>1. \A c \in calls' : c.isHeard /\ c.from # "page" =>
            c.query = Duplicates!ThisQuery /\ Duplicates!HasResults(status)
      BY <1>1, <1>5 DEF DInv, ResultsAreFresh
    <2> QED
      BY <1>4, <1>5, <1>6, <1>7, <1>8, <2>1 DEF ResultsAreFresh
  <1>13. ExpansionsAreRight'
    BY <1>4, <1>5 DEF ExpansionsAreRight
  <1>14. DialogIsRight'
    <2>1. IsLastButOne(d)' = IsLastButOne(d) /\ HasRemoved(d)'
      BY <1>4 DEF IsLastButOne, HasRemoved
    <2>2. d.from = "dialog" => d.key = view.target.key /\ d.path \in d.paths
      BY <1>1, <1>4 DEF DInv, DialogIsRight
    <2>3. Duplicates!IsOpen => d.from = "dialog"
      BY <1>1 DEF DInv, DialogIsRight
    <2>4. d \in calls'
      BY <1>2
    <2>5. \A c \in calls' : c.kind # "occurrences"
      BY <1>4, <1>5
    <2>6. \A c \in calls' : c.kind \in { "ignore", "delete" } /\ c.from = "dialog" =>
            /\ c.key = view.target.key /\ c.path \in c.paths
            /\ HasRemoved(c)'
            /\ IsLastButOne(c)' \/ c.paths \ { c.path } = Duplicates!Copies(c.key)'
      BY <1>3, <1>5, <2>1, <2>2
    <2>7. Duplicates!IsOpen =>
            /\ tab = "directories" /\ statusCalls = {} /\ Duplicates!HasResults(status)
            /\ view.target.key \in Nat \ { 0 } /\ status.state # "running"
            /\ scan.state # "running" /\ (\A c \in calls' : c.from = "dialog")
            /\ \E c \in calls' : HasRemoved(c)'
      BY <1>4, <1>5, <2>1, <2>3, <2>4 DEF DInv, DialogIsRight
    <2> QED
      BY <1>8, <2>5, <2>6, <2>7 DEF DialogIsRight
  <1> QED
    BY <1>9, <1>10, <1>11, <1>12, <1>13, <1>14 DEF DInv

\* What a run ends with the page will list.
LEMMA RunEndKeeps ==
    ASSUME CopiesAreListed, DInv, Duplicates!IsRunning,
           DOMAIN scan' = { "state", "kind", "isStopping" },
           scan'.state # "running",
           reported' \subseteq Duplicates!Files,
           UNCHANGED << disk, ignoredPaths, status, statusCalls, tab, sortDir, hideEmpty, view, calls >>
    PROVE  DInv'
  <1>1. scan.state = "running"
    BY DEF Duplicates!IsRunning
  <1>2. Duplicates!ThisQuery' = Duplicates!ThisQuery /\ Duplicates!IsOpen' = Duplicates!IsOpen
    BY PageUnchanged
  <1>3. TickIsDue'
    BY <1>1 DEF DInv, RunIsKnown, TickIsDue, HasBegun
  <1>4. DuplicatesAreShaped'
    BY DEF DInv, DuplicatesAreShaped, IsCall
  <1>5. CallsAreAlone'
    BY <1>1 DEF DInv, CallsAreAlone, IsQuietBut, IsScan
  <1>6. RunIsKnown'
    BY <1>1 DEF DInv, RunIsKnown, HasBegun, IsScan
  <1>7. \A c \in calls : c.from # "dialog"
    BY <1>1 DEF DInv, CallsAreAlone
  <1>8. \A c \in calls : ~(c.kind = "load" /\ c.isHeard /\ c.from # "tab")
    BY <1>1, <1>7 DEF DInv, ExpansionsAreRight, DuplicatesAreShaped, IsCall
  <1>9. ResultsAreFresh'
    BY <1>2, <1>3, <1>8 DEF DInv, ResultsAreFresh
  <1>10. ExpansionsAreRight'
    BY DEF ExpansionsAreRight
  <1>11. DialogIsRight'
    <2>1. ~Duplicates!IsOpen
      BY <1>1 DEF DInv, DialogIsRight
    <2>2. \A c \in calls : c.kind # "occurrences"
      BY <1>7 DEF DInv, DuplicatesAreShaped, IsCall
    <2> QED
      BY <1>2, <1>7, <2>1, <2>2 DEF DialogIsRight
  <1> QED
    BY <1>4, <1>5, <1>6, <1>9, <1>10, <1>11 DEF DInv

LEMMA RepairedAreOfThem ==
    ASSUME NEW paths PROVE Duplicates!Repaired(paths) \subseteq paths
  BY DEF Duplicates!Repaired

LEMMA ServerAsksKeep ==
    ASSUME CopiesAreListed, DInv, NEW call \in calls,
           \/ Duplicates!ServerLists(call) \/ Duplicates!ServerListsCopies(call)
           \/ Duplicates!ServerPlans(call)
    PROVE  DInv'
  <1>1. /\ call.answer.status = "awaited"
        /\ call.kind \in { "effect", "load", "expand", "occurrences", "plan" }
        /\ UNCHANGED << disk, ignoredPaths, reported, scan, status, statusCalls, tab, sortDir,
                        hideEmpty, view >>
    BY DEF Duplicates!ServerLists, Duplicates!ServerListsCopies, Duplicates!ServerPlans,
           Duplicates!IsAsked, Duplicates!server
  <1>2. CASE Duplicates!ServerLists(call)
    <2>1. Duplicates!Answer(call, Duplicates!ListingOf(call.query))
      BY <1>2 DEF Duplicates!ServerLists
    <2>2. call.kind \in { "effect", "load" }
      BY <1>2 DEF Duplicates!ServerLists, Duplicates!IsAsked
    <2> QED
      BY <1>1, <2>1, <2>2, AnswerKeeps DEF IsScan
  <1>3. CASE Duplicates!ServerListsCopies(call)
    <2> DEFINE answer == IF Duplicates!Copies(call.key) = {} THEN Duplicates!Refused
                         ELSE [status |-> "ok", paths |-> Duplicates!Copies(call.key)]
    <2>1. Duplicates!Answer(call, answer) /\ call.kind \in { "expand", "occurrences" }
      BY <1>3 DEF Duplicates!ServerListsCopies, Duplicates!IsAsked
    <2>2. /\ answer.status = "ok" => answer.paths = Duplicates!Copies(call.key)
          /\ answer.status # "ok" => Duplicates!Copies(call.key) = {}
      BY DEF Duplicates!Refused
    <2> HIDE DEF answer
    <2> QED
      BY <1>1, <2>1, <2>2, AnswerKeeps DEF IsScan
  <1>4. CASE Duplicates!ServerPlans(call)
    <2>1. PICK answer : Duplicates!Answer(call, answer)
      BY <1>4 DEF Duplicates!ServerPlans
    <2>2. call.kind = "plan"
      BY <1>4 DEF Duplicates!ServerPlans, Duplicates!IsAsked
    <2> QED
      BY <1>1, <2>1, <2>2, AnswerKeeps DEF IsScan
  <1> QED
    BY <1>2, <1>3, <1>4

\* What a dialog asks to be removed is one of the copies it shows, and they are current.
LEMMA DialogAsksForACopy ==
    ASSUME CopiesAreListed, DInv, NEW call \in calls, call.kind \in { "ignore", "delete" },
           call.from = "dialog", call.answer.status = "awaited"
    PROVE  /\ call.paths = Duplicates!Copies(call.key) /\ call.path \in Duplicates!Copies(call.key)
           /\ ContentOf[call.path] = call.key /\ call.path \in Duplicates!Files
  BY DEF DInv, DialogIsRight, HasRemoved, Duplicates!Copies, DuplicatesAreShaped

LEMMA ServerIgnoresKeeps ==
    ASSUME CopiesAreListed, DInv, NEW call \in calls, Duplicates!ServerIgnores(call)
    PROVE  DInv'
  <1> DEFINE left == { p \in reported : ~Duplicates!IsWithinSubtree(p, call.path) }
             d == [call EXCEPT !.answer = Duplicates!Done]
  <1>1. /\ call.kind = "ignore" /\ call.answer.status = "awaited"
        /\ Duplicates!Answer(call, Duplicates!Done) /\ Duplicates!Done.status = "ok"
        /\ UNCHANGED << disk, scan, status, statusCalls, tab, sortDir, hideEmpty, view >>
        /\ reported' = Duplicates!Repaired(left)
    BY DEF Duplicates!ServerIgnores, Duplicates!IsAsked, Duplicates!Done
  <1>2. reported' \subseteq reported
    BY <1>1, RepairedAreOfThem
  <1>3. /\ d.kind = call.kind /\ d.key = call.key /\ d.path = call.path /\ d.paths = call.paths
        /\ DOMAIN d = CallFields
    BY CallIsAnswered DEF DInv, DuplicatesAreShaped, IsCall
  <1>4. ASSUME call.from = "dialog"
        PROVE  IsLastButOne(d) \/ call.paths \ { call.path } = Duplicates!Copies(call.key)'
    <2>1. /\ call.paths = Duplicates!Copies(call.key)
          /\ call.path \in Duplicates!Copies(call.key) /\ call.path \in Duplicates!Files
      BY <1>1, <1>4, DialogAsksForACopy
    <2>2. left = reported \ { call.path }
      BY <2>1 DEF CopiesAreListed, DInv, DuplicatesAreShaped, Duplicates!IsWithinSubtree
    <2>3. reported' = Duplicates!Repaired(reported \ { call.path })
      BY <1>1, <2>2
    <2>4. \/ Duplicates!Cardinality(call.paths \ { call.path }) < 2
          \/ call.paths \ { call.path } = Duplicates!Copies(call.key)'
      BY <2>1, <2>3, CopiesLeft DEF DInv, DuplicatesAreShaped
    <2> HIDE DEF d
    <2> QED
      BY <1>1, <1>3, <2>4 DEF IsLastButOne
  <1> HIDE DEF left
  <1> QED
    BY <1>1, <1>2, <1>4, RemovalKeeps

LEMMA ServerDeletesKeeps ==
    ASSUME CopiesAreListed, DInv, NEW call \in calls, Duplicates!ServerDeletes(call)
    PROVE  DInv'
  <1>1. /\ call.kind = "delete" /\ call.answer.status = "awaited"
        /\ UNCHANGED << ignoredPaths, scan, status, statusCalls, tab, sortDir, hideEmpty, view >>
    BY DEF Duplicates!ServerDeletes, Duplicates!IsAsked
  <1>2. CASE ~Duplicates!CanDelete(call.path)
    <2>1. Duplicates!Answer(call, Duplicates!Refused) /\ UNCHANGED << disk, reported >>
      BY <1>2 DEF Duplicates!ServerDeletes
    <2>2. Duplicates!Refused.status # "ok"
      BY DEF Duplicates!Refused
    <2> QED
      BY <1>1, <2>1, <2>2, AnswerKeeps DEF IsScan
  <1>3. CASE Duplicates!CanDelete(call.path)
    <2> DEFINE answer == [status |-> "ok", plan |-> Duplicates!PlanFor(call.path)]
               d == [call EXCEPT !.answer = answer]
    <2>1. /\ disk' = disk \ { call.path }
          /\ reported' = Duplicates!Repaired(reported \ { call.path })
          /\ Duplicates!Answer(call, answer)
      BY <1>3 DEF Duplicates!ServerDeletes
    <2>2. reported' \subseteq reported /\ disk' \subseteq disk
      BY <2>1, RepairedAreOfThem
    <2>3. /\ DOMAIN d = CallFields /\ d.kind = call.kind /\ d.key = call.key /\ d.path = call.path
          /\ d.paths = call.paths /\ d.answer = answer
      BY CallIsAnswered DEF DInv, DuplicatesAreShaped, IsCall
    <2>4. ASSUME call.from = "dialog"
          PROVE  IsLastButOne(d) \/ call.paths \ { call.path } = Duplicates!Copies(call.key)'
      <3>1. /\ call.paths = Duplicates!Copies(call.key)
            /\ call.path \in Duplicates!Copies(call.key) /\ ContentOf[call.path] = call.key
        BY <1>1, <2>4, DialogAsksForACopy
      <3> DEFINE remaining == Duplicates!Cardinality(Duplicates!Copies(call.key)) - 1
      <3>2. remaining < 2 \/ call.paths \ { call.path } = Duplicates!Copies(call.key)'
        BY <2>1, <3>1, CopiesLeft DEF DInv, DuplicatesAreShaped
      <3>3. Duplicates!PlanFor(call.path).groupDisappears <=> remaining < 2
        BY <3>1 DEF Duplicates!PlanFor
      <3>4. answer.plan = Duplicates!PlanFor(call.path)
        OBVIOUS
      <3> HIDE DEF d, answer, remaining
      <3>5. d.kind = "delete" /\ d.answer.plan = Duplicates!PlanFor(call.path)
        BY <1>1, <2>3, <3>4
      <3>6. IsLastButOne(d) <=> Duplicates!PlanFor(call.path).groupDisappears
        BY <3>5 DEF IsLastButOne
      <3> QED
        BY <2>3, <3>2, <3>3, <3>6
    <2>5. answer.status = "ok"
      OBVIOUS
    <2> HIDE DEF answer
    <2> QED
      BY <1>1, <2>1, <2>2, <2>4, <2>5, RemovalKeeps
  <1> QED
    BY <1>2, <1>3

LEMMA ServerBeginsKeeps ==
    ASSUME CopiesAreListed, DInv, NEW call \in calls,
           Duplicates!ServerScans(call) \/ Duplicates!ServerRefreshes(call)
    PROVE  DInv'
  <1>1. /\ IsScan(call) /\ call.answer.status = "awaited" /\ Duplicates!Begins(call)
        /\ UNCHANGED << disk, ignoredPaths, status, statusCalls, tab, sortDir, hideEmpty, view >>
        /\ scan' = scan => reported' = reported
        /\ reported' \subseteq reported
    BY DEF Duplicates!ServerScans, Duplicates!ServerRefreshes, Duplicates!IsAsked, IsScan
  <1>2. CASE Duplicates!IsRunning \/ Duplicates!IsIgnored(call.path)
    <2>1. Duplicates!Answer(call, Duplicates!Refused) /\ scan' = scan
      BY <1>1, <1>2 DEF Duplicates!Begins
    <2>2. Duplicates!Refused.status # "ok"
      BY DEF Duplicates!Refused
    <2>3. reported' = reported
      BY <1>1, <2>1
    <2>4. call.kind \notin { "effect", "load", "expand", "occurrences" }
      BY <1>1 DEF IsScan
    <2> QED
      BY <1>1, <2>1, <2>2, <2>3, <2>4, AnswerKeeps
  <1>3. CASE ~(Duplicates!IsRunning \/ Duplicates!IsIgnored(call.path))
    BY <1>1, <1>3, BeginKeeps DEF Duplicates!Begins
  <1> QED
    BY <1>2, <1>3

LEMMA ServerStopsKeeps ==
    ASSUME CopiesAreListed, DInv, NEW call \in calls, Duplicates!ServerStops(call)
    PROVE  DInv'
  <1>1. /\ call.kind = "stop" /\ call.answer.status = "awaited"
        /\ Duplicates!Answer(call, Duplicates!Done)
        /\ UNCHANGED << disk, ignoredPaths, reported, status, statusCalls, tab, sortDir,
                        hideEmpty, view >>
        /\ scan' = [scan EXCEPT !.isStopping = Duplicates!IsRunning]
    BY DEF Duplicates!ServerStops, Duplicates!IsAsked
  <1>2. scan'.state = scan.state /\ scan'.kind = scan.kind /\ DOMAIN scan' = DOMAIN scan
    BY <1>1 DEF DInv, DuplicatesAreShaped
  <1> QED
    BY <1>1, <1>2, AnswerKeeps DEF IsScan

LEMMA RunEndsKeeps ==
    ASSUME CopiesAreListed, DInv, NEW found \in SUBSET disk, Duplicates!RunEnds(found)
    PROVE  DInv'
  <1>1. /\ Duplicates!IsRunning
        /\ UNCHANGED << disk, ignoredPaths, status, statusCalls, tab, sortDir, hideEmpty, view, calls >>
        /\ DOMAIN scan' = { "state", "kind", "isStopping" } /\ scan'.state # "running"
    BY DEF Duplicates!RunEnds, Duplicates!page
  <1>2. reported' \subseteq Duplicates!Files
    BY RepairedAreOfThem DEF Duplicates!RunEnds, DInv, DuplicatesAreShaped
  <1> QED
    BY <1>1, <1>2, RunEndKeeps

-----------------------------------------------------------------------------
(* Answers arrive. *)

\* What the page changes of its own state matters by its query, by its listing, and by
\* the dialog.
LEMMA QueryStays ==
    ASSUME UNCHANGED << tab, sortDir, hideEmpty >>, view'.at = view.at, view'.page = view.page
    PROVE  Duplicates!ThisQuery' = Duplicates!ThisQuery
  BY DEF Duplicates!ThisQuery, Duplicates!Query

LEMMA ServerUnchanged ==
    ASSUME UNCHANGED << reported, ignoredPaths, scan >>,
           Duplicates!ThisQuery' = Duplicates!ThisQuery
    PROVE  /\ CurrentListing' = CurrentListing
           /\ \A g : Duplicates!Copies(g)' = Duplicates!Copies(g)
  BY CurrentListingStays, CopiesUnchanged

LEMMA StatusIsAsked ==
    \A kind : LET s == Duplicates!StatusCall(kind)
              IN  /\ DOMAIN s = { "kind", "isAnswered", "value" }
                  /\ s.kind = kind /\ ~s.isAnswered
  BY DEF Duplicates!StatusCall

LEMMA ListingArrivesKeepsResults ==
    ASSUME CopiesAreListed, DInv, NEW call \in calls, Duplicates!ListingArrives(call)
    PROVE  DInv'
  <1>1. /\ call.kind \in { "effect", "load" } /\ call.answer.status = "ok"
        /\ calls' = calls \ { call }
        /\ view' = IF call.isHeard THEN [view EXCEPT !.data = call.answer] ELSE view
        /\ statusCalls' = IF call.kind = "load" /\ call.from = "tab"
                          THEN statusCalls \cup { Duplicates!StatusCall("changed") }
                          ELSE statusCalls
        /\ UNCHANGED << disk, ignoredPaths, reported, scan, status, tab, sortDir, hideEmpty >>
    BY DEF Duplicates!ListingArrives, Duplicates!IsOk, Duplicates!Rest, Duplicates!server
  <1>2. /\ DOMAIN view' = ViewFields /\ view'.page = view.page /\ view'.at = view.at
        /\ view'.target = view.target /\ view'.result = view.result
        /\ call.isHeard => view'.data = call.answer
        /\ ~call.isHeard => view'.data = view.data
    BY <1>1 DEF DInv, DuplicatesAreShaped, ViewFields
  <1>3. /\ Duplicates!ThisQuery' = Duplicates!ThisQuery /\ CurrentListing' = CurrentListing
        /\ \A g : Duplicates!Copies(g)' = Duplicates!Copies(g)
        /\ Duplicates!IsOpen' = Duplicates!IsOpen
    BY <1>1, <1>2, QueryStays, ServerUnchanged DEF Duplicates!IsOpen
  <1>4. call.kind = "effect" => call.from = "tab" /\ call.isHeard
    BY DEF DInv, DuplicatesAreShaped, IsCall
  <1>5. statusCalls' # statusCalls =>
            /\ call.kind = "load" /\ call.from = "tab"
            /\ \A c \in calls : ~IsScan(c) /\ c.from # "dialog"
            /\ ~Duplicates!IsOpen
    BY <1>1 DEF DInv, CallsAreAlone, DialogIsRight, IsQuietBut, IsScan
  <1>6. /\ \A s \in statusCalls' : s \in statusCalls \/
                (s.kind = "changed" /\ ~s.isAnswered
                    /\ DOMAIN s = { "kind", "isAnswered", "value" })
        /\ \A s \in statusCalls : s \in statusCalls'
        /\ call.kind = "load" /\ call.from = "tab" =>
                \E s \in statusCalls' : s.kind = "changed"
    BY <1>1, StatusIsAsked
  <1>7. TickIsDue => TickIsDue'
    BY <1>1, <1>6 DEF TickIsDue, HasBegun, HasRemoved, IsScan
  <1>8. DuplicatesAreShaped'
    BY <1>1, <1>2, <1>6 DEF DInv, DuplicatesAreShaped, IsCall
  <1>9. CallsAreAlone'
    <2>1. \A c \in calls' : c \in calls /\ c # call
      BY <1>1
    <2>2. ASSUME NEW c \in calls', IsScan(c) \/ c.from = "dialog"
          PROVE FALSE
      BY <1>1, <2>1, <2>2 DEF DInv, CallsAreAlone, IsQuietBut
    <2> QED
      BY <2>1, <2>2 DEF DInv, CallsAreAlone, IsScan
  <1>10. RunIsKnown'
    BY <1>1, <1>6 DEF DInv, RunIsKnown, HasBegun, IsScan
  <1>11. ResultsAreFresh'
    <2>1. Duplicates!HasResults(status) => view'.data = CurrentListing \/ TickIsDue' \/ ListingIsDue'
      <3>1. CASE call.kind = "effect"
        BY <1>1, <1>2, <1>4, <1>7, <3>1 DEF DInv, ResultsAreFresh
      <3>2. CASE call.kind = "load" /\ call.from = "tab"
        BY <1>6, <3>2 DEF TickIsDue
      <3>3. CASE call.kind = "load" /\ call.from # "tab" /\ call.isHeard
        BY <1>1, <1>2, <3>3 DEF DInv, ResultsAreFresh
      <3>4. CASE call.kind = "load" /\ ~call.isHeard
        <4>1. ListingIsDue => ListingIsDue'
          BY <1>1, <3>4 DEF ListingIsDue, HasRemoved
        <4> QED
          BY <1>2, <1>7, <3>4, <4>1 DEF DInv, ResultsAreFresh
      <3> QED
        BY <1>1, <3>1, <3>2, <3>3, <3>4
    <2> QED
      BY <1>1, <1>3, <1>7, <2>1 DEF DInv, ResultsAreFresh
  <1>12. ExpansionsAreRight'
    BY <1>1, <1>3 DEF DInv, ExpansionsAreRight
  <1>13. DialogIsRight'
    <2>1. \A c \in calls : c.kind \in { "occurrences", "ignore", "delete" } => c.kind # call.kind
      BY <1>1
    <2>2. ResultIsRight => ResultIsRight'
      BY <1>2, <1>3 DEF ResultIsRight
    <2>3. Duplicates!IsOpen => statusCalls' = {}
      BY <1>5 DEF DInv, DialogIsRight
    <2>4. /\ Duplicates!IsOpen =>
                ResultIsRight' \/ \E c \in calls' : c.kind = "occurrences" \/ HasRemoved(c)
          /\ \A c \in calls' : c \in calls
      BY <1>1, <2>2 DEF DInv, DialogIsRight, HasRemoved
    <2>5. \A c \in calls' : IsLastButOne(c)' = IsLastButOne(c) /\ HasRemoved(c)' = HasRemoved(c)
      BY DEF IsLastButOne, HasRemoved
    <2> QED
      BY <1>1, <1>2, <1>3, <2>3, <2>4, <2>5 DEF DInv, DialogIsRight
  <1> QED
    BY <1>8, <1>9, <1>10, <1>11, <1>12, <1>13 DEF DInv

\* The listing that is to come after a call: of the same query, heard as it was.
LEMMA LoadIsAsked ==
    ASSUME NEW call, NEW from
    PROVE  LET d == [Duplicates!LoadAfter(call) EXCEPT !.from = from]
           IN  /\ DOMAIN Duplicates!LoadAfter(call) = CallFields
               /\ Duplicates!LoadAfter(call).kind = "load"
               /\ Duplicates!LoadAfter(call).from = call.from
               /\ Duplicates!LoadAfter(call).query = call.query
               /\ Duplicates!LoadAfter(call).isHeard = call.isHeard
               /\ Duplicates!LoadAfter(call).answer.status = "awaited"
               /\ DOMAIN d = CallFields /\ d.kind = "load" /\ d.from = from
               /\ d.query = call.query /\ d.isHeard = call.isHeard
               /\ d.answer.status = "awaited"
  BY DEF Duplicates!LoadAfter, Duplicates!Call, CallFields

\* Of the tab, a call comes back, and what is shown is not the listing's: a load may
\* take its place.
LEMMA TabHearsKeeps ==
    ASSUME CopiesAreListed, DInv, NEW call \in calls, call.kind # "effect",
           call.from = "tab", ~IsScan(call), call.kind # "load",
           NEW more, calls' = (calls \ { call }) \cup more,
           \A c \in more : /\ DOMAIN c = CallFields /\ c.kind = "load"
                           /\ c.query = call.query /\ c.isHeard = call.isHeard
                           /\ c.answer.status = "awaited"
                           /\ c.from \in { "tab", "expansion" }
                           /\ c.from = "expansion" /\ c.isHeard => scan.state # "running"
                           /\ \A d \in more : c = d,
           HasRemoved(call) => \E c \in more : c.from = "tab",
           DOMAIN view' = ViewFields, view'.page = view.page, view'.at = view.at,
           view'.target = view.target, view'.result = view.result, view'.data = view.data,
           UNCHANGED << disk, ignoredPaths, reported, scan, status, statusCalls, tab, sortDir,
                        hideEmpty >>
    PROVE  DInv'
  <1>1. /\ Duplicates!ThisQuery' = Duplicates!ThisQuery /\ CurrentListing' = CurrentListing
        /\ \A g : Duplicates!Copies(g)' = Duplicates!Copies(g)
        /\ Duplicates!IsOpen' = Duplicates!IsOpen
    BY QueryStays, ServerUnchanged DEF Duplicates!IsOpen
  <1>2. \A c \in calls' : c \in more \/ (c \in calls /\ c # call /\ c.kind = "effect")
    BY DEF DInv, CallsAreAlone
  <1>3. ~Duplicates!IsOpen /\ \A c \in calls : c.from # "dialog" /\ ~IsScan(c)
    BY DEF DInv, DialogIsRight, CallsAreAlone, IsQuietBut
  <1>4. \A c \in calls' : c.from # "dialog" /\ ~IsScan(c) /\ c.kind \in { "effect", "load" }
    BY <1>2, <1>3 DEF IsScan
  <1>5. TickIsDue => TickIsDue'
    BY DEF TickIsDue, HasBegun, HasRemoved, IsScan
  <1>6. ListingIsDue => ListingIsDue'
    BY DEF ListingIsDue
  <1>7. DuplicatesAreShaped'
    BY <1>2 DEF DInv, DuplicatesAreShaped, IsCall
  <1>8. CallsAreAlone'
    <2>1. \A c, d \in calls' : (c.kind = "effect") = (d.kind = "effect") => c = d
      BY <1>2 DEF DInv, CallsAreAlone
    <2> QED
      BY <1>4, <2>1 DEF CallsAreAlone, IsScan
  <1>9. RunIsKnown'
    BY DEF DInv, RunIsKnown, HasBegun, IsScan
  <1>10. ResultsAreFresh'
    BY <1>1, <1>2, <1>5, <1>6 DEF DInv, ResultsAreFresh
  <1>11. ExpansionsAreRight'
    BY <1>2 DEF ExpansionsAreRight
  <1>12. DialogIsRight'
    BY <1>1, <1>3, <1>4 DEF DialogIsRight
  <1> QED
    BY <1>7, <1>8, <1>9, <1>10, <1>11, <1>12 DEF DInv

\* Of the dialog, which is alone, a call comes back, and perhaps it lists again.
LEMMA DialogHearsKeeps ==
    ASSUME CopiesAreListed, DInv, NEW call \in calls, call.from = "dialog",
           NEW more, calls' = more,
           \A c \in more : /\ DOMAIN c = CallFields /\ c.kind = "load" /\ c.from = "dialog"
                           /\ c.query = call.query /\ c.isHeard
                           /\ c.answer.status = "awaited"
                           /\ \A d \in more : c = d,
           call.kind = "load" => view'.data = call.answer /\ call.answer.status = "ok",
           call.kind # "load" => view'.data = view.data,
           HasRemoved(call) => more # {},
           DOMAIN view' = ViewFields, view'.page = view.page, view'.at = view.at,
           view'.result.failed => view'.result.paths = {},
           view'.target = view.target \/ view'.target = Duplicates!NoTarget,
           Duplicates!IsOpen' => ResultIsRight',
           UNCHANGED << disk, ignoredPaths, reported, scan, status, statusCalls, tab, sortDir,
                        hideEmpty >>
    PROVE  DInv'
  <1>1. Duplicates!ThisQuery' = Duplicates!ThisQuery /\ CurrentListing' = CurrentListing
    BY QueryStays, ServerUnchanged
  <1>2. /\ calls = { call } /\ statusCalls = {} /\ status.state # "running"
        /\ scan.state # "running" /\ call.isHeard
    BY DEF DInv, CallsAreAlone, IsQuietBut
  <1>3. Duplicates!IsOpen' => Duplicates!IsOpen /\ view'.target = view.target
    BY DEF Duplicates!IsOpen
  <1>4. \A c \in calls' : c.kind = "load" /\ ~IsScan(c)
    BY DEF IsScan
  <1>5. TickIsDue => TickIsDue'
    BY <1>2 DEF TickIsDue, HasBegun, IsScan, DInv, DuplicatesAreShaped, IsCall
  <1>6. DuplicatesAreShaped'
    BY <1>4 DEF DInv, DuplicatesAreShaped, IsCall
  <1>7. CallsAreAlone'
    <2>1. \A c \in calls' : calls' = { c }
      OBVIOUS
    <2> QED
      BY <1>2, <1>4, <2>1 DEF CallsAreAlone, IsScan, IsQuietBut
  <1>8. RunIsKnown'
    BY <1>2 DEF DInv, RunIsKnown, HasBegun, IsScan, DuplicatesAreShaped, IsCall
  <1>9. ResultsAreFresh'
    <2>1. Duplicates!HasResults(status) => view'.data = CurrentListing \/ TickIsDue' \/ ListingIsDue'
      <3>1. CASE more # {}
        BY <3>1 DEF ListingIsDue
      <3>2. CASE call.kind = "load"
        BY <1>2, <3>2 DEF DInv, ResultsAreFresh
      <3>3. CASE call.kind # "load" /\ ~HasRemoved(call)
        <4>1. ~ListingIsDue
          BY <1>2, <3>3 DEF ListingIsDue, DInv, DuplicatesAreShaped, IsCall
        <4> QED
          BY <1>5, <3>3, <4>1 DEF DInv, ResultsAreFresh
      <3> QED
        BY <3>1, <3>2, <3>3
    <2> QED
      BY <1>1, <1>2, <1>4, <2>1 DEF DInv, ResultsAreFresh
  <1>10. ExpansionsAreRight'
    BY <1>2, <1>4 DEF ExpansionsAreRight
  <1>11. DialogIsRight'
    BY <1>3, <1>4 DEF DInv, DialogIsRight
  <1> QED
    BY <1>6, <1>7, <1>8, <1>9, <1>10, <1>11 DEF DInv

LEMMA OccurrencesArriveKeeps ==
    ASSUME CopiesAreListed, DInv, NEW call \in calls, Duplicates!OccurrencesArrive(call)
    PROVE  DInv'
  <1> DEFINE paths == IF Duplicates!IsOk(call) THEN call.answer.paths ELSE {}
             result == [key |-> call.key, paths |-> paths, failed |-> ~Duplicates!IsOk(call)]
             load == [Duplicates!LoadAfter(call) EXCEPT !.from = "expansion"]
             more == IF call.kind = "expand" /\ ~Duplicates!IsOk(call) THEN { load } ELSE {}
  <1>1. /\ call.kind \in { "expand", "occurrences" } /\ call.answer.status # "awaited"
        /\ calls' = (calls \ { call }) \cup more
        /\ UNCHANGED << disk, ignoredPaths, reported, scan, status, statusCalls, tab, sortDir,
                        hideEmpty >>
    BY DEF Duplicates!OccurrencesArrive, Duplicates!Rest, Duplicates!server
  <1>2. CASE call.kind = "expand"
    <2>1. /\ DOMAIN load = CallFields /\ load.kind = "load" /\ load.query = call.query
          /\ load.isHeard = call.isHeard /\ load.answer.status = "awaited"
          /\ load.from = "expansion"
      BY LoadIsAsked
    <2>2. call.from = "tab" /\ ~IsScan(call) /\ ~HasRemoved(call)
      BY <1>2 DEF DInv, DuplicatesAreShaped, IsCall, IsScan, HasRemoved
    <2>3. \/ view' = view
          \/ \E expanded : view' = [view EXCEPT !.expanded = expanded]
      BY <1>2 DEF Duplicates!OccurrencesArrive
    <2>4. /\ DOMAIN view' = ViewFields /\ view'.page = view.page /\ view'.at = view.at
          /\ view'.target = view.target /\ view'.result = view.result /\ view'.data = view.data
      BY <2>3 DEF DInv, DuplicatesAreShaped, ViewFields
    <2>5. call.answer.status # "ok" /\ call.isHeard => scan.state # "running"
      BY <1>1, <1>2 DEF DInv, ExpansionsAreRight
    <2> HIDE DEF load
    <2>6. \A c \in more : /\ DOMAIN c = CallFields /\ c.kind = "load"
                          /\ c.query = call.query /\ c.isHeard = call.isHeard
                          /\ c.answer.status = "awaited" /\ c.from = "expansion"
                          /\ c.isHeard => scan.state # "running"
                          /\ \A d \in more : c = d
      BY <2>1, <2>5 DEF Duplicates!IsOk
    <2> HIDE DEF more
    <2> QED
      BY <1>1, <1>2, <2>2, <2>4, <2>6, TabHearsKeeps
  <1>3. CASE call.kind = "occurrences"
    <2>1. call.from = "dialog" /\ ~HasRemoved(call)
      BY <1>3 DEF DInv, DuplicatesAreShaped, IsCall, HasRemoved
    <2>2. calls = { call } /\ call.isHeard
      BY <2>1 DEF DInv, CallsAreAlone, IsQuietBut
    <2>3. calls' = {}
      BY <1>1, <1>3, <2>2
    <2>4. view' = [view EXCEPT !.result = result]
      BY <1>3, <2>2 DEF Duplicates!OccurrencesArrive
    <2>5. /\ result.key = call.key
          /\ result.failed => result.paths = {}
          /\ result.failed <=> call.answer.status # "ok"
          /\ call.answer.status = "ok" => result.paths = call.answer.paths
      BY DEF Duplicates!IsOk
    <2> HIDE DEF result
    <2>6. /\ DOMAIN view' = ViewFields /\ view'.page = view.page /\ view'.at = view.at
          /\ view'.target = view.target /\ view'.result = result /\ view'.data = view.data
      BY <2>4 DEF DInv, DuplicatesAreShaped, ViewFields
    <2>7. ResultIsRight'
      <3>1. /\ call.key = view.target.key
            /\ call.answer.status = "ok" => call.answer.paths = Duplicates!Copies(call.key)
        BY <1>3 DEF DInv, DialogIsRight
      <3>2. \A g : Duplicates!Copies(g)' = Duplicates!Copies(g)
        BY <1>1, CopiesUnchanged
      <3> QED
        BY <2>5, <2>6, <3>1, <3>2 DEF ResultIsRight
    <2> QED
      BY <1>1, <1>3, <2>1, <2>3, <2>5, <2>6, <2>7, DialogHearsKeeps
  <1> QED
    BY <1>1, <1>2, <1>3

LEMMA IgnoreArrivesKeeps ==
    ASSUME CopiesAreListed, DInv, NEW call \in calls, Duplicates!IgnoreArrives(call)
    PROVE  DInv'
  <1> DEFINE more == { Duplicates!LoadAfter(call) }
  <1>1. /\ call.kind = "ignore" /\ call.from = "tab" /\ ~IsScan(call)
        /\ calls' = (calls \ { call }) \cup more
        /\ UNCHANGED << disk, ignoredPaths, reported, scan, status, statusCalls, tab, sortDir,
                        hideEmpty >>
        /\ view' = view \/ \E expanded : view' = [view EXCEPT !.expanded = expanded]
    BY DEF Duplicates!IgnoreArrives, Duplicates!Rest, Duplicates!server, IsScan
  <1>2. /\ DOMAIN view' = ViewFields /\ view'.page = view.page /\ view'.at = view.at
        /\ view'.target = view.target /\ view'.result = view.result /\ view'.data = view.data
    BY <1>1 DEF DInv, DuplicatesAreShaped, ViewFields
  <1>3. /\ \A c \in more : /\ DOMAIN c = CallFields /\ c.kind = "load"
                           /\ c.query = call.query /\ c.isHeard = call.isHeard
                           /\ c.answer.status = "awaited" /\ c.from = "tab"
                           /\ \A d \in more : c = d
        /\ \E c \in more : c.from = "tab"
    BY <1>1, LoadIsAsked
  <1> HIDE DEF more
  <1> QED
    BY <1>1, <1>2, <1>3, TabHearsKeeps

LEMMA PlanArrivesKeeps ==
    ASSUME CopiesAreListed, DInv, NEW call \in calls, Duplicates!PlanArrives(call)
    PROVE  DInv'
  <1>1. /\ call.kind = "plan" /\ calls' = calls \ { call }
        /\ UNCHANGED << disk, ignoredPaths, reported, scan, status, statusCalls, tab, sortDir,
                        hideEmpty >>
        /\ view' = view \/ \E plan : view' = [view EXCEPT !.plan = plan]
    BY DEF Duplicates!PlanArrives, Duplicates!Rest, Duplicates!server
  <1>2. /\ DOMAIN view' = ViewFields /\ view'.page = view.page /\ view'.at = view.at
        /\ view'.target = view.target /\ view'.result = view.result /\ view'.data = view.data
    BY <1>1 DEF DInv, DuplicatesAreShaped, ViewFields
  <1>3. call.from = "dialog" /\ ~HasRemoved(call)
    BY <1>1 DEF DInv, DuplicatesAreShaped, IsCall, HasRemoved
  <1>4. calls = { call } /\ calls' = {}
    BY <1>1, <1>3 DEF DInv, CallsAreAlone, IsQuietBut
  <1>5. Duplicates!IsOpen' => ResultIsRight'
    <2>1. Duplicates!IsOpen => ResultIsRight
      BY <1>1, <1>3, <1>4 DEF DInv, DialogIsRight
    <2>2. Duplicates!IsOpen' = Duplicates!IsOpen
      BY <1>2 DEF Duplicates!IsOpen
    <2>3. \A g : Duplicates!Copies(g)' = Duplicates!Copies(g)
      BY <1>1, CopiesUnchanged
    <2> QED
      BY <1>2, <2>1, <2>2, <2>3 DEF ResultIsRight
  <1>6. view.result.failed => view.result.paths = {}
    BY DEF DInv, DuplicatesAreShaped
  <1> QED
    BY <1>1, <1>2, <1>3, <1>4, <1>5, <1>6, DialogHearsKeeps

LEMMA RemovalArrivesKeeps ==
    ASSUME CopiesAreListed, DInv, NEW call \in calls, Duplicates!RemovalArrives(call)
    PROVE  DInv'
  <1>1. /\ call.kind \in { "ignore", "delete" } /\ call.from = "dialog"
        /\ UNCHANGED << disk, ignoredPaths, reported, scan, status, statusCalls, tab, sortDir,
                        hideEmpty >>
    BY DEF Duplicates!RemovalArrives, Duplicates!server
  <1>2. calls = { call } /\ call.isHeard
    BY <1>1 DEF DInv, CallsAreAlone, IsQuietBut
  <1>3. /\ HasRemoved(call) <=> Duplicates!IsOk(call)
        /\ \A g : Duplicates!Copies(g)' = Duplicates!Copies(g)
        /\ view.result.failed => view.result.paths = {}
        /\ DOMAIN view = ViewFields
    BY <1>1, CopiesUnchanged DEF HasRemoved, Duplicates!IsOk, DInv, DuplicatesAreShaped
  <1>4. CASE ~Duplicates!IsOk(call)
    <2>1. calls' = {} /\ view' = view
      BY <1>2, <1>4 DEF Duplicates!RemovalArrives, Duplicates!Rest
    <2>2. Duplicates!IsOpen' => ResultIsRight'
      <3>1. Duplicates!IsOpen => ResultIsRight
        BY <1>1, <1>2, <1>3, <1>4 DEF DInv, DialogIsRight
      <3> QED
        BY <1>3, <2>1, <3>1 DEF ResultIsRight, Duplicates!IsOpen
    <2> QED
      BY <1>1, <1>3, <1>4, <2>1, <2>2, DialogHearsKeeps
  <1>5. CASE Duplicates!IsOk(call)
    <2> DEFINE more == { Duplicates!LoadAfter(call) }
               left == call.paths \ { call.path }
               result == [key |-> call.key, paths |-> left, failed |-> FALSE]
    <2>1. calls' = more
      BY <1>2, <1>5 DEF Duplicates!RemovalArrives, Duplicates!Rest, Duplicates!Without
    <2>2. \A c \in more : /\ DOMAIN c = CallFields /\ c.kind = "load" /\ c.from = "dialog"
                          /\ c.query = call.query /\ c.isHeard
                          /\ c.answer.status = "awaited" /\ \A d \in more : c = d
      BY <1>1, <1>2, LoadIsAsked
    <2>3. view' = Duplicates!AfterRemoval(call, IsLastButOne(call))
      BY <1>1, <1>2, <1>5 DEF Duplicates!RemovalArrives, IsLastButOne
    <2>4. more # {}
      OBVIOUS
    <2> HIDE DEF more
    <2>5. CASE IsLastButOne(call)
      <3>1. view' = [view EXCEPT !.plan = Duplicates!NoPlan, !.target = Duplicates!NoTarget]
        BY <2>3, <2>5 DEF Duplicates!AfterRemoval
      <3>2. /\ DOMAIN view' = ViewFields /\ view'.page = view.page /\ view'.at = view.at
            /\ view'.target = Duplicates!NoTarget /\ view'.result = view.result
            /\ view'.data = view.data
        BY <1>3, <3>1 DEF ViewFields
      <3>3. ~Duplicates!IsOpen'
        BY <3>2 DEF Duplicates!IsOpen
      <3> QED
        BY <1>1, <1>3, <2>1, <2>2, <2>4, <3>2, <3>3, DialogHearsKeeps
    <2>6. CASE ~IsLastButOne(call)
      <3>1. view' = [view EXCEPT !.plan = Duplicates!NoPlan, !.result = result]
        BY <2>3, <2>6 DEF Duplicates!AfterRemoval
      <3>2. result.key = call.key /\ result.paths = left /\ ~result.failed
        OBVIOUS
      <3> HIDE DEF result
      <3>3. /\ DOMAIN view' = ViewFields /\ view'.page = view.page /\ view'.at = view.at
            /\ view'.target = view.target /\ view'.result = result
            /\ view'.data = view.data
        BY <1>3, <3>1 DEF ViewFields
      <3>4. ResultIsRight'
        <4>1. call.key = view.target.key /\ left = Duplicates!Copies(call.key)
          BY <1>1, <1>3, <1>5, <2>6 DEF DInv, DialogIsRight
        <4> QED
          BY <1>3, <3>2, <3>3, <4>1 DEF ResultIsRight
      <3> QED
        BY <1>1, <1>3, <2>1, <2>2, <2>4, <3>2, <3>3, <3>4, DialogHearsKeeps
    <2> QED
      BY <2>5, <2>6
  <1> QED
    BY <1>4, <1>5

LEMMA RunAnswerKeeps ==
    ASSUME CopiesAreListed, DInv, NEW call \in calls, Duplicates!RunAnswerArrives(call)
    PROVE  DInv'
  <1> DEFINE kind == IF call.kind = "scan" THEN "started" ELSE "changed"
             more == IF call.kind = "rescan" /\ ~Duplicates!IsOk(call) THEN {}
                     ELSE { Duplicates!StatusCall(kind) }
  <1>1. /\ call.kind \in { "scan", "stop", "rescan" } /\ calls' = calls \ { call }
        /\ statusCalls' = statusCalls \cup more
        /\ UNCHANGED << disk, ignoredPaths, reported, scan, status, tab, sortDir, hideEmpty, view >>
    BY DEF Duplicates!RunAnswerArrives, Duplicates!Rest, Duplicates!server
  <1>2. /\ \A s \in more : /\ DOMAIN s = { "kind", "isAnswered", "value" }
                           /\ s.kind # "poll" /\ ~s.isAnswered
        /\ HasBegun(call) => more # {}
    BY StatusIsAsked DEF HasBegun, Duplicates!IsOk
  <1> HIDE DEF more
  <1>3. /\ Duplicates!ThisQuery' = Duplicates!ThisQuery /\ CurrentListing' = CurrentListing
        /\ \A g : Duplicates!Copies(g)' = Duplicates!Copies(g)
        /\ Duplicates!IsOpen' = Duplicates!IsOpen
    BY <1>1, PageUnchanged, ServerUnchanged
  <1>4. call.from \in { "page", "tab" }
    BY <1>1 DEF DInv, DuplicatesAreShaped, IsCall
  <1>5. ~Duplicates!IsOpen /\ \A c \in calls : c.from # "dialog"
    BY <1>4 DEF DInv, DialogIsRight, CallsAreAlone, IsQuietBut
  <1>6. TickIsDue => TickIsDue'
    BY <1>1, <1>2 DEF TickIsDue, HasRemoved
  <1>7. ListingIsDue => ListingIsDue'
    BY <1>1, <1>5 DEF ListingIsDue
  <1>8. DuplicatesAreShaped'
    BY <1>1, <1>2 DEF DInv, DuplicatesAreShaped, IsCall
  <1>9. CallsAreAlone'
    <2>1. \A c \in calls' : c \in calls /\ c # call /\ c.from # "dialog"
      BY <1>1, <1>5
    <2>2. \A c \in calls' : ~IsScan(c)
      BY <2>1 DEF DInv, CallsAreAlone, IsQuietBut
    <2> QED
      BY <2>1, <2>2 DEF DInv, CallsAreAlone, IsScan
  <1>10. RunIsKnown'
    BY <1>1, <1>2 DEF DInv, RunIsKnown
  <1>11. ResultsAreFresh'
    BY <1>1, <1>3, <1>6, <1>7 DEF DInv, ResultsAreFresh
  <1>12. ExpansionsAreRight'
    BY <1>1, <1>3 DEF DInv, ExpansionsAreRight
  <1>13. DialogIsRight'
    <2>1. \A c \in calls' : c.from # "dialog" /\ c.kind # "occurrences"
      BY <1>1, <1>5 DEF DInv, DuplicatesAreShaped, IsCall
    <2> QED
      BY <1>3, <1>5, <2>1 DEF DialogIsRight
  <1> QED
    BY <1>8, <1>9, <1>10, <1>11, <1>12, <1>13 DEF DInv

\* Of the status, calls are sent and answered, none is taken back.
LEMMA StatusCallsKeep ==
    ASSUME CopiesAreListed, DInv, statusCalls # {} \/ status.state = "running",
           \A s \in statusCalls' : /\ DOMAIN s = { "kind", "isAnswered", "value" }
                                   /\ s.kind = "poll" => status.state = "running"
                                   /\ s.isAnswered => s.value.state \in { scan.state, "running" },
           (\E s \in statusCalls : s.kind # "poll") => \E s \in statusCalls' : s.kind # "poll",
           UNCHANGED << disk, ignoredPaths, reported, scan, status, tab, sortDir, hideEmpty, view,
                        calls >>
    PROVE  DInv'
  <1>1. /\ Duplicates!ThisQuery' = Duplicates!ThisQuery /\ CurrentListing' = CurrentListing
        /\ \A g : Duplicates!Copies(g)' = Duplicates!Copies(g)
        /\ Duplicates!IsOpen' = Duplicates!IsOpen
    BY PageUnchanged, ServerUnchanged
  <1>2. ~Duplicates!IsOpen /\ \A c \in calls : c.from # "dialog" /\ ~IsScan(c)
    BY DEF DInv, DialogIsRight, CallsAreAlone, IsQuietBut
  <1>3. TickIsDue => TickIsDue'
    BY DEF TickIsDue
  <1>4. ListingIsDue' = ListingIsDue
    BY DEF ListingIsDue
  <1>5. DuplicatesAreShaped' /\ RunIsKnown'
    BY DEF DInv, DuplicatesAreShaped, RunIsKnown, IsCall
  <1>6. CallsAreAlone'
    BY <1>2 DEF DInv, CallsAreAlone, IsScan
  <1>7. ResultsAreFresh'
    BY <1>1, <1>3, <1>4 DEF DInv, ResultsAreFresh
  <1>8. ExpansionsAreRight'
    BY <1>1 DEF DInv, ExpansionsAreRight
  <1>9. DialogIsRight'
    <2>1. \A c \in calls' : c.from # "dialog" /\ c.kind # "occurrences"
      BY <1>2 DEF DInv, DuplicatesAreShaped, IsCall
    <2> QED
      BY <1>1, <1>2, <2>1 DEF DialogIsRight
  <1> QED
    BY <1>5, <1>6, <1>7, <1>8, <1>9 DEF DInv

LEMMA PollKeepsResults ==
    ASSUME CopiesAreListed, DInv, Duplicates!Poll
    PROVE  DInv'
  <1>1. /\ status.state = "running"
        /\ statusCalls' = statusCalls \cup { Duplicates!StatusCall("poll") }
        /\ UNCHANGED << disk, ignoredPaths, reported, scan, status, tab, sortDir, hideEmpty, view,
                        calls >>
    BY DEF Duplicates!Poll, Duplicates!server
  <1>2. \A s \in statusCalls' : /\ DOMAIN s = { "kind", "isAnswered", "value" }
                                /\ s.kind = "poll" => status.state = "running"
                                /\ s.isAnswered => s.value.state \in { scan.state, "running" }
    BY <1>1, StatusIsAsked DEF DInv, DuplicatesAreShaped, RunIsKnown
  <1> QED
    BY <1>1, <1>2, StatusCallsKeep

LEMMA StatusIsReadKeeps ==
    ASSUME CopiesAreListed, DInv, NEW call \in statusCalls, Duplicates!StatusIsRead(call)
    PROVE  DInv'
  <1> DEFINE d == [call EXCEPT !.isAnswered = TRUE, !.value = Duplicates!ScanStatus]
  <1>1. /\ statusCalls' = (statusCalls \ { call }) \cup { d }
        /\ UNCHANGED << disk, ignoredPaths, reported, scan, status, tab, sortDir, hideEmpty, view,
                        calls >>
    BY DEF Duplicates!StatusIsRead, Duplicates!server
  <1>2. /\ DOMAIN d = { "kind", "isAnswered", "value" } /\ d.kind = call.kind
        /\ d.value = Duplicates!ScanStatus
    BY DEF DInv, DuplicatesAreShaped
  <1>3. Duplicates!ScanStatus.state = scan.state
    BY DEF Duplicates!ScanStatus
  <1> HIDE DEF d
  <1>4. \A s \in statusCalls' : /\ DOMAIN s = { "kind", "isAnswered", "value" }
                                /\ s.kind = "poll" => status.state = "running"
                                /\ s.isAnswered => s.value.state \in { scan.state, "running" }
    BY <1>1, <1>2, <1>3 DEF DInv, DuplicatesAreShaped, RunIsKnown
  <1> QED
    BY <1>1, <1>2, <1>4, StatusCallsKeep

\* An effect is of the tab, heard, and not yet answered.
LEMMA EffectIsAsked ==
    ASSUME NEW q
    PROVE  LET e == Duplicates!EffectFor(q)
           IN  /\ DOMAIN e = CallFields /\ e.kind = "effect" /\ e.from = "tab" /\ e.isHeard
               /\ e.query = q /\ e.answer.status = "awaited"
  BY DEF Duplicates!EffectFor, Duplicates!Call, CallFields

LEMMA BlankIsAView ==
    /\ DOMAIN Duplicates!Blank = ViewFields /\ Duplicates!Blank.page = 0
    /\ Duplicates!Blank.target = Duplicates!NoTarget
    /\ Duplicates!Blank.result.failed => Duplicates!Blank.result.paths = {}
  BY DEF Duplicates!Blank, Duplicates!NoResult, ViewFields

\* What is unmounted is heard by the page alone.
Muffled(b) == [b EXCEPT !.isHeard = b.from = "page"]

LEMMA UnmountedIsNotHeard ==
    ASSUME DuplicatesAreShaped
    PROVE  \A c \in Duplicates!Unmounted(calls) :
             \E b \in calls : /\ c = Muffled(b)
                              /\ DOMAIN c = CallFields /\ c.kind = b.kind /\ c.from = b.from
                              /\ c.kind \notin { "effect", "occurrences" }
                              /\ c.isHeard <=> c.from = "page"
  <1>1. \A c \in Duplicates!Unmounted(calls) :
            \E b \in calls : c = Muffled(b) /\ b.kind \notin { "effect", "occurrences" }
    BY DEF Duplicates!Unmounted, Duplicates!Without, Muffled
  <1>2. ASSUME NEW b \in calls
        PROVE  /\ DOMAIN Muffled(b) = CallFields /\ Muffled(b).kind = b.kind
               /\ Muffled(b).from = b.from
               /\ Muffled(b).isHeard <=> b.from = "page"
    <2>1. DOMAIN b = CallFields
      BY DEF DuplicatesAreShaped, IsCall
    <2>2. CASE b.from = "page"
      <3>1. Muffled(b) = [b EXCEPT !.isHeard = TRUE]
        BY <2>2 DEF Muffled
      <3> QED
        BY <2>1, <2>2, <3>1, CallIsAnswered
    <2>3. CASE b.from # "page"
      <3>1. Muffled(b) = [b EXCEPT !.isHeard = FALSE]
        BY <2>3 DEF Muffled
      <3> QED
        BY <2>1, <2>3, <3>1, CallIsAnswered
    <2> QED
      BY <2>2, <2>3
  <1> QED
    BY <1>1, <1>2

\* A status comes: no scan or refresh is asked for then, and no dialog is open.
LEMMA StatusArrivesKeepsResults ==
    ASSUME CopiesAreListed, DInv, NEW call \in statusCalls, Duplicates!StatusArrives(call)
    PROVE  DInv'
  <1> DEFINE value == call.value
  <1>1. /\ call.isAnswered /\ status' = value
        /\ \A s \in statusCalls' : s \in statusCalls /\ (s.kind = "poll" => value.state = "running")
        /\ view' = IF Duplicates!HasResults(status) /\ Duplicates!HasResults(value)
                   THEN view ELSE Duplicates!Blank
        /\ calls' = Duplicates!Ticked(value)
        /\ UNCHANGED << disk, ignoredPaths, reported, scan, tab, sortDir, hideEmpty >>
    BY DEF Duplicates!StatusArrives, Duplicates!Applied, Duplicates!server
  <1>2. value.state \in { scan.state, "running" }
    BY <1>1 DEF DInv, RunIsKnown
  <1>3. ~Duplicates!IsOpen /\ \A c \in calls : c.from # "dialog" /\ ~IsScan(c)
    BY DEF DInv, DialogIsRight, CallsAreAlone, IsQuietBut
  <1> HIDE DEF value
  <1>4. ~Duplicates!IsOpen'
    BY <1>1, <1>3, BlankIsAView DEF Duplicates!IsOpen
  <1>5. RunIsKnown'
    BY <1>1, <1>2 DEF DInv, RunIsKnown
  <1>6. /\ DOMAIN view' = ViewFields /\ view'.page \in Nat
        /\ view'.result.failed => view'.result.paths = {}
    BY <1>1, BlankIsAView DEF DInv, DuplicatesAreShaped
  <1>7. CASE ~Duplicates!HasResults(value)
    <2>1. calls' = Duplicates!Unmounted(calls)
      BY <1>1, <1>7 DEF Duplicates!Ticked
    <2>2. \A c \in calls' : \E b \in calls :
                /\ c = Muffled(b)
                /\ DOMAIN c = CallFields /\ c.kind = b.kind /\ c.from = b.from
                /\ c.kind \notin { "effect", "occurrences" }
                /\ c.isHeard <=> c.from = "page"
      BY <2>1, UnmountedIsNotHeard DEF DInv
    <2>3. DuplicatesAreShaped'
      BY <1>1, <1>6, <2>2 DEF DInv, DuplicatesAreShaped, IsCall
    <2>4. \A c \in calls' : c.from # "dialog" /\ ~IsScan(c)
      BY <1>3, <2>2 DEF IsScan
    <2>5. \A c, d \in calls' : c = d
      BY <2>2 DEF DInv, CallsAreAlone
    <2>6. CallsAreAlone'
      BY <2>4, <2>5 DEF CallsAreAlone, IsScan
    <2>7. ~Duplicates!HasResults(status)' /\ \A c \in calls' : c.isHeard => c.from = "page"
      BY <1>1, <1>7, <2>2
    <2>8. ResultsAreFresh'
      BY <2>2, <2>3, <2>7 DEF ResultsAreFresh, DuplicatesAreShaped, IsCall
    <2>9. ExpansionsAreRight'
      BY <2>3, <2>7 DEF ExpansionsAreRight, DuplicatesAreShaped, IsCall
    <2>10. DialogIsRight'
      BY <1>4, <2>2, <2>4 DEF DialogIsRight
    <2> QED
      BY <1>5, <2>3, <2>6, <2>8, <2>9, <2>10 DEF DInv
  <1>8. CASE Duplicates!HasResults(value)
    <2> DEFINE e == Duplicates!EffectFor(Duplicates!ThisQuery')
    <2>1. calls' = Duplicates!Without({ "effect" }, calls) \cup { e }
      <3>1. CASE Duplicates!HasResults(status)
        <4>1. Duplicates!ThisQuery' = Duplicates!ThisQuery
          BY <1>1, <1>8, <3>1, PageUnchanged
        <4> QED
          BY <1>1, <1>8, <3>1, <4>1 DEF Duplicates!Ticked, Duplicates!Relisted
      <3>2. CASE ~Duplicates!HasResults(status)
        <4>1. Duplicates!ThisQuery' = Duplicates!Query(Duplicates!Blank, tab, sortDir, hideEmpty)
          BY <1>1, <3>2 DEF Duplicates!ThisQuery, Duplicates!Query
        <4> QED
          BY <1>1, <1>8, <3>2, <4>1 DEF Duplicates!Ticked, Duplicates!Relisted
      <3> QED
        BY <3>1, <3>2
    <2>2. /\ DOMAIN e = CallFields /\ e.kind = "effect" /\ e.from = "tab" /\ e.isHeard
          /\ e.query = Duplicates!ThisQuery' /\ e.answer.status = "awaited"
      BY EffectIsAsked
    <2> HIDE DEF e
    <2>3. \A c \in calls' : c = e \/ (c \in calls /\ c.kind # "effect")
      BY <2>1 DEF Duplicates!Without
    <2>4. \A c \in calls : c.isHeard /\ c.from # "page" =>
            c.query = Duplicates!ThisQuery' /\ CurrentListing' = CurrentListing
      <3>1. Duplicates!HasResults(status) => Duplicates!ThisQuery' = Duplicates!ThisQuery
        BY <1>1, <1>8, PageUnchanged
      <3> QED
        BY <1>1, <3>1, ServerUnchanged DEF DInv, ResultsAreFresh
    <2>5. DuplicatesAreShaped'
      BY <1>1, <1>6, <2>2, <2>3 DEF DInv, DuplicatesAreShaped, IsCall
    <2>6. \A c \in calls' : c.from # "dialog" /\ ~IsScan(c)
      BY <1>3, <2>2, <2>3 DEF IsScan
    <2>7. \A c, d \in calls' : (c.kind = "effect") = (d.kind = "effect") => c = d
      BY <2>2, <2>3 DEF DInv, CallsAreAlone
    <2>8. CallsAreAlone'
      BY <2>6, <2>7 DEF CallsAreAlone, IsScan
    <2>9. ListingIsDue'
      BY <2>1, <2>2 DEF ListingIsDue
    <2>10. ResultsAreFresh'
      <3>1. \A c \in calls' : c.isHeard /\ c.from # "page" => c.query = Duplicates!ThisQuery'
        BY <2>2, <2>3, <2>4
      <3>2. \A c \in calls' : c.answer.status = "ok" =>
                /\ c.kind # "effect"
                /\ c.kind = "load" /\ c.isHeard /\ c.from # "tab" => c.answer = CurrentListing'
        BY <2>2, <2>3, <2>4 DEF DInv, ResultsAreFresh, DuplicatesAreShaped, IsCall
      <3> QED
        BY <1>1, <1>8, <2>9, <3>1, <3>2 DEF ResultsAreFresh
    <2>11. ExpansionsAreRight'
      <3>1. \A g : Duplicates!Copies(g)' = Duplicates!Copies(g)
        BY <1>1, CopiesUnchanged
      <3> QED
        BY <1>1, <2>2, <2>3, <3>1 DEF DInv, ExpansionsAreRight
    <2>12. DialogIsRight'
      <3>1. \A c \in calls' : c.kind # "occurrences"
        BY <2>2, <2>5, <2>6 DEF DuplicatesAreShaped, IsCall
      <3> QED
        BY <1>4, <2>6, <3>1 DEF DialogIsRight
    <2> QED
      BY <1>5, <2>5, <2>8, <2>10, <2>11, <2>12 DEF DInv
  <1> QED
    BY <1>7, <1>8

-----------------------------------------------------------------------------
(* The user, who acts when no answer is awaited. *)

LEMMA UserOfResultsWaits ==
    ASSUME CopiesAreListed, DInv, Duplicates!UserActs
    PROVE  /\ calls = {} /\ \A s \in statusCalls : s.kind = "poll"
           /\ status.state \in { scan.state, "running" }
           /\ status.state # "running" => statusCalls = {} /\ scan.state # "running"
           /\ ~ListingIsDue
           /\ TickIsDue <=> status.state = "running" /\ scan.state # "running"
  <1>1. calls = {} /\ \A s \in statusCalls : s.kind = "poll"
    BY DEF CopiesAreListed, Duplicates!UserActs, Duplicates!Calm
  <1> QED
    BY <1>1 DEF DInv, RunIsKnown, ListingIsDue, TickIsDue

LEMMA CallIsAsked ==
    ASSUME NEW kind, NEW from, NEW q, NEW key, NEW gone, NEW paths
    PROVE  LET c == Duplicates!Call(kind, from, q, key, gone, paths)
           IN  /\ DOMAIN c = CallFields /\ c.kind = kind /\ c.from = from /\ c.query = q
               /\ c.key = key /\ c.path = gone /\ c.paths = paths /\ c.isHeard
               /\ c.answer.status = "awaited"
  BY DEF Duplicates!Call, CallFields

\* Another page, tab or order of the listing: its effect runs if that is another query.
LEMMA ViewKeeps ==
    ASSUME CopiesAreListed, DInv, Duplicates!UserActs, Duplicates!HasResults(status),
           ~Duplicates!IsOpen, NEW v, NEW t, NEW dirs, NEW hide, Duplicates!Shows(v, t, dirs, hide),
           DOMAIN v = ViewFields, v.page \in Nat, v.target = Duplicates!NoTarget,
           v.result.failed => v.result.paths = {},
           t = tab => v.data = view.data
    PROVE  DInv'
  <1> DEFINE q == Duplicates!Query(v, t, dirs, hide)
             e == Duplicates!EffectFor(q)
  <1>1. /\ view' = v /\ tab' = t /\ sortDir' = dirs /\ hideEmpty' = hide
        /\ UNCHANGED << disk, ignoredPaths, reported, scan, status, statusCalls >>
    BY DEF Duplicates!Shows, Duplicates!server
  <1>2. Duplicates!ThisQuery' = q /\ ~Duplicates!IsOpen'
    BY <1>1 DEF Duplicates!ThisQuery, Duplicates!Query, Duplicates!IsOpen
  <1>3. calls = {}
    BY UserOfResultsWaits
  <1>4. Duplicates!Unmounted(calls) = {}
    BY <1>3 DEF Duplicates!Unmounted, Duplicates!Without
  <1>5. calls' = IF t = tab /\ q = Duplicates!ThisQuery THEN {} ELSE { e }
    BY <1>3, <1>4 DEF Duplicates!Shows, Duplicates!Relisted, Duplicates!Without
  <1>6. /\ DOMAIN e = CallFields /\ e.kind = "effect" /\ e.from = "tab" /\ e.isHeard
        /\ e.query = q /\ e.answer.status = "awaited"
    BY EffectIsAsked
  <1> HIDE DEF e, q
  <1>7. \A c \in calls' : c = e
    BY <1>5
  <1>8. TickIsDue => TickIsDue'
    BY <1>1, <1>3 DEF TickIsDue
  <1>9. DuplicatesAreShaped'
    BY <1>1, <1>6, <1>7 DEF DInv, DuplicatesAreShaped, IsCall
  <1>10. CallsAreAlone' /\ ExpansionsAreRight'
    BY <1>6, <1>7 DEF CallsAreAlone, ExpansionsAreRight, IsScan
  <1>11. RunIsKnown'
    BY <1>1, <1>3 DEF DInv, RunIsKnown
  <1>12. ResultsAreFresh'
    <2>1. view.data = CurrentListing \/ TickIsDue
      BY UserOfResultsWaits DEF DInv, ResultsAreFresh
    <2>2. CASE t = tab /\ q = Duplicates!ThisQuery
      <3>1. CurrentListing' = CurrentListing
        BY <1>1, <1>2, <2>2, ServerUnchanged
      <3> QED
        BY <1>1, <1>5, <1>8, <2>1, <2>2, <3>1 DEF ResultsAreFresh
    <2>3. CASE ~(t = tab /\ q = Duplicates!ThisQuery)
      <3>1. calls' = { e }
        BY <1>5, <2>3
      <3>2. ListingIsDue'
        BY <1>6, <3>1 DEF ListingIsDue
      <3> QED
        BY <1>1, <1>2, <1>6, <3>1, <3>2 DEF ResultsAreFresh
    <2> QED
      BY <2>2, <2>3
  <1>13. DialogIsRight'
    BY <1>2, <1>6, <1>7 DEF DialogIsRight
  <1> QED
    BY <1>9, <1>10, <1>11, <1>12, <1>13 DEF DInv

LEMMA SwitchesKeep ==
    ASSUME CopiesAreListed, DInv,
           \/ Duplicates!SwitchTab \/ Duplicates!ChangeSort \/ Duplicates!SwitchHideEmpty
           \/ \E number \in 0..Duplicates!Cardinality(Duplicates!Files) : Duplicates!TurnPage(number)
           \/ \E at \in Duplicates!Dirs : Duplicates!Navigate(at)
    PROVE  DInv'
  <1>1. /\ Duplicates!UserActs /\ ~Duplicates!IsOpen /\ Duplicates!HasResults(status)
        /\ DOMAIN view = ViewFields /\ view.page \in Nat
        /\ view.target = Duplicates!NoTarget
        /\ view.result.failed => view.result.paths = {}
    BY DEF Duplicates!SwitchTab, Duplicates!ChangeSort, Duplicates!SwitchHideEmpty,
           Duplicates!TurnPage, Duplicates!Navigate, Duplicates!IsOpen, DInv, DuplicatesAreShaped
  <1>2. CASE Duplicates!SwitchTab
    <2> DEFINE t == CHOOSE t \in Duplicates!Tabs : t # tab
    <2>1. Duplicates!Shows(Duplicates!Blank, t, sortDir, hideEmpty)
      BY <1>2 DEF Duplicates!SwitchTab
    <2>2. t # tab
      <3>1. \E u \in Duplicates!Tabs : u # tab
        BY DEF Duplicates!Tabs
      <3> QED
        BY <3>1
    <2> HIDE DEF t
    <2> QED
      BY <1>1, <2>1, <2>2, BlankIsAView, ViewKeeps
  <1>3. CASE Duplicates!ChangeSort
    <2> DEFINE v == [view EXCEPT !.page = 0, !.expanded = {}]
    <2>1. PICK dirs : Duplicates!Shows(v, tab, dirs, hideEmpty)
      BY <1>3 DEF Duplicates!ChangeSort
    <2>2. /\ DOMAIN v = ViewFields /\ v.page = 0 /\ v.target = view.target
          /\ v.result = view.result /\ v.data = view.data
      BY <1>1 DEF ViewFields
    <2> HIDE DEF v
    <2> QED
      BY <1>1, <2>1, <2>2, ViewKeeps
  <1>4. CASE Duplicates!SwitchHideEmpty
    <2> DEFINE v == [view EXCEPT !.page = 0]
    <2>1. Duplicates!Shows(v, tab, sortDir, ~hideEmpty)
      BY <1>4 DEF Duplicates!SwitchHideEmpty
    <2>2. /\ DOMAIN v = ViewFields /\ v.page = 0 /\ v.target = view.target
          /\ v.result = view.result /\ v.data = view.data
      BY <1>1 DEF ViewFields
    <2> HIDE DEF v
    <2>3. PICK hide : Duplicates!Shows(v, tab, sortDir, hide)
      BY <2>1
    <2> QED
      BY <1>1, <2>2, <2>3, ViewKeeps
  <1>5. ASSUME NEW number \in 0..Duplicates!Cardinality(Duplicates!Files),
               Duplicates!TurnPage(number)
        PROVE  DInv'
    <2> DEFINE v == [view EXCEPT !.page = number]
    <2>1. Duplicates!Shows(v, tab, sortDir, hideEmpty)
      BY <1>5 DEF Duplicates!TurnPage
    <2>2. number \in Nat
      <3>1. Duplicates!Cardinality(Duplicates!Files) \in Nat
        BY CardinalityIsHis, FS_CardinalityType DEF CopiesAreListed
      <3> QED
        BY <3>1
    <2>3. /\ DOMAIN v = ViewFields /\ v.page = number /\ v.target = view.target
          /\ v.result = view.result /\ v.data = view.data
      BY <1>1 DEF ViewFields
    <2> HIDE DEF v
    <2> QED
      BY <1>1, <2>1, <2>2, <2>3, ViewKeeps
  <1>6. ASSUME NEW at \in Duplicates!Dirs, Duplicates!Navigate(at)
        PROVE  DInv'
    <2> DEFINE v == [view EXCEPT !.at = at, !.page = 0]
    <2>1. Duplicates!Shows(v, tab, sortDir, hideEmpty)
      BY <1>6 DEF Duplicates!Navigate
    <2>2. /\ DOMAIN v = ViewFields /\ v.page = 0 /\ v.target = view.target
          /\ v.result = view.result /\ v.data = view.data
      BY <1>1 DEF ViewFields
    <2> HIDE DEF v
    <2> QED
      BY <1>1, <2>1, <2>2, ViewKeeps
  <1> QED
    BY <1>2, <1>3, <1>4, <1>5, <1>6

\* A request from the page or the tab.
LEMMA AskingKeeps ==
    ASSUME CopiesAreListed, DInv, Duplicates!UserActs, ~Duplicates!IsOpen,
           NEW kind \in { "scan", "stop", "expand", "ignore", "rescan" }, NEW from, NEW key,
           NEW gone,
           Duplicates!Asks(Duplicates!Call(kind, from, Duplicates!ThisQuery, key, gone, {})),
           from = IF kind \in { "scan", "stop" } THEN "page" ELSE "tab",
           from = "tab" => Duplicates!HasResults(status),
           kind \in { "scan", "rescan" } => status.state # "running",
           kind = "expand" /\ scan.state = "running" => Duplicates!Copies(key) # {}
    PROVE  DInv'
  <1> DEFINE c == Duplicates!Call(kind, from, Duplicates!ThisQuery, key, gone, {})
  <1>1. /\ calls' = calls \cup { c }
        /\ UNCHANGED << disk, ignoredPaths, reported, scan, status, statusCalls, tab, sortDir,
                        hideEmpty, view >>
    BY DEF Duplicates!Asks, Duplicates!server
  <1>2. /\ DOMAIN c = CallFields /\ c.kind = kind /\ c.from = from
        /\ c.query = Duplicates!ThisQuery /\ c.key = key
        /\ c.answer.status = "awaited"
    BY CallIsAsked
  <1> HIDE DEF c
  <1>3. calls = {} /\ calls' = { c }
    BY <1>1, UserOfResultsWaits
  <1>4. /\ Duplicates!ThisQuery' = Duplicates!ThisQuery /\ CurrentListing' = CurrentListing
        /\ \A g : Duplicates!Copies(g)' = Duplicates!Copies(g)
        /\ Duplicates!IsOpen' = Duplicates!IsOpen
    BY <1>1, PageUnchanged, ServerUnchanged
  <1>5. TickIsDue => TickIsDue'
    BY <1>1 DEF TickIsDue
  <1>6. DuplicatesAreShaped'
    BY <1>1, <1>2, <1>3 DEF DInv, DuplicatesAreShaped, IsCall
  <1>7. CallsAreAlone'
    <2>1. IsScan(c) => statusCalls = {} /\ status.state # "running" /\ scan.state # "running"
      BY <1>2, UserOfResultsWaits DEF IsScan
    <2> QED
      BY <1>1, <1>2, <1>3, <2>1 DEF CallsAreAlone, IsScan, IsQuietBut
  <1>8. RunIsKnown'
    BY <1>1, <1>3 DEF DInv, RunIsKnown
  <1>9. ResultsAreFresh'
    <2>1. Duplicates!HasResults(status) => view.data = CurrentListing \/ TickIsDue
      BY UserOfResultsWaits DEF DInv, ResultsAreFresh
    <2> QED
      BY <1>1, <1>2, <1>3, <1>4, <1>5, <2>1 DEF ResultsAreFresh
  <1>10. ExpansionsAreRight'
    BY <1>1, <1>2, <1>3, <1>4 DEF ExpansionsAreRight
  <1>11. DialogIsRight'
    BY <1>2, <1>3, <1>4 DEF DialogIsRight
  <1> QED
    BY <1>6, <1>7, <1>8, <1>9, <1>10, <1>11 DEF DInv

LEMMA ShownHasResults ==
    ASSUME NEW what, Duplicates!IsRow(what)
    PROVE  Duplicates!HasResults(status)
  BY DEF Duplicates!IsRow, Duplicates!Shown

LEMMA TabIsNotOpen ==
    ASSUME DInv, tab = "duplicates" PROVE ~Duplicates!IsOpen
  BY DEF DInv, DialogIsRight

LEMMA RunIsAskedKeeps ==
    ASSUME CopiesAreListed, DInv, Duplicates!StartScan \/ Duplicates!StopScan
    PROVE  DInv'
  <1>1. Duplicates!UserActs /\ ~Duplicates!IsOpen
    BY DEF Duplicates!StartScan, Duplicates!StopScan
  <1>2. PICK kind \in { "scan", "stop" } :
            /\ Duplicates!Asks(Duplicates!Call(kind, "page", Duplicates!ThisQuery,
                                               Duplicates!NoKey, Top, {}))
            /\ kind = "scan" => status.state # "running"
    BY DEF Duplicates!StartScan, Duplicates!StopScan
  <1> QED
    BY <1>1, <1>2, AskingKeeps

LEMMA ToggleKeeps ==
    ASSUME CopiesAreListed, DInv, NEW group, Duplicates!Toggle(group)
    PROVE  DInv'
  <1>1. /\ Duplicates!UserActs /\ tab = "duplicates" /\ Duplicates!IsRow(group)
        /\ ~Duplicates!IsOpen /\ Duplicates!HasResults(status)
    BY TabIsNotOpen, ShownHasResults DEF Duplicates!Toggle
  <1>2. \/ \E expanded :
             Duplicates!Shows([view EXCEPT !.expanded = expanded], tab, sortDir, hideEmpty)
        \/ Duplicates!Asks(Duplicates!Call("expand", "tab", Duplicates!ThisQuery, group, << >>, {}))
    BY DEF Duplicates!Toggle
  <1>3. ASSUME NEW expanded,
               Duplicates!Shows([view EXCEPT !.expanded = expanded], tab, sortDir, hideEmpty)
        PROVE  DInv'
    <2> DEFINE v == [view EXCEPT !.expanded = expanded]
    <2>1. /\ DOMAIN v = ViewFields /\ v.page = view.page /\ v.target = view.target
          /\ v.result = view.result /\ v.data = view.data
      BY DEF ViewFields, DInv, DuplicatesAreShaped
    <2>2. Duplicates!Shows(v, tab, sortDir, hideEmpty)
      BY <1>3
    <2>3. view.page \in Nat /\ (view.result.failed => view.result.paths = {})
      BY DEF DInv, DuplicatesAreShaped
    <2>4. view.target = Duplicates!NoTarget
      BY <1>1 DEF Duplicates!IsOpen
    <2> HIDE DEF v
    <2> QED
      BY <1>1, <2>1, <2>2, <2>3, <2>4, ViewKeeps
  <1>4. scan.state = "running" => Duplicates!Copies(group) # {}
    <2> SUFFICES ASSUME scan.state = "running" PROVE Duplicates!Copies(group) # {}
      OBVIOUS
    <2>1. view.data = CurrentListing
      BY <1>1, UserOfResultsWaits DEF DInv, ResultsAreFresh
    <2> QED
      BY <1>1, <2>1, ShownGroupHasCopies DEF DInv
  <1>5. ASSUME Duplicates!Asks(Duplicates!Call("expand", "tab", Duplicates!ThisQuery, group,
                                               << >>, {}))
        PROVE  DInv'
    BY <1>1, <1>4, <1>5, AskingKeeps
  <1> QED
    BY <1>2, <1>3, <1>5

LEMMA IgnoreIsAskedKeeps ==
    ASSUME CopiesAreListed, DInv, NEW group, NEW gone, Duplicates!IgnoreOccurrence(group, gone)
    PROVE  DInv'
  <1>1. /\ Duplicates!UserActs /\ ~Duplicates!IsOpen /\ Duplicates!HasResults(status)
        /\ Duplicates!Asks(Duplicates!Call("ignore", "tab", Duplicates!ThisQuery, group, gone, {}))
    BY TabIsNotOpen, ShownHasResults DEF Duplicates!IgnoreOccurrence
  <1> QED
    BY <1>1, AskingKeeps

LEMMA RowIsAskedKeeps ==
    ASSUME CopiesAreListed, DInv, NEW kind \in { "ignore", "rescan" }, NEW gone,
           Duplicates!AskForRow(kind, gone)
    PROVE  DInv'
  <1>1. /\ Duplicates!UserActs /\ ~Duplicates!IsOpen /\ Duplicates!HasResults(status)
        /\ Duplicates!Asks(Duplicates!Call(kind, "tab", Duplicates!ThisQuery, Duplicates!NoKey,
                                           gone, {}))
        /\ kind = "rescan" => status.state # "running"
    BY ShownHasResults DEF Duplicates!AskForRow, CopiesAreListed
  <1> QED
    BY <1>1, AskingKeeps

\* The dialog opens when nothing is under way, and nothing gets under way while it is open.
LEMMA DialogOpensKeeps ==
    ASSUME CopiesAreListed, DInv, NEW file \in Duplicates!Files, Duplicates!OpenOccurrences(file)
    PROVE  DInv'
  <1> DEFINE c == Duplicates!Call("occurrences", "dialog", Duplicates!ThisQuery,
                                  ContentOf[file], file, {})
             target == [key |-> ContentOf[file], path |-> file]
  <1>1. /\ Duplicates!UserActs /\ status.state # "running" /\ tab = "directories"
        /\ Duplicates!HasResults(status)
        /\ view' = [view EXCEPT !.target = target]
        /\ calls' = Duplicates!Without({ "occurrences" }, calls) \cup { c }
        /\ UNCHANGED << disk, ignoredPaths, reported, scan, status, statusCalls, tab, sortDir,
                        hideEmpty >>
    BY ShownHasResults DEF Duplicates!OpenOccurrences, CopiesAreListed, Duplicates!server
  <1>2. /\ DOMAIN c = CallFields /\ c.kind = "occurrences" /\ c.from = "dialog"
        /\ c.query = Duplicates!ThisQuery /\ c.key = ContentOf[file] /\ c.isHeard
        /\ c.answer.status = "awaited"
    BY CallIsAsked
  <1>3. target.key = ContentOf[file] /\ ContentOf[file] \in Nat \ { 0 }
    BY DEF CopiesAreListed
  <1> HIDE DEF c, target
  <1>4. calls = {} /\ statusCalls = {} /\ scan.state # "running" /\ calls' = { c }
    BY <1>1, UserOfResultsWaits DEF Duplicates!Without
  <1>5. /\ DOMAIN view' = ViewFields /\ view'.page = view.page /\ view'.at = view.at
        /\ view'.target = target /\ view'.result = view.result /\ view'.data = view.data
    BY <1>1 DEF DInv, DuplicatesAreShaped, ViewFields
  <1>6. Duplicates!ThisQuery' = Duplicates!ThisQuery /\ CurrentListing' = CurrentListing
    BY <1>1, <1>5, QueryStays, ServerUnchanged
  <1>7. DuplicatesAreShaped'
    BY <1>1, <1>2, <1>4, <1>5 DEF DInv, DuplicatesAreShaped, IsCall
  <1>8. CallsAreAlone' /\ ExpansionsAreRight' /\ RunIsKnown'
    BY <1>1, <1>2, <1>4 DEF CallsAreAlone, IsScan, IsQuietBut, ExpansionsAreRight, RunIsKnown,
                            DInv
  <1>9. ResultsAreFresh'
    <2>1. view.data = CurrentListing
      BY <1>1, <1>4, UserOfResultsWaits DEF DInv, ResultsAreFresh
    <2> QED
      BY <1>1, <1>2, <1>4, <1>5, <1>6, <2>1 DEF ResultsAreFresh
  <1>10. DialogIsRight'
    BY <1>1, <1>2, <1>3, <1>4, <1>5 DEF DialogIsRight
  <1> QED
    BY <1>7, <1>8, <1>9, <1>10 DEF DInv

\* Of the dialog no more than the target and the plan change, and nothing is asked for.
LEMMA DialogKeeps ==
    ASSUME CopiesAreListed, DInv, Duplicates!UserActs,
           Duplicates!CloseDialog \/ Duplicates!CancelPlan
    PROVE  DInv'
  <1>1. /\ calls = {} /\ calls' = {}
        /\ UNCHANGED << disk, ignoredPaths, reported, scan, status, statusCalls, tab, sortDir,
                        hideEmpty >>
        /\ \/ view' = [view EXCEPT !.target = Duplicates!NoTarget]
           \/ view' = [view EXCEPT !.plan = Duplicates!NoPlan]
    BY UserOfResultsWaits DEF Duplicates!CloseDialog, Duplicates!CancelPlan, Duplicates!server,
           Duplicates!Without
  <1>2. /\ DOMAIN view' = ViewFields /\ view'.page = view.page /\ view'.at = view.at
        /\ view'.target \in { view.target, Duplicates!NoTarget }
        /\ view'.result = view.result /\ view'.data = view.data
    BY <1>1 DEF DInv, DuplicatesAreShaped, ViewFields
  <1>3. /\ Duplicates!ThisQuery' = Duplicates!ThisQuery /\ CurrentListing' = CurrentListing
        /\ \A g : Duplicates!Copies(g)' = Duplicates!Copies(g)
    BY <1>1, <1>2, QueryStays, ServerUnchanged
  <1>4. Duplicates!IsOpen' => Duplicates!IsOpen /\ view'.target = view.target
    BY <1>2 DEF Duplicates!IsOpen
  <1>5. DuplicatesAreShaped'
    BY <1>1, <1>2 DEF DInv, DuplicatesAreShaped
  <1>6. CallsAreAlone' /\ ExpansionsAreRight' /\ RunIsKnown'
    BY <1>1 DEF CallsAreAlone, ExpansionsAreRight, RunIsKnown, DInv
  <1>7. ResultsAreFresh'
    <2>1. TickIsDue => TickIsDue'
      BY <1>1 DEF TickIsDue
    <2>2. Duplicates!HasResults(status) => view.data = CurrentListing \/ TickIsDue
      BY UserOfResultsWaits DEF DInv, ResultsAreFresh
    <2> QED
      BY <1>1, <1>2, <1>3, <2>1, <2>2 DEF ResultsAreFresh
  <1>8. DialogIsRight'
    BY <1>1, <1>2, <1>3, <1>4 DEF DInv, DialogIsRight, ResultIsRight
  <1> QED
    BY <1>5, <1>6, <1>7, <1>8 DEF DInv

\* What is to be removed is one of the copies that the dialog shows, which there are.
LEMMA AskInDialogKeeps ==
    ASSUME CopiesAreListed, DInv, NEW kind \in { "ignore", "plan", "delete" }, NEW gone,
           Duplicates!AskInDialog(kind, gone)
    PROVE  DInv'
  <1> DEFINE shown == Duplicates!ShownResult.paths
             c == Duplicates!Call(kind, "dialog", Duplicates!ThisQuery, view.target.key, gone, shown)
  <1>1. /\ Duplicates!UserActs /\ Duplicates!IsOpen /\ gone \in shown
        /\ calls' = calls \cup { c }
        /\ view' = view \/ \E plan : view' = [view EXCEPT !.plan = plan]
        /\ UNCHANGED << disk, ignoredPaths, reported, scan, status, statusCalls, tab, sortDir,
                        hideEmpty >>
    BY DEF Duplicates!AskInDialog, Duplicates!server
  <1>2. /\ DOMAIN c = CallFields /\ c.kind = kind /\ c.from = "dialog"
        /\ c.query = Duplicates!ThisQuery /\ c.key = view.target.key /\ c.isHeard
        /\ c.path = gone /\ c.paths = shown /\ c.answer.status = "awaited"
    BY CallIsAsked
  <1>3. shown # {} => shown = view.result.paths /\ view.result.key = view.target.key
    BY DEF Duplicates!ShownResult, Duplicates!NoResult
  <1> HIDE DEF c, shown
  <1>4. calls = {} /\ calls' = { c }
    BY <1>1, UserOfResultsWaits
  <1>5. /\ statusCalls = {} /\ status.state # "running" /\ scan.state # "running"
        /\ Duplicates!HasResults(status) /\ tab = "directories"
        /\ view.target.key \in Nat \ { 0 } /\ ResultIsRight
    BY <1>1, <1>4 DEF DInv, DialogIsRight
  <1>6. shown = Duplicates!Copies(view.target.key)
    BY <1>1, <1>3, <1>5 DEF ResultIsRight, DInv, DuplicatesAreShaped
  <1>7. /\ DOMAIN view' = ViewFields /\ view'.page = view.page /\ view'.at = view.at
        /\ view'.target = view.target
        /\ view'.result = view.result /\ view'.data = view.data
    BY <1>1 DEF DInv, DuplicatesAreShaped, ViewFields
  <1>8. /\ Duplicates!ThisQuery' = Duplicates!ThisQuery /\ CurrentListing' = CurrentListing
        /\ \A g : Duplicates!Copies(g)' = Duplicates!Copies(g)
    BY <1>1, <1>7, QueryStays, ServerUnchanged
  <1>9. DuplicatesAreShaped'
    BY <1>1, <1>2, <1>4, <1>7 DEF DInv, DuplicatesAreShaped, IsCall
  <1>10. CallsAreAlone' /\ ExpansionsAreRight' /\ RunIsKnown'
    BY <1>1, <1>2, <1>4, <1>5 DEF CallsAreAlone, IsScan, IsQuietBut, ExpansionsAreRight,
                                  RunIsKnown, DInv
  <1>11. ResultsAreFresh'
    <2>1. view.data = CurrentListing
      BY <1>1, <1>5, UserOfResultsWaits DEF DInv, ResultsAreFresh
    <2> QED
      BY <1>1, <1>2, <1>4, <1>5, <1>7, <1>8, <2>1 DEF ResultsAreFresh
  <1>12. DialogIsRight'
    <2>1. \A x \in calls' :
            /\ x.kind = kind /\ x.from = "dialog" /\ x.key = view.target.key
            /\ x.path \in x.paths /\ x.paths = Duplicates!Copies(x.key)
            /\ ~HasRemoved(x)'
      BY <1>1, <1>2, <1>4, <1>6 DEF HasRemoved
    <2>2. ResultIsRight'
      BY <1>5, <1>7, <1>8 DEF ResultIsRight
    <2> QED
      BY <1>1, <1>5, <1>7, <1>8, <2>1, <2>2 DEF DialogIsRight
  <1> QED
    BY <1>9, <1>10, <1>11, <1>12 DEF DInv

-----------------------------------------------------------------------------

LEMMA ResultsStep == CopiesAreListed /\ DInv /\ Duplicates!Next => DInv'
  <1> SUFFICES ASSUME CopiesAreListed, DInv, Duplicates!Next PROVE DInv'
    OBVIOUS
  <1>1. CASE Duplicates!Serves
    BY <1>1, ServerAsksKeep, ServerIgnoresKeeps, ServerDeletesKeeps, ServerBeginsKeeps,
       ServerStopsKeeps DEF Duplicates!Serves
  <1>2. CASE Duplicates!Arrives
    BY <1>2, ListingArrivesKeepsResults, OccurrencesArriveKeeps, IgnoreArrivesKeeps,
       PlanArrivesKeeps, RemovalArrivesKeeps, RunAnswerKeeps DEF Duplicates!Arrives
  <1>3. CASE Duplicates!Poll
    BY <1>3, PollKeepsResults
  <1>4. CASE Duplicates!StatusComes
    BY <1>4, StatusIsReadKeeps, StatusArrivesKeepsResults DEF Duplicates!StatusComes
  <1>5. CASE Duplicates!RunGoesOn
    BY <1>5, RunEndsKeeps DEF Duplicates!RunGoesOn
  <1>6. CASE Duplicates!StartScan \/ Duplicates!StopScan
    BY <1>6, RunIsAskedKeeps
  <1>7. CASE \/ Duplicates!SwitchTab \/ Duplicates!ChangeSort \/ Duplicates!SwitchHideEmpty
             \/ \E number \in 0..Duplicates!Cardinality(Duplicates!Files) :
                    Duplicates!TurnPage(number)
             \/ \E at \in Duplicates!Dirs : Duplicates!Navigate(at)
    BY <1>7, SwitchesKeep
  <1>8. CASE Duplicates!CloseDialog \/ Duplicates!CancelPlan
    BY <1>8, DialogKeeps DEF Duplicates!CloseDialog, Duplicates!CancelPlan
  <1>9. CASE \E at \in Duplicates!Dirs \cup Duplicates!Files, kind \in { "ignore", "rescan" } :
                Duplicates!AskForRow(kind, at)
    BY <1>9, RowIsAskedKeeps
  <1>10. CASE \E file \in Duplicates!Files :
                \/ Duplicates!OpenOccurrences(file)
                \/ Duplicates!Toggle(ContentOf[file])
                \/ Duplicates!IgnoreOccurrence(ContentOf[file], file)
                \/ \E kind \in { "ignore", "plan", "delete" } : Duplicates!AskInDialog(kind, file)
    BY <1>10, DialogOpensKeeps, ToggleKeeps, IgnoreIsAskedKeeps, AskInDialogKeeps
  <1> QED
    BY <1>1, <1>2, <1>3, <1>4, <1>5, <1>6, <1>7, <1>8, <1>9, <1>10 DEF Duplicates!Next

LEMMA ResultsStay == DInv /\ UNCHANGED Duplicates!vars => DInv'
  <1> SUFFICES ASSUME DInv, UNCHANGED Duplicates!vars PROVE DInv'
    OBVIOUS
  <1>1. UNCHANGED << disk, ignoredPaths, reported, scan, status, statusCalls, tab, sortDir,
                     hideEmpty, view, calls >>
    BY DEF Duplicates!vars, Duplicates!server, Duplicates!page
  <1>2. /\ Duplicates!ThisQuery' = Duplicates!ThisQuery /\ CurrentListing' = CurrentListing
        /\ \A g : Duplicates!Copies(g)' = Duplicates!Copies(g)
        /\ Duplicates!IsOpen' = Duplicates!IsOpen
    BY <1>1, PageUnchanged, ServerUnchanged
  <1>3. TickIsDue' = TickIsDue /\ ListingIsDue' = ListingIsDue
    BY <1>1 DEF TickIsDue, ListingIsDue
  <1>4. /\ DuplicatesAreShaped' /\ CallsAreAlone' /\ RunIsKnown'
    BY <1>1 DEF DInv, DuplicatesAreShaped, CallsAreAlone, RunIsKnown, IsQuietBut, IsCall, IsScan
  <1>5. ResultsAreFresh' /\ ExpansionsAreRight'
    BY <1>1, <1>2, <1>3 DEF DInv, ResultsAreFresh, ExpansionsAreRight
  <1>6. DialogIsRight'
    BY <1>1, <1>2 DEF DInv, DialogIsRight, ResultIsRight, HasRemoved, IsLastButOne
  <1> QED
    BY <1>4, <1>5, <1>6 DEF DInv

LEMMA ResultsAreRight ==
    CopiesAreListed /\ DInv => Duplicates!ResultsAreCurrent /\ Duplicates!CopiesAreCurrent
  <1> SUFFICES ASSUME CopiesAreListed, DInv, Duplicates!IsAtRest
               PROVE  /\ status.state = scan.state
                      /\ Duplicates!HasResults(status) => view.data = CurrentListing
                      /\ Duplicates!IsOpen =>
                            /\ Duplicates!ShownResult # Duplicates!NoResult
                            /\ ~Duplicates!ShownResult.failed =>
                                Duplicates!ShownResult.paths = Duplicates!Copies(view.target.key)
    BY DEF Duplicates!ResultsAreCurrent, Duplicates!CopiesAreCurrent, Duplicates!DialogIsLoaded,
           CurrentListing
  <1>1. calls = {} /\ statusCalls = {} /\ status.state # "running"
    BY DEF Duplicates!IsAtRest, Duplicates!Calm
  <1>2. status.state = scan.state
    BY <1>1 DEF DInv, RunIsKnown
  <1>3. ~TickIsDue /\ ~ListingIsDue
    BY <1>1 DEF TickIsDue, ListingIsDue
  <1>4. ASSUME Duplicates!IsOpen
        PROVE  /\ Duplicates!ShownResult = view.result /\ view.result.key # 0
               /\ view.result.failed \/ view.result.paths = Duplicates!Copies(view.target.key)
    BY <1>1, <1>4 DEF DInv, DialogIsRight, ResultIsRight, Duplicates!ShownResult
  <1>5. Duplicates!NoResult.key = 0
    BY DEF Duplicates!NoResult, Duplicates!NoKey
  <1> QED
    BY <1>2, <1>3, <1>4, <1>5 DEF DInv, ResultsAreFresh

LEMMA ResultsAreAlone ==
    ASSUME [PagesNext]_pagesVars
    PROVE  /\ ShowsDuplicates' => ShowsDuplicates
           /\ ShowsDuplicates => [Duplicates!Next]_Duplicates!vars
  <1>1. ShowsDuplicates' => ShowsDuplicates
    BY DEF PagesNext, OnPane, OnComparison, OnSizes, OnDuplicates, pagesVars, ShowsDuplicates
  <1>2. ASSUME ShowsDuplicates PROVE [Duplicates!Next]_Duplicates!vars
    <2>1. CASE OnPane(Next)
      BY <1>2, <2>1 DEF OnPane, ShowsPane, ShowsDuplicates
    <2>2. CASE OnComparison(Comparison!Next)
      BY <1>2, <2>2 DEF OnComparison, ShowsComparison, ShowsDuplicates
    <2>3. CASE OnSizes(Sizes!Next)
      BY <1>2, <2>3 DEF OnSizes, ShowsSizes, ShowsDuplicates
    <2>4. CASE OnDuplicates(Duplicates!Next)
      BY <2>4 DEF OnDuplicates
    <2>5. CASE UNCHANGED pagesVars
      BY <2>5 DEF pagesVars, ofDuplicates, Duplicates!vars, Duplicates!server, Duplicates!page
    <2> QED
      BY <2>1, <2>2, <2>3, <2>4, <2>5 DEF PagesNext
  <1> QED
    BY <1>1, <1>2

DuplicatesInv == ShowsDuplicates => DInv

\* At rest the duplicate finder knows that its run is over, its listing is the one the
\* server has for the query on show, and an open dialog shows the copies there are,
\* whatever was scanned, refreshed, stopped, ignored or deleted on the way there.
THEOREM ResultsAreCurrentHolds ==
    ASSUME CopiesAreListed
    PROVE  PagesSpec => []ResultsAreCurrent
  <1>1. PagesInit => DuplicatesInv
    BY DuplicatesBegin DEF PagesInit, DuplicatesInv, ShowsDuplicates
  <1>2. DuplicatesInv /\ [PagesNext]_pagesVars => DuplicatesInv'
    BY ResultsAreAlone, ResultsStep, ResultsStay DEF DuplicatesInv
  <1>3. DuplicatesInv => ResultsAreCurrent
    BY ResultsAreRight DEF DuplicatesInv, ResultsAreCurrent
  <1> QED
    BY <1>1, <1>2, <1>3, PTL DEF PagesSpec
===============================================================================
