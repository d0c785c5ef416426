--------------------------- MODULE ChecksumMatches ---------------------------
(***************************************************************************)
(* "Find checksum matches": the search of the server (find-checksum-       *)
(* matches.ts, checksum-match-worker.ts), and the page that starts it,     *)
(* polls it, shows the plan it ends with and has the plan's steps carried  *)
(* out one by one (directory-comparison-explorer.tsx, checksum-match-      *)
(* modal.tsx, rename-adapter.ts, backup-entry.ts).                         *)
(*                                                                         *)
(* A file is its name and its content, a number; content 0 is no file. Two *)
(* files have one checksum when they have one content.                     *)
(***************************************************************************)
EXTENDS RenamePlan

CONSTANTS
    Pairs,      \* the pairs of directories that can be compared
    Names,      \* the names of the files in them
    Spare,      \* the names a backup can be given: its timestamp makes it new
    Contents,   \* the contents a file can have
    Initial,    \* the disks, the pair shown first and the number of faults to begin with
    MayCreate,  \* names another program may create or remove on the left
    Races,      \* it may do so between a rename's checks and the rename
    MaxLeftovers, \* how many reads of superseded searches may be open
    Loops,      \* the calls of findChecksumMatches that can be under way at once
    Patient     \* the user searches again only when the last search and all
                \* renames have ended

ASSUME NamesAreNumbers ==
    /\ Names \cup Spare \subseteq Nat \ {0} /\ Names \cap Spare = {}
    /\ IsFiniteSet(Names) /\ IsFiniteSet(Spare)
    /\ Contents \subseteq Nat \ {0}
    /\ { Races, Patient } \subseteq BOOLEAN /\ MaxLeftovers \in Nat

VARIABLES
    disk,       \* per pair: the files left and right, and the comparison's rows
    search,     \* the worker's current search
    leftovers,  \* reads of superseded searches that have not ended
    page,       \* what the page shows
    loops,      \* where each call of findChecksumMatches is
    executor,   \* the step being carried out
    meddled,    \* since the last search began, someone else wrote or an answer was lost
    faults      \* how many reads, requests and answers may still fail, and files
                \* be written by others

vars == << disk, search, leftovers, page, loops, executor, meddled, faults >>

Sides == { "left", "right" }
AllNames == Names \cup Spare

Files == [AllNames -> Contents \cup { 0 }]
NameSets == [left : SUBSET AllNames, right : SUBSET AllNames]
DirectoryPair == [left : Files, right : Files, settled : SUBSET AllNames, ignored : NameSets]

ASSUME BeginningsAreTyped ==
    \A begin \in Initial : /\ begin.disk \in [Pairs -> DirectoryPair]
                           /\ begin.pair \in Pairs /\ begin.faults \in Nat

-----------------------------------------------------------------------------
(* The candidates: get-comparison-view.ts's entries and their selection. *)

\* A step whose result is unknown has the source "null", which no file is called.
Has(pair, side, name) == name # NoName /\ disk[pair][side][name] # 0

IsIgnoredEntry(pair, name) ==
    \E side \in Sides : Has(pair, side, name) /\ name \in disk[pair].ignored[side]

Entries(pair) == { name \in AllNames : \E side \in Sides : Has(pair, side, name) }

\* A row once recorded stays: the view does not look at the file again.
Matching(pair) ==
    { name \in Entries(pair) : ~IsIgnoredEntry(pair, name)
        /\ (\A side \in Sides : Has(pair, side, name)) /\ name \in disk[pair].settled }

\* Entries with status only_left or only_right: an ignored one has not.
OnlyOn(pair, side) ==
    { name \in Entries(pair) : ~IsIgnoredEntry(pair, name)
        /\ \A other \in Sides : Has(pair, other, name) <=> other = side }

Candidates(pair) ==
    [left |-> Entries(pair) \ (Matching(pair) \cup OnlyOn(pair, "right")),
     right |-> Entries(pair) \ (Matching(pair) \cup OnlyOn(pair, "left"))]

ExistingLeft(pair) == Entries(pair) \ OnlyOn(pair, "right")

-----------------------------------------------------------------------------
(* The worker. No plan and an empty one are the same to the page. *)

NoSums == [side \in Sides |-> [content \in Contents |-> {}]]
NoMatch == << >>

NoSearch(pair) ==
    [of |-> pair, running |-> FALSE, todo |-> [side \in Sides |-> {}], existing |-> {},
     sums |-> NoSums, matches |-> [content \in Contents |-> NoMatch],
     hashed |-> 0, total |-> 0, plan |-> << >>]

\* A new search supersedes the one before; what that one is reading goes on.
StartSearch(pair) ==
    LET candidates == Candidates(pair)
    IN  /\ search' = [NoSearch(pair) EXCEPT
                        !.running = TRUE, !.todo = candidates,
                        !.existing = ExistingLeft(pair),
                        !.total = Cardinality(candidates.left) + Cardinality(candidates.right)]
        /\ leftovers' = leftovers + Cardinality({ side \in Sides : search.todo[side] # {} })
        /\ leftovers' <= MaxLeftovers

\* Mutant of BestMatch: a file is matched with the one of its own name.
AnyMatch(sums, content) == << Earliest(sums.left[content]), Earliest(sums.right[content]) >>

\* The best name of each side, or no match when it is the same one.
BestMatch(sums, content) ==
    LET left == Earliest(sums.left[content])
        right == Earliest(sums.right[content])
    IN  IF left = right THEN NoMatch ELSE << left, right >>

RecordHashedName(side, name, content) ==
    LET sums == [search.sums EXCEPT ![side][content] = @ \cup { name }]
        paired == \A other \in Sides : sums[other][content] # {}
    IN  [search EXCEPT
            !.sums = sums,
            !.matches[content] = IF paired THEN BestMatch(sums, content) ELSE @]

AFault == faults > 0 /\ faults' = faults - 1

\* A file that is gone or cannot be read is left out, but counted.
HashNext(side) ==
    /\ search.running /\ search.todo[side] # {}
    /\ LET name == Earliest(search.todo[side])
           content == disk[search.of][side][name]
           Counted(found) == [found EXCEPT !.todo[side] = @ \ { name }, !.hashed = @ + 1]
       IN  \/ /\ content # 0 /\ faults' = faults
              /\ search' = Counted(RecordHashedName(side, name, content))
           \/ /\ IF content = 0 THEN faults' = faults ELSE AFault
              /\ search' = Counted(search)
    /\ UNCHANGED << disk, leftovers, page, loops, executor, meddled >>

\* Mutant of AbortedReadEnds: the same read ends more than once.
ReadEndsAgain ==
    /\ leftovers' = leftovers - 1
    /\ search' \in { search, [search EXCEPT !.hashed = @ + 1] }
    /\ UNCHANGED << disk, page, loops, executor, meddled, faults >>

\* The abort rejects the read, which is counted all the same, or comes too late.
AbortedReadEnds ==
    /\ leftovers > 0 /\ leftovers' = leftovers - 1
    /\ search' \in { search, [search EXCEPT !.hashed = @ + 1] }
    /\ UNCHANGED << disk, page, loops, executor, meddled, faults >>

Renames(matches) ==
    LET found == { matches[content] : content \in Contents } \ { NoMatch }
    IN  [name \in { match[1] : match \in found } |->
            (CHOOSE match \in found : match[1] = name)[2]]

AllHashed == search.running /\ \A side \in Sides : search.todo[side] = {}

SearchEnds ==
    /\ AllHashed
    /\ search' = [search EXCEPT !.running = FALSE,
                    !.plan = BuildRenamePlan(Renames(search.matches), search.existing)]
    /\ UNCHANGED << disk, leftovers, page, loops, executor, meddled, faults >>

-----------------------------------------------------------------------------
(* The page: findChecksumMatches. The status it was sent is kept in the    *)
(* loop until it is applied. *)

Idle == [phase |-> "none"]

\* The results: null for each step, and for those an array has not got, until noted.
NoResults == << >>
ResultOf(results, at) == IF at \in DOMAIN results THEN results[at] ELSE NoName
Noted(results, at, name) ==
    [i \in DOMAIN results \cup { at } |-> IF i = at THEN name ELSE results[i]]

\* `of`, the pair that was searched, is in the answer for the properties only.
Status == [running |-> search.running, plan |-> search.plan, of |-> search.of]

\* Mutant of Emptied: the last plan stays in place until the new one is there.
Reopened(shown) == [shown EXCEPT !.open = TRUE, !.searching = TRUE]

Emptied(shown) ==
    [shown EXCEPT !.open = TRUE, !.searching = TRUE, !.plan = << >>, !.planOf = shown.pair,
                  !.results = NoResults, !.completed = 0]

HasEnded == executor = Idle /\ \A loop \in Loops : loops[loop] = Idle

\* The button is there whenever the modal is closed.
FindChecksumMatches(loop) ==
    /\ ~page.open /\ loops[loop] = Idle
    /\ Patient => HasEnded
    /\ page' = Emptied(page)
    /\ loops' = [loops EXCEPT ![loop] = [phase |-> "posted", pair |-> page.pair]]
    /\ UNCHANGED << disk, search, leftovers, executor, meddled, faults >>

StartRequest(loop) ==
    /\ loops[loop].phase = "posted"
    /\ StartSearch(loops[loop].pair)
    /\ loops' = [loops EXCEPT ![loop] = [phase |-> "started"]]
    /\ meddled' = FALSE
    /\ UNCHANGED << disk, page, executor, faults >>

StartFails(loop) ==
    /\ AFault /\ loops[loop].phase = "posted"
    /\ page' = [page EXCEPT !.open = FALSE, !.searching = FALSE]
    /\ loops' = [loops EXCEPT ![loop] = Idle]
    /\ UNCHANGED << disk, search, leftovers, executor, meddled >>

\* The modal is looked at before the half second and after it, and not again
\* when the status has come.
Continue(loop) ==
    /\ loops[loop].phase \in { "started", "asleep" }
    /\ loops' = [loops EXCEPT ![loop] =
                    IF ~page.open THEN Idle
                    ELSE IF @.phase = "started" THEN [phase |-> "asleep"]
                    ELSE [phase |-> "asking"]]
    /\ UNCHANGED << disk, search, leftovers, page, executor, meddled, faults >>

StatusRequest(loop) ==
    /\ loops[loop].phase = "asking"
    /\ loops' = [loops EXCEPT ![loop] = [phase |-> "answered", status |-> Status]]
    /\ UNCHANGED << disk, search, leftovers, page, executor, meddled, faults >>

\* Mutant of StatusFails: the loop ends without a word.
StatusFailsSilently(loop) ==
    /\ AFault /\ loops[loop].phase = "asking"
    /\ loops' = [loops EXCEPT ![loop] = Idle]
    /\ UNCHANGED << disk, search, leftovers, page, executor, meddled >>

StatusFails(loop) ==
    /\ AFault /\ loops[loop].phase = "asking"
    /\ page' = [page EXCEPT !.searching = FALSE]
    /\ loops' = [loops EXCEPT ![loop] = Idle]
    /\ UNCHANGED << disk, search, leftovers, executor, meddled >>

ApplyStatus(loop) ==
    /\ loops[loop].phase = "answered"
    /\ LET status == loops[loop].status
       IN  IF status.running
             THEN /\ loops' = [loops EXCEPT ![loop] = [phase |-> "started"]]
                  /\ UNCHANGED page
             ELSE /\ loops' = [loops EXCEPT ![loop] = Idle]
                  /\ page' = [page EXCEPT !.searching = FALSE, !.plan = status.plan,
                                !.planOf = status.of, !.results = NoResults]
    /\ UNCHANGED << disk, search, leftovers, executor, meddled, faults >>

Close ==
    /\ page.open
    /\ page' = [page EXCEPT !.open = FALSE]
    /\ UNCHANGED << disk, search, leftovers, loops, executor, meddled, faults >>

\* An open modal covers the panes; closed, it shows nothing.
Navigate(pair) ==
    /\ ~page.open /\ pair # page.pair
    /\ Patient => HasEnded
    /\ page' = [page EXCEPT !.pair = pair]
    /\ UNCHANGED << disk, search, leftovers, loops, executor, meddled, faults >>

-----------------------------------------------------------------------------
(* The steps of the plan: executeChecksumStep and the rename it asks for.  *)

\* The step's plan, results and pair are those of the render it was begun in.
Step == executor.plan[executor.at]

SourceName ==
    IF Step.back = 0 THEN Step.from ELSE ResultOf(executor.results, executor.at - Step.back)

\* The backup's name carries the time: no file has it.
DestinationName ==
    IF Step.isBackup THEN Earliest({ name \in Spare : ~Has(executor.pair, "left", name) })
    ELSE Step.to

CanBegin ==
    /\ page.open /\ ~page.searching /\ executor = Idle
    /\ page.completed < Len(page.plan)

\* "Rename" on the first step not done, "Rename all" from there on.
BeginSteps(all) ==
    /\ CanBegin
    /\ executor' = [phase |-> "asked", plan |-> page.plan, results |-> page.results,
                    pair |-> page.pair, at |-> page.completed + 1, all |-> all,
                    result |-> NoName]
    /\ UNCHANGED << disk, search, leftovers, page, loops, meddled, faults >>

\* Mutant of IsFree: the rename goes ahead over what is there.
IsAnything(name) == TRUE

IsFree(name) == ~Has(executor.pair, "left", name)

CheckRename ==
    /\ executor.phase = "asked"
    /\ Step.isBackup => \E name \in Spare : IsFree(name)
    /\ executor' = [executor EXCEPT !.result = DestinationName,
                     !.phase = IF Has(executor.pair, "left", SourceName) /\ IsFree(DestinationName)
                                 THEN "checked" ELSE "refused"]
    /\ UNCHANGED << disk, search, leftovers, page, loops, meddled, faults >>

\* rename(2) replaces what is there by now, and fails if the source is gone.
DoRename ==
    /\ executor.phase = "checked"
    /\ LET source == SourceName
           found == disk[executor.pair].left[source]
       IN  IF found = 0
             THEN /\ executor' = [executor EXCEPT !.phase = "refused"]
                  /\ UNCHANGED disk
             ELSE /\ executor' = [executor EXCEPT !.phase = "renamed"]
                  /\ disk' = [disk EXCEPT ![executor.pair].left =
                                [@ EXCEPT ![source] = 0, ![executor.result] = found]]
    /\ UNCHANGED << search, leftovers, page, loops, meddled, faults >>

\* The page on show notes the step, whichever plan it shows by now.
StepAnswered ==
    /\ executor.phase = "renamed"
    /\ page' = [page EXCEPT !.results = Noted(@, executor.at, executor.result),
                            !.completed = executor.at]
    /\ executor' = [executor EXCEPT !.phase = "refetch",
                        !.results = Noted(@, executor.at, executor.result)]
    /\ UNCHANGED << disk, search, leftovers, loops, meddled, faults >>

\* "Rename all" goes on, be the modal closed or not.
StepEnds ==
    /\ executor.phase = "refetch"
    /\ executor' = IF executor.all /\ executor.at < Len(executor.plan)
                     THEN [executor EXCEPT !.phase = "asked", !.at = @ + 1]
                     ELSE Idle
    /\ UNCHANGED << disk, search, leftovers, page, loops, meddled, faults >>

\* The alert; the steps after it are not tried.
StepRefused ==
    /\ executor.phase = "refused"
    /\ executor' = Idle
    /\ UNCHANGED << disk, search, leftovers, page, loops, meddled, faults >>

-----------------------------------------------------------------------------
(* What others do. *)

AnswerIsLost ==
    /\ AFault /\ executor.phase \in { "asked", "renamed" }
    /\ executor' = Idle /\ meddled' = TRUE
    /\ UNCHANGED << disk, search, leftovers, page, loops >>

Meddle(pair, name, content) ==
    /\ AFault
    /\ Races \/ executor.phase # "checked"
    /\ disk[pair].left[name] # content
    /\ disk' = [disk EXCEPT ![pair].left[name] = content]
    /\ meddled' = TRUE
    /\ UNCHANGED << search, leftovers, page, loops, executor >>

Init ==
    /\ \E begin \in Initial :
        /\ disk = begin.disk /\ faults = begin.faults
        /\ search = NoSearch(begin.pair)
        /\ page = [pair |-> begin.pair, open |-> FALSE, searching |-> FALSE, plan |-> << >>,
                   planOf |-> begin.pair, results |-> NoResults, completed |-> 0]
    /\ leftovers = 0
    /\ loops = [loop \in Loops |-> Idle]
    /\ executor = Idle
    /\ meddled = FALSE

Worker == SearchEnds \/ \E side \in Sides : HashNext(side)

LoopStep(loop) ==
    StartRequest(loop) \/ Continue(loop) \/ StatusRequest(loop) \/ ApplyStatus(loop)

ExecutorStep == CheckRename \/ DoRename \/ StepAnswered \/ StepEnds \/ StepRefused

Next ==
    \/ Worker
    \/ AbortedReadEnds
    \/ \E loop \in Loops :
        FindChecksumMatches(loop) \/ LoopStep(loop) \/ StartFails(loop) \/ StatusFails(loop)
    \/ Close
    \/ \E pair \in Pairs : Navigate(pair)
    \/ \E all \in BOOLEAN : BeginSteps(all)
    \/ ExecutorStep
    \/ AnswerIsLost
    \/ \E pair \in Pairs, name \in MayCreate, content \in Contents \cup { 0 } :
        Meddle(pair, name, content)

\* Reads, timers and requests end; the user and others need not do anything.
\* SearchEnds can happen whenever AllHashed holds: its weak fairness is spelt out.
Spec ==
    /\ Init /\ [][Next]_vars
    /\ \A side \in Sides : WF_vars(HashNext(side))
    /\ []<>~AllHashed \/ []<><<SearchEnds>>_vars
    /\ WF_vars(ExecutorStep)
    /\ \A loop \in Loops : WF_vars(LoopStep(loop))

-----------------------------------------------------------------------------

TypeOK ==
    /\ \A pair \in Pairs : \A side \in Sides :
        disk[pair][side] \in [AllNames -> Contents \cup { 0 }]
    /\ search.hashed \in Nat /\ leftovers \in 0..MaxLeftovers
    /\ page.completed \in Nat
    /\ executor.phase \in { "none", "asked", "checked", "renamed", "refetch", "refused" }
    /\ \A loop \in Loops :
        loops[loop].phase \in { "none", "posted", "started", "asleep", "asking", "answered" }

\* The matches are those of all names hashed so far, in whatever order the two
\* streams came to them, and whichever was first to a content.
MatchesAreBest ==
    \A content \in Contents :
        LET sums == [side \in Sides |-> search.sums[side][content]]
            named == { match \in sums.left \X sums.right :
                        /\ match[1] # match[2]
                        /\ \A other \in sums.left : match[1] <= other
                        /\ \A other \in sums.right : match[2] <= other }
        IN  search.matches[content] = (IF named = {} THEN NoMatch ELSE CHOOSE m \in named : TRUE)

\* No step of the program loses a file or a content: each content is under as
\* many names on the left after a rename or a backup as before.
NothingIsLost ==
    [][ faults' = faults =>
            \A pair \in Pairs : \A content \in Contents :
                Cardinality({ name \in AllNames : disk[pair].left[name] = content })
                  = Cardinality({ name \in AllNames : disk'[pair].left[name] = content }) ]_vars

\* As long as nobody else writes and no answer is lost, every step of the plan
\* finds its source there and its destination free.
NoStepIsRefused == executor.phase = "refused" => meddled

\* The plan that can be carried out is of the directories in the panes.
PlanIsOfPair == page.open => page.planOf = page.pair

\* A step ticked off has been done: its file now has the name, and the content,
\* of its counterpart on the right.
TickedOffIsDone ==
    page.open /\ ~page.searching /\ ~meddled =>
        \A i \in DOMAIN page.plan : i <= page.completed /\ ~page.plan[i].isBackup =>
            disk[page.pair].left[page.plan[i].to] = disk[page.pair].right[page.plan[i].to]

\* The plan carries out every match, a cycle's last one from what the backup made.
EveryMatchIsPlanned ==
    ~search.running =>
        \A content \in Contents : search.matches[content] # NoMatch =>
            \E i \in DOMAIN search.plan :
                LET step == search.plan[i]
                    first == IF step.back = 0 THEN step ELSE search.plan[i - step.back]
                IN  << first.from, step.to >> = search.matches[content]

\* The plan (buildRenamePlan) leaves out no match, and each of its steps can be
\* carried out in its turn.
PlanWorks == EveryMatchIsPlanned /\ NoStepIsRefused

\* What the modal shows, of which directories and how much of it is done, is so.
ModalIsTrue == PlanIsOfPair /\ TickedOffIsDone

\* A search on show comes to its end.
SearchIsShownToEnd == page.searching ~> (~page.searching \/ ~page.open)

\* The counter beside the search never exceeds its total.
HashedWithinTotal == search.hashed <= search.total
=============================================================================
