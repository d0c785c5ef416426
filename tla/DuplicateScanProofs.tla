-------------------------- MODULE DuplicateScanProofs --------------------------
(***************************************************************************)
(* Proofs about DuplicateScan, for every tree, every content and every     *)
(* bound: the types of its state; and, if no request is made while another *)
(* is being checked, that there is one run at a time, that what is ignored *)
(* is not reported, that the groups are true of every file nobody has      *)
(* touched since, and that a run that finishes reports every copy it knows *)
(* of (from `What a run covers` on).                                       *)
(***************************************************************************)
EXTENDS DuplicateScan, FiniteSetTheorems, SequenceTheorems, TLAPS

-----------------------------------------------------------------------------
(* What removing paths from groups leaves *)

IsGroup(group) ==
    group = [kind |-> group.kind, sum |-> group.sum, paths |-> group.paths]

\* Groups none of whose paths is at or beneath one of S.
KeepsOut(groups, S) ==
    \A group \in groups :
        IsGroup(group) /\ \A path \in group.paths : ~IsIgnored(path, S)

\* Fewer ignored paths exclude less.
LEMMA KeepsOutLess ==
    ASSUME NEW groups, NEW S, NEW T \in SUBSET S, KeepsOut(groups, S)
    PROVE  KeepsOut(groups, T)
  BY DEF KeepsOut, IsIgnored

\* Pruning under a path keeps it out, with what was out before.
LEMMA PruneKeepsOut ==
    ASSUME NEW groups, NEW S, NEW path, KeepsOut(groups, S)
    PROVE  KeepsOut(PruneUnder(groups, path), S \cup { path })
  <1> SUFFICES ASSUME NEW group \in PruneUnder(groups, path)
               PROVE  /\ IsGroup(group)
                      /\ \A p \in group.paths : ~IsIgnored(p, S \cup { path })
    BY DEF KeepsOut
  <1>1. PICK old \in groups :
           group = [old EXCEPT !.paths = { p \in @ : ~IsWithinSubtree(p, path) }]
    BY DEF PruneUnder
  <1>2. /\ old = [kind |-> old.kind, sum |-> old.sum, paths |-> old.paths]
        /\ \A p \in old.paths : ~IsIgnored(p, S)
    BY DEF KeepsOut, IsGroup
  <1>3. group = [kind |-> old.kind, sum |-> old.sum,
                 paths |-> { p \in old.paths : ~IsWithinSubtree(p, path) }]
    BY <1>1, <1>2
  <1>4. IsGroup(group)
    BY <1>3 DEF IsGroup
  <1>5. ASSUME NEW p \in group.paths PROVE ~IsIgnored(p, S \cup { path })
    BY <1>2, <1>3 DEF IsIgnored, IsWithinSubtree
  <1> QED
    BY <1>4, <1>5

\* So does removing one occurrence.
LEMMA RemoveKeepsOut ==
    ASSUME NEW groups, NEW S, NEW path, KeepsOut(groups, S)
    PROVE  KeepsOut(RemoveOccurrence(groups, path), S)
  <1> SUFFICES ASSUME NEW group \in RemoveOccurrence(groups, path)
               PROVE  /\ IsGroup(group)
                      /\ \A p \in group.paths : ~IsIgnored(p, S)
    BY DEF KeepsOut
  <1>1. PICK old \in groups : group = [old EXCEPT !.paths = @ \ { path }]
    BY DEF RemoveOccurrence
  <1>2. /\ old = [kind |-> old.kind, sum |-> old.sum, paths |-> old.paths]
        /\ \A p \in old.paths : ~IsIgnored(p, S)
    BY DEF KeepsOut, IsGroup
  <1>3. group = [kind |-> old.kind, sum |-> old.sum, paths |-> old.paths \ { path }]
    BY <1>1, <1>2
  <1> QED
    BY <1>2, <1>3 DEF IsGroup

\* The filter of the grouping phase keeps out what it is given.
LEMMA FilterKeepsOut ==
    ASSUME NEW groups, NEW S, \A group \in groups : IsGroup(group)
    PROVE  KeepsOut(WithoutIgnored(groups, S), S)
  <1> SUFFICES ASSUME NEW group \in WithoutIgnored(groups, S)
               PROVE  /\ IsGroup(group)
                      /\ \A p \in group.paths : ~IsIgnored(p, S)
    BY DEF KeepsOut
  <1>1. PICK old \in groups :
           group = [old EXCEPT !.paths = { p \in @ : ~IsIgnored(p, S) }]
    BY DEF WithoutIgnored
  <1>2. old = [kind |-> old.kind, sum |-> old.sum, paths |-> old.paths]
    BY DEF IsGroup
  <1>3. group = [kind |-> old.kind, sum |-> old.sum,
                 paths |-> { p \in old.paths : ~IsIgnored(p, S) }]
    BY <1>1, <1>2
  <1> QED
    BY <1>3 DEF IsGroup

\* The results of a run keep out what it ignores.
LEMMA BuildKeepsOut ==
    ASSUME NEW table, NEW dirTable, NEW S, NEW seq, NEW includeFolders
    PROVE  KeepsOut(BuildGroups(table, dirTable, S, seq, includeFolders), S)
  <1> DEFINE tree == DeriveFolders(table, dirTable, S, seq)
             fileGroups == FindDuplicateFileGroups(table, seq)
             folderGroups == FindDuplicateDirectoryGroups(tree)
  <1>1. \A group \in fileGroups : IsGroup(group)
    BY DEF FindDuplicateFileGroups, Group, IsGroup
  <1>2. \A group \in folderGroups : IsGroup(group)
    BY DEF FindDuplicateDirectoryGroups, Group, IsGroup
  <1> HIDE DEF tree, fileGroups, folderGroups
  <1>3. KeepsOut(WithoutIgnored(fileGroups, S), S)
    BY <1>1, FilterKeepsOut
  <1>4. KeepsOut(WithoutIgnored(folderGroups, S), S)
    BY <1>2, FilterKeepsOut
  <1>5. BuildGroups(table, dirTable, S, seq, includeFolders)
           \subseteq WithoutIgnored(fileGroups, S) \cup WithoutIgnored(folderGroups, S)
    BY DEF BuildGroups, tree, fileGroups, folderGroups
  <1> QED
    BY <1>3, <1>4, <1>5 DEF KeepsOut
-----------------------------------------------------------------------------
(* The run's slot *)

HasFields(run) == { "at", "ignored" } \subseteq DOMAIN run

\* The run under way, if any, is known to the status and to Stop.
OneSlot ==
    /\ runs = [run \in RunId |-> runs[run]]
    /\ \A run \in Live : HasFields(runs[run])
    /\ status \in [seq : Nat, root : Dir \cup { Root }, folders : BOOLEAN,
                   state : { "idle", "running", "finished", "stopped", "failed" }]
    /\ \/ Live = { } /\ controller = 0 /\ ~IsRunning
       \/ \E run \in RunId : Live = { run } /\ controller = run /\ IsRunning

\* A request for a scan waits alone, and for nobody.
Start == [root : Dir, folders : BOOLEAN]

OneStart ==
    /\ starts \in Seq(Start)
    /\ Len(starts) <= 1
    /\ starts # << >> => Live = { }

\* A step of a run that stays under way.
Moves(run) ==
    /\ run \in Live
    /\ runs' = [other \in RunId |-> IF other = run THEN runs'[run] ELSE runs[other]]
    /\ runs'[run].at # "off"
    /\ runs'[run].ignored = runs[run].ignored
    /\ HasFields(runs'[run])
    /\ UNCHANGED << status, controller >>

\* A step that ends a run.
Ends(run) ==
    /\ run \in Live
    /\ \E state \in { "finished", "stopped", "failed" } : Finish(run, state)

\* A run that stays under way keeps its slot, and its list of ignored paths.
LEMMA MovesKeepsSlot ==
    ASSUME OneSlot, NEW run \in RunId, Moves(run)
    PROVE  OneSlot' /\ Live' = Live /\ \A other \in Live : runs'[other].ignored = runs[other].ignored
  <1>1. Live = { run }
    BY DEF OneSlot, Moves
  <1>2. \A other \in RunId : other # run => runs'[other] = runs[other]
    BY DEF Moves
  <1>3. Live' = { run }
    BY <1>1, <1>2 DEF Live, Moves
  <1>4. /\ runs' = [other \in RunId |-> runs'[other]]
        /\ HasFields(runs'[run])
    BY DEF Moves
  <1>5. UNCHANGED << status, controller, IsRunning >>
    BY DEF Moves, IsRunning
  <1> QED
    BY <1>1, <1>3, <1>4, <1>5 DEF OneSlot, Moves

\* A run that ends leaves the slot empty.
LEMMA EndsKeepsSlot ==
    ASSUME OneSlot, NEW run \in RunId, Ends(run)
    PROVE  OneSlot' /\ Live' = { }
  <1>1. PICK state \in { "finished", "stopped", "failed" } : Finish(run, state)
    BY DEF Ends
  <1>2. Live = { run } /\ controller = run
    BY DEF OneSlot, Ends
  <1>3. runs' = [other \in RunId |-> IF other = run THEN NoRun ELSE runs[other]]
    BY <1>1 DEF Finish, OneSlot
  <1>4. Live' = { }
    BY <1>2, <1>3 DEF Live, NoRun
  <1>5. controller' = 0
    BY <1>1, <1>2 DEF Finish
  <1>6. status' = [status EXCEPT !.state = state]
    BY <1>1 DEF Finish
  <1>7. ~IsRunning'
    BY <1>6 DEF IsRunning, OneSlot
  <1> QED
    BY <1>3, <1>4, <1>5, <1>6, <1>7 DEF OneSlot

\* Every step of a run moves it or ends it.
LEMMA RunStepCases ==
    ASSUME OneSlot, NEW run \in RunId,
           \/ ListNext(run) \/ LookAt(run) \/ ListRejects(run)
           \/ ListDirectory(run) \/ RestatFile(run) \/ ForgetVanished(run)
           \/ Query(run) \/ HashingEnds(run) \/ HashingStops(run) \/ HashNext(run)
           \/ ReadFile(run) \/ ReadFails(run)
           \/ ClearResults(run) \/ SaveGroups(run)
    PROVE  Moves(run) \/ Ends(run)
  <1> USE DEF OneSlot, HasFields, Live, Goes
  <1>1. CASE ListNext(run)
    <2>1. CASE ListingEnds(run, runs[run].stack # << >>)
      BY <1>1, <2>1 DEF ListNext, ListingEnds, Moves, Ends
    <2>2. CASE ~ListingEnds(run, runs[run].stack # << >>)
      BY <1>1, <2>2 DEF ListNext, Moves
    <2> QED
      BY <2>1, <2>2
  <1>2. CASE LookAt(run)
    <2>1. run \in Live /\ UNCHANGED << status, controller >>
      BY <1>2 DEF LookAt
    <2>2. CASE \E bad \in SUBSET { entry \in Children(runs[run].path) :
                                     entry.path \in Flaky } :
                  runs' = [runs EXCEPT
                     ![run].at = "listed",
                     ![run].found = Listing(Children(runs[run].path) \ bad,
                                            Inner(runs[run].path), bad # {}),
                     ![run].missed = @ \cup { entry.path : entry \in bad }]
      <3>1. PICK bad :
                  runs' = [runs EXCEPT
                     ![run].at = "listed",
                     ![run].found = Listing(Children(runs[run].path) \ bad,
                                            Inner(runs[run].path), bad # {}),
                     ![run].missed = @ \cup { entry.path : entry \in bad }]
        BY <2>2
      <3> QED
        BY <3>1, <2>1 DEF Moves
    <2>3. CASE runs' = [runs EXCEPT ![run].at = "listed",
                     ![run].found = Listing({}, {}, TRUE),
                     ![run].missed = @ \cup Under(runs[run].path)
                                       \cup { runs[run].path }]
      BY <2>3, <2>1 DEF Moves
    <2> QED
      BY <1>2, <2>2, <2>3 DEF LookAt
  <1>3. CASE ListRejects(run)
    BY <1>3 DEF ListRejects, Ends
  <1>4. CASE ListDirectory(run)
    <2>1. run \in Live /\ UNCHANGED << status, controller >>
      BY <1>4 DEF ListDirectory
    <2> DEFINE now == runs[run]
               entries == { entry \in now.found.files :
                              ~IsIgnored(entry.path, now.ignored) }
               inner == { dir \in now.found.dirs : ~IsIgnored(dir, now.ignored) }
               seen == IF now.kind = "scan" THEN {}
                       ELSE now.seen \cup { entry.path : entry \in entries }
    <2>2. PICK order \in Orderings(inner) :
             runs' = [runs EXCEPT
                ![run].at = "list", ![run].found = { },
                ![run].stack = @ \o order,
                ![run].seen = IF now.kind = "scan" THEN {}
                              ELSE @ \cup { entry.path : entry \in entries }]
      BY <1>4 DEF ListDirectory
    <2> HIDE DEF entries, inner
    <2>3. /\ runs' = [other \in RunId |-> IF other = run THEN runs'[run] ELSE runs[other]]
          /\ runs'[run] = [now EXCEPT !.at = "list", !.found = { },
                                       !.stack = now.stack \o order,
                                       !.seen = seen]
      BY <2>2
    <2> QED
      BY <2>1, <2>3 DEF Moves
  <1>5. CASE RestatFile(run)
    BY <1>5 DEF RestatFile, Moves
  <1>6. CASE ForgetVanished(run)
    BY <1>6 DEF ForgetVanished, Moves
  <1>7. CASE Query(run)
    BY <1>7 DEF Query, Moves
  <1>8. CASE HashingEnds(run)
    BY <1>8 DEF HashingEnds, Moves
  <1>9. CASE HashingStops(run)
    BY <1>9 DEF HashingStops, Moves
  <1>10. CASE HashNext(run)
    <2>1. PICK candidate \in runs[run].todo :
             \/ runs' = [runs EXCEPT ![run].todo = @ \ { candidate }]
             \/ runs' = [runs EXCEPT ![run].at = "reading", ![run].found = candidate]
      BY <1>10 DEF HashNext
    <2>2. run \in Live /\ UNCHANGED << status, controller >>
      BY <1>10 DEF HashNext
    <2> QED
      BY <2>1, <2>2 DEF Moves
  <1>11. CASE ReadFile(run)
    BY <1>11 DEF ReadFile, Moves
  <1>12. CASE ReadFails(run)
    BY <1>12 DEF ReadFails, Moves
  <1>13. CASE ClearResults(run)
    BY <1>13 DEF ClearResults, Moves
  <1>14. CASE SaveGroups(run)
    BY <1>14 DEF SaveGroups, Outcome, Ends
  <1> QED
    BY <1>1, <1>2, <1>3, <1>4, <1>5, <1>6, <1>7, <1>8, <1>9, <1>10, <1>11, <1>12,
       <1>13, <1>14
-----------------------------------------------------------------------------
(* The inductive invariant *)

\* What must be out of the results, and known to the run that will write them.
Settled == ignored \ late

ResultsKeepOut ==
    /\ results = [seq |-> results.seq, groups |-> results.groups]
    /\ KeepsOut(results.groups, Settled)

RunsKnow == \A run \in Live : Settled \subseteq runs[run].ignored

IInv == OneSlot /\ OneStart /\ ResultsKeepOut /\ RunsKnow

\* Nothing runs and nothing is reported at first.
LEMMA InitIInv == Init => IInv
  <1> SUFFICES ASSUME Init PROVE IInv
    OBVIOUS
  <1>1. Live = { }
    BY DEF Init, Live, NoRun
  <1>2. OneSlot
    BY <1>1 DEF Init, OneSlot, NoRun, IsRunning
  <1>3. OneStart
    BY <1>1 DEF Init, OneStart
  <1>4. ResultsKeepOut
    BY DEF Init, ResultsKeepOut, KeepsOut
  <1> QED
    BY <1>1, <1>2, <1>3, <1>4 DEF IInv, RunsKnow

\* A step that leaves the results, the ignored paths and what the runs know of
\* them alone.
LEMMA QuietKeeps ==
    ASSUME ResultsKeepOut, RunsKnow, UNCHANGED << results, ignored, late >>,
           \A run \in Live' : run \in Live /\ runs'[run].ignored = runs[run].ignored
    PROVE  ResultsKeepOut' /\ RunsKnow'
  <1>1. Settled' = Settled
    BY DEF Settled
  <1> QED
    BY <1>1 DEF ResultsKeepOut, RunsKnow

\* A run that begins takes the slot, and knows what is ignored.
LEMMA BeginKeeps ==
    ASSUME OneSlot, Live = { }, ResultsKeepOut,
           NEW kind, NEW scope, NEW seq, NEW includeFolders, NEW before,
           Begin(kind, scope, seq, includeFolders, before),
           status' \in [seq : Nat, root : Dir \cup { Root }, folders : BOOLEAN,
                        state : { "running" }],
           UNCHANGED << results, ignored, late >>
    PROVE  OneSlot' /\ ResultsKeepOut' /\ RunsKnow'
  <1>1. PICK run \in RunId :
           /\ runs' = [runs EXCEPT ![run] =
              [at |-> IF scope \in before THEN "listing" ELSE "list",
               path |-> IF scope \in before THEN ParentPath(scope) ELSE scope,
               kind |-> kind, scope |-> scope, seq |-> seq,
               folders |-> includeFolders, ignored |-> ignored,
               aborted |-> FALSE, cut |-> FALSE, stack |-> << scope >>,
               found |-> { }, before |-> before, seen |-> { },
               stage |-> "partial", todo |-> { }, missed |-> { }]]
           /\ controller' = run
    BY DEF Begin
  <1>2. /\ runs' = [other \in RunId |-> IF other = run THEN runs'[run] ELSE runs[other]]
        /\ runs'[run].at # "off"
        /\ runs'[run].ignored = ignored
        /\ HasFields(runs'[run])
    BY <1>1 DEF OneSlot, HasFields
  <1>3. Live' = { run }
    BY <1>2 DEF Live
  <1>4. IsRunning'
    BY DEF IsRunning
  <1>5. runs' = [other \in RunId |-> runs'[other]]
    BY <1>2
  <1>6. OneSlot'
    BY <1>1, <1>2, <1>3, <1>4, <1>5 DEF OneSlot
  <1>7. Settled' = Settled /\ Settled \subseteq ignored
    BY DEF Settled
  <1>8. ResultsKeepOut' /\ RunsKnow'
    BY <1>2, <1>3, <1>7 DEF ResultsKeepOut, RunsKnow
  <1> QED
    BY <1>6, <1>8

\* A step of a run.
LEMMA RunStepKeeps ==
    ASSUME IInv, RunStep
    PROVE  IInv'
  <1> USE DEF IInv
  <1>1. PICK run \in RunId :
           \/ ListNext(run) \/ LookAt(run) \/ ListRejects(run)
           \/ ListDirectory(run) \/ RestatFile(run) \/ ForgetVanished(run)
           \/ Query(run) \/ HashingEnds(run) \/ HashingStops(run) \/ HashNext(run)
           \/ ReadFile(run) \/ ReadFails(run)
           \/ ClearResults(run) \/ SaveGroups(run)
    BY DEF RunStep
  <1>2. Moves(run) \/ Ends(run)
    BY <1>1, RunStepCases
  <1>3. /\ OneSlot'
        /\ Live' \subseteq Live
        /\ \A other \in Live' : runs'[other].ignored = runs[other].ignored
    BY <1>2, MovesKeepsSlot, EndsKeepsSlot
  <1>4. UNCHANGED << starts, ignored >>
    BY <1>1 DEF ListNext, LookAt, ListRejects, ListDirectory, RestatFile, ForgetVanished,
       Query, HashingEnds, HashingStops, HashNext, ReadFile, ReadFails, ClearResults,
       SaveGroups, RunUnchanged, requestVars
  <1>5. OneStart'
    BY <1>3, <1>4 DEF OneStart
  <1>6. CASE UNCHANGED << results, late >>
    BY <1>3, <1>4, <1>5, <1>6, QuietKeeps
  <1>7. CASE ClearResults(run)
    <2>1. late' = late /\ results' = [results EXCEPT !.groups = {}]
      BY <1>7 DEF ClearResults, historyVars
    <2>2. results' = [seq |-> results'.seq, groups |-> results'.groups] /\ results'.groups = { }
      BY <2>1 DEF ResultsKeepOut
    <2>3. ResultsKeepOut'
      BY <2>2 DEF ResultsKeepOut, KeepsOut
    <2>4. RunsKnow'
      BY <1>3, <1>4, <2>1 DEF RunsKnow, Settled
    <2> QED
      BY <1>3, <1>5, <2>3, <2>4
  <1>8. CASE SaveGroups(run)
    <2>1. /\ results' = [seq |-> runs[run].seq,
                         groups |-> BuildGroups(files, folders, runs[run].ignored,
                                                runs[run].seq, FoldersDerived(run))]
          /\ late' = late \ runs[run].ignored
      BY <1>8 DEF SaveGroups
    <2>2. run \in Live
      BY <1>2 DEF Moves, Ends
    <2>3. KeepsOut(results'.groups, runs[run].ignored)
      BY <2>1, BuildKeepsOut
    <2>4. Settled' \subseteq runs[run].ignored
      BY <1>4, <2>1, <2>2 DEF RunsKnow, Settled
    <2>5. KeepsOut(results'.groups, Settled')
      BY <2>3, <2>4, KeepsOutLess
    <2>6. results' = [seq |-> results'.seq, groups |-> results'.groups]
      BY <2>1
    <2>7. ResultsKeepOut'
      BY <2>5, <2>6 DEF ResultsKeepOut
    <2>8. Live' = { }
      BY <1>8, <2>2, EndsKeepsSlot DEF SaveGroups, Outcome, Ends
    <2> QED
      BY <1>3, <1>5, <2>7, <2>8 DEF RunsKnow
  <1> QED
    BY <1>1, <1>6, <1>7, <1>8 DEF ListNext, LookAt, ListRejects, ListDirectory, RestatFile,
       ForgetVanished, Query, HashingEnds, HashingStops, HashNext, ReadFile, ReadFails,
       historyVars

\* The request that was checked is the only one that waits.
LEMMA InspectedKeeps ==
    ASSUME IInv, NEW index \in DOMAIN starts, Inspected(index)
    PROVE  IInv'
  <1> USE DEF IInv
  <1>1. /\ starts \in Seq(Start) /\ Len(starts) = 1 /\ index = 1
        /\ Live = { }
    <2>1. starts \in Seq(Start) /\ Len(starts) <= 1
      BY DEF OneStart
    <2>2. Len(starts) \in Nat /\ DOMAIN starts = 1..Len(starts)
      BY <2>1, LenProperties
    <2>3. index \in 1..Len(starts)
      BY <2>2
    <2>4. Len(starts) = 1 /\ index = 1
      BY <2>1, <2>2, <2>3
    <2>5. starts # << >>
      BY <2>4
    <2> QED
      BY <2>1, <2>4, <2>5 DEF OneStart
  <1>2. starts[index] \in Start
    BY <1>1
  <1>3. starts' = << >>
    BY <1>1 DEF Inspected
  <1>4. OneStart'
    BY <1>3 DEF OneStart
  <1>5. UNCHANGED << results, ignored, late >>
    BY DEF Inspected, historyVars
  <1>6. CASE UNCHANGED << status, runs, controller, thread >>
    <2>1. UNCHANGED << Live, IsRunning >>
      BY <1>6 DEF Live, IsRunning
    <2>2. OneSlot'
      BY <1>6, <2>1 DEF OneSlot
    <2> QED
      BY <1>1, <1>4, <1>5, <2>1, <2>2, QuietKeeps
  <1>7. ASSUME status' = [seq |-> status.seq + 1, root |-> starts[index].root,
                          folders |-> starts[index].folders, state |-> "running"],
               Begin("scan", starts[index].root, status.seq + 1,
                     starts[index].folders, {})
        PROVE  IInv'
    <2>1. status' \in [seq : Nat, root : Dir \cup { Root }, folders : BOOLEAN,
                       state : { "running" }]
      BY <1>2, <1>7 DEF OneSlot, Start
    <2> QED
      BY <1>1, <1>4, <1>5, <1>7, <2>1, BeginKeeps
  <1> QED
    BY <1>6, <1>7 DEF Inspected

\* A refresh waits for nobody, and takes the slot at once.
LEMMA RefreshKeeps ==
    ASSUME IInv, Overlap = FALSE, NEW scope, RequestRefresh(scope)
    PROVE  IInv'
  <1> USE DEF IInv
  <1>1. starts = << >> /\ starts' = << >> /\ UNCHANGED << results, ignored, late >>
    BY DEF RequestRefresh, Undisturbed, historyVars
  <1>2. Live = { }
    BY DEF RequestRefresh, OneSlot
  <1>3. status' \in [seq : Nat, root : Dir \cup { Root }, folders : BOOLEAN,
                     state : { "running" }]
    BY DEF RequestRefresh, OneSlot
  <1>4. Begin("refresh", scope, status.seq, status.folders, RecordedUnder(scope))
    BY DEF RequestRefresh
  <1>5. OneSlot' /\ ResultsKeepOut' /\ RunsKnow'
    BY <1>1, <1>2, <1>3, <1>4, BeginKeeps
  <1> QED
    BY <1>1, <1>5 DEF OneStart

\* A request that leaves the runs and the slot alone.
LEMMA SlotUnchanged ==
    ASSUME OneSlot, UNCHANGED << runs, status, controller >>
    PROVE  OneSlot' /\ Live' = Live
  <1>1. UNCHANGED << Live, IsRunning >>
    BY DEF Live, IsRunning
  <1> QED
    BY <1>1 DEF OneSlot

\* A scan that is asked for waits, and nothing runs meanwhile.
LEMMA ScanKeeps ==
    ASSUME IInv, Overlap = FALSE, NEW root \in Dir, NEW includeFolders \in BOOLEAN,
           RequestScan(root, includeFolders)
    PROVE  IInv'
  <1> USE DEF IInv
  <1>1. /\ UNCHANGED << runs, status, controller, results, ignored, late >>
        /\ starts = << >> /\ ~IsRunning
        /\ starts' = Append(starts, [root |-> root, folders |-> includeFolders])
    BY DEF RequestScan, Undisturbed, historyVars
  <1>2. OneSlot' /\ Live' = Live
    BY <1>1, SlotUnchanged
  <1>3. Live = { }
    BY <1>1 DEF OneSlot
  <1>4. starts' \in Seq(Start) /\ Len(starts') = 1
    BY <1>1 DEF Start
  <1>5. OneStart'
    BY <1>2, <1>3, <1>4 DEF OneStart
  <1> QED
    BY <1>1, <1>2, <1>5, QuietKeeps

\* Stop reaches the run and only marks it.
LEMMA StopKeeps ==
    ASSUME IInv, RequestStop
    PROVE  IInv'
  <1> USE DEF IInv
  <1>1. /\ UNCHANGED << status, controller, results, ignored, late, starts >>
        /\ controller # 0
        /\ runs' = [runs EXCEPT ![controller].aborted = TRUE]
    BY DEF RequestStop, historyVars
  <1>2. controller \in RunId /\ Live = { controller }
    BY <1>1 DEF OneSlot
  <1>3. /\ runs' = [other \in RunId |-> IF other = controller THEN runs'[controller]
                                                               ELSE runs[other]]
        /\ runs'[controller] = [runs[controller] EXCEPT !.aborted = TRUE]
    BY <1>1, <1>2 DEF OneSlot
  <1>4. runs[controller].at # "off"
    BY <1>2 DEF Live
  <1>5. Moves(controller)
    BY <1>1, <1>2, <1>3, <1>4 DEF OneSlot, HasFields, Moves
  <1>6. OneSlot' /\ Live' = Live /\ \A other \in Live : runs'[other].ignored = runs[other].ignored
    BY <1>2, <1>5, MovesKeepsSlot
  <1>7. OneStart'
    BY <1>1, <1>6 DEF OneStart
  <1> QED
    BY <1>1, <1>6, <1>7, QuietKeeps

\* A deletion takes occurrences out of the results.
LEMMA DeletionKeeps ==
    ASSUME IInv, NEW deletion,
           Described(deletion) \/ MoveToTrash(deletion) \/ RemoveDeleted(deletion)
    PROVE  IInv'
  <1> USE DEF IInv
  <1>1. UNCHANGED << runs, status, controller, starts, ignored, late >>
    BY DEF Described, MoveToTrash, RemoveDeleted, historyVars
  <1>2. OneSlot' /\ Live' = Live /\ OneStart' /\ RunsKnow'
    BY <1>1, SlotUnchanged DEF OneStart, RunsKnow, Settled
  <1>3. \/ results' = results
        \/ results' = [results EXCEPT !.groups = PruneUnder(@, deletion.path)]
        \/ results' = [results EXCEPT !.groups = RemoveOccurrence(@, deletion.path)]
    BY DEF Described, MoveToTrash, RemoveDeleted
  <1>4. Settled' = Settled
    BY <1>1 DEF Settled
  <1>5. /\ results' = [seq |-> results'.seq, groups |-> results'.groups]
        /\ \/ results'.groups = results.groups
           \/ results'.groups = PruneUnder(results.groups, deletion.path)
           \/ results'.groups = RemoveOccurrence(results.groups, deletion.path)
    BY <1>3 DEF ResultsKeepOut
  <1>6. KeepsOut(results'.groups, Settled)
    <2>1. KeepsOut(PruneUnder(results.groups, deletion.path), Settled \cup { deletion.path })
      BY PruneKeepsOut DEF ResultsKeepOut
    <2>2. KeepsOut(PruneUnder(results.groups, deletion.path), Settled)
      BY <2>1, KeepsOutLess
    <2>3. KeepsOut(RemoveOccurrence(results.groups, deletion.path), Settled)
      BY RemoveKeepsOut DEF ResultsKeepOut
    <2> QED
      BY <1>5, <2>2, <2>3 DEF ResultsKeepOut
  <1> QED
    BY <1>2, <1>4, <1>5, <1>6 DEF ResultsKeepOut

\* A path that is ignored leaves the results at once; a run under way need not
\* know it.
LEMMA SetIgnoredKeeps ==
    ASSUME IInv, NEW path, SetIgnored(path)
    PROVE  IInv'
  <1> USE DEF IInv
  <1>1. /\ UNCHANGED << runs, status, controller, starts >>
        /\ ignored' = ignored \cup { path }
        /\ late' = IF Live = {} THEN late ELSE late \cup { path }
        /\ results' = [results EXCEPT !.groups = PruneUnder(@, path)]
    BY DEF SetIgnored
  <1>2. OneSlot' /\ Live' = Live /\ OneStart'
    BY <1>1, SlotUnchanged DEF OneStart
  <1>3. RunsKnow'
    BY <1>1, <1>2 DEF RunsKnow, Settled
  <1>4. results' = [seq |-> results'.seq, groups |-> results'.groups]
        /\ results'.groups = PruneUnder(results.groups, path)
    BY <1>1 DEF ResultsKeepOut
  <1>5. KeepsOut(results'.groups, Settled \cup { path })
    BY <1>4, PruneKeepsOut DEF ResultsKeepOut
  <1>6. Settled' \subseteq Settled \cup { path }
    BY <1>1 DEF Settled
  <1>7. KeepsOut(results'.groups, Settled')
    BY <1>5, <1>6, KeepsOutLess
  <1> QED
    BY <1>2, <1>3, <1>4, <1>7 DEF ResultsKeepOut

\* A path that is no longer ignored asks less of everybody.
LEMMA ClearIgnoredKeeps ==
    ASSUME IInv, NEW path, ClearIgnored(path)
    PROVE  IInv'
  <1> USE DEF IInv
  <1>1. /\ UNCHANGED << runs, status, controller, starts, results >>
        /\ ignored' = ignored \ { path } /\ late' = late \ { path }
    BY DEF ClearIgnored
  <1>2. OneSlot' /\ Live' = Live /\ OneStart'
    BY <1>1, SlotUnchanged DEF OneStart
  <1>3. Settled' \subseteq Settled
    BY <1>1 DEF Settled
  <1>4. RunsKnow'
    BY <1>1, <1>2, <1>3 DEF RunsKnow
  <1>5. KeepsOut(results.groups, Settled')
    BY <1>3, KeepsOutLess DEF ResultsKeepOut
  <1> QED
    BY <1>1, <1>2, <1>4, <1>5 DEF ResultsKeepOut

\* What other programs do only tells a run what it missed.
LEMMA TouchKeeps ==
    ASSUME IInv, NEW changed, Touch(changed),
           UNCHANGED << results, ignored, status, controller, starts, late >>
    PROVE  IInv'
  <1> USE DEF IInv
  <1>1. runs' = [run \in RunId |->
           IF run \in Live THEN [runs[run] EXCEPT !.missed = @ \cup changed]
                           ELSE runs[run]]
    BY DEF Touch
  <1>2. ASSUME NEW run \in Live
        PROVE  /\ runs'[run].at = runs[run].at
               /\ runs'[run].ignored = runs[run].ignored
               /\ HasFields(runs'[run])
    <2>1. run \in RunId /\ HasFields(runs[run])
      BY <1>2 DEF Live, OneSlot
    <2>2. runs'[run] = [runs[run] EXCEPT !.missed = runs[run].missed \cup changed]
      BY <1>1, <1>2, <2>1
    <2> QED
      BY <2>1, <2>2 DEF HasFields
  <1>3. Live' = Live
    BY <1>1, <1>2 DEF Live
  <1>4. runs' = [run \in RunId |-> runs'[run]]
    BY <1>1
  <1>5. IsRunning' = IsRunning
    BY DEF IsRunning
  <1>6. OneSlot'
    BY <1>2, <1>3, <1>4, <1>5 DEF OneSlot
  <1>7. OneStart'
    BY <1>3 DEF OneStart
  <1> QED
    BY <1>2, <1>3, <1>6, <1>7, QuietKeeps

\* A restart leaves no run and prunes the results.
LEMMA RestartKeeps ==
    ASSUME IInv, Restart
    PROVE  IInv'
  <1> USE DEF IInv
  <1>1. /\ runs' = [run \in RunId |-> NoRun] /\ controller' = 0 /\ starts' = << >>
        /\ late' = { } /\ ignored' = ignored
    BY DEF Restart
  <1>2. Live' = { }
    BY <1>1 DEF Live, NoRun
  <1>3. status' = [status EXCEPT !.state = IF @ = "running" THEN "stopped" ELSE @]
    BY DEF Restart
  <1>4. ~IsRunning'
    BY <1>3 DEF IsRunning, OneSlot
  <1>5. status' \in [seq : Nat, root : Dir \cup { Root }, folders : BOOLEAN,
                     state : { "idle", "running", "finished", "stopped", "failed" }]
    BY <1>3 DEF OneSlot
  <1>6. OneSlot'
    BY <1>1, <1>2, <1>4, <1>5 DEF OneSlot
  <1>7. OneStart' /\ RunsKnow'
    BY <1>1, <1>2 DEF OneStart, RunsKnow
  <1>8. results' = [results EXCEPT !.groups = WithoutIgnored(@, ignored)]
    BY DEF Restart
  <1>9. /\ results' = [seq |-> results'.seq, groups |-> results'.groups]
        /\ results'.groups = WithoutIgnored(results.groups, ignored)
    BY <1>8 DEF ResultsKeepOut
  <1>10. KeepsOut(results'.groups, ignored)
    BY <1>9, FilterKeepsOut DEF ResultsKeepOut, KeepsOut
  <1>11. Settled' = ignored
    BY <1>1 DEF Settled
  <1> QED
    BY <1>6, <1>7, <1>9, <1>10, <1>11 DEF ResultsKeepOut

\* Every step keeps the invariant.
LEMMA NextKeeps ==
    ASSUME IInv, Overlap = FALSE, [Next]_vars
    PROVE  IInv'
  <1>1. CASE RunStep
    BY <1>1, RunStepKeeps
  <1>2. CASE RequestStop
    BY <1>2, StopKeeps
  <1>3. CASE \E root \in ScanRoots, includeFolders \in FolderModes :
                RequestScan(root, includeFolders)
    BY <1>3, ScanKeeps, ScanAssumption
  <1>4. CASE \E index \in DOMAIN starts : Inspected(index)
    BY <1>4, InspectedKeeps
  <1>5. CASE \E scope \in Refreshable : RequestRefresh(scope)
    BY <1>5, RefreshKeeps
  <1>6. CASE \E path \in Deletable : RequestDelete(path)
    <2>1. UNCHANGED << runs, status, controller, starts, results, ignored, late >>
      BY <1>6 DEF RequestDelete, historyVars
    <2> QED
      BY <2>1, SlotUnchanged, QuietKeeps DEF IInv, OneStart
  <1>7. CASE \E deletion \in deletions :
                Described(deletion) \/ MoveToTrash(deletion) \/ RemoveDeleted(deletion)
    BY <1>7, DeletionKeeps
  <1>8. CASE \E path \in Ignorable : SetIgnored(path) \/ ClearIgnored(path)
    BY <1>8, SetIgnoredKeeps, ClearIgnoredKeeps
  <1>9. CASE \E edit \in Edits : Edit(edit[1], edit[2])
    <2>1. PICK edit \in Edits : Edit(edit[1], edit[2])
      BY <1>9
    <2> QED
      BY <2>1, TouchKeeps DEF Edit, historyVars
  <1>10. CASE \E path \in Removable : RemoveDir(path)
    <2>1. PICK path \in Removable : RemoveDir(path)
      BY <1>10
    <2> QED
      BY <2>1, TouchKeeps DEF RemoveDir, historyVars
  <1>11. CASE Restart
    BY <1>11, RestartKeeps
  <1>12. CASE UNCHANGED vars
    BY <1>12, SlotUnchanged, QuietKeeps DEF IInv, OneStart, vars, requestVars, historyVars
  <1> QED
    BY <1>1, <1>2, <1>3, <1>4, <1>5, <1>6, <1>7, <1>8, <1>9, <1>10, <1>11, <1>12 DEF Next

\* IInv holds of every behaviour in which requests do not overlap.
THEOREM Inductive ==
    ASSUME Overlap = FALSE
    PROVE  Spec => []IInv
  <1>1. IInv /\ [Next]_vars => IInv'
    BY NextKeeps
  <1> QED
    BY InitIInv, <1>1, PTL DEF Spec

-----------------------------------------------------------------------------
(* What the code promises *)

\* FR-008: if no request is made while another is being checked, there is at
\* most one run, the status says whether there is one, and Stop reaches it,
\* whatever the paths, their contents and the number of runs allowed for.
THEOREM OneRun ==
    ASSUME Overlap = FALSE
    PROVE  Spec => []OneRunAtATime
  <1>1. ASSUME IInv PROVE OneRunAtATime
    <2>1. CASE Live = { }
      <3>1. Cardinality(Live) = 0
        BY <2>1, FS_EmptySet
      <3> QED
        BY <1>1, <2>1, <3>1 DEF IInv, OneSlot, OneRunAtATime
    <2>2. CASE Live # { }
      <3>1. PICK run \in RunId : Live = { run } /\ controller = run /\ IsRunning
        BY <1>1, <2>2 DEF IInv, OneSlot
      <3>2. Cardinality(Live) = 1
        BY <3>1, FS_Singleton
      <3> QED
        BY <3>1, <3>2 DEF OneRunAtATime
    <2> QED
      BY <2>1, <2>2
  <1> QED
    BY <1>1, Inductive, PTL

\* FR-026, FR-027: an ignored path, and what is beneath it, is in no group
\* that is shown, unless it was ignored during a run; no scan, deletion,
\* refresh or restart brings it back.
THEOREM IgnoredStayOut ==
    ASSUME Overlap = FALSE
    PROVE  Spec => []IgnoredIsNotReported
  <1>1. ASSUME IInv PROVE IgnoredIsNotReported
    <2>1. KeepsOut(results.groups, ignored \ late)
      BY <1>1 DEF IInv, ResultsKeepOut, Settled
    <2>2. Visible \subseteq results.groups
      BY DEF Visible
    <2> QED
      BY <2>1, <2>2 DEF IgnoredIsNotReported, KeepsOut
  <1> QED
    BY <1>1, Inductive, PTL

-----------------------------------------------------------------------------
(* The recursive definition of the folders' checksums is a function *)

\* A set of naturals has a least member.
LEMMA LeastNatural ==
    ASSUME NEW T \in SUBSET Nat, T # { }
    PROVE  \E n \in T : \A m \in T : n <= m
  <1>1. PICK n \in T : \A m \in T : ~ (<< m, n >> \in OpToRel(<, Nat))
    BY NatLessThanWellFounded, WFMin, Zenon
  <1>2. \A m \in T : ~ (m < n)
    BY <1>1 DEF OpToRel
  <1> QED
    BY <1>2

\* Paths have bounded lengths.
LEMMA DepthIsBounded == \E bound \in Nat : \A place \in Place : Len(place) < bound
  <1> DEFINE Bounded(S) == \E bound \in Nat : \A place \in S : Len(place) < bound
             T == { S \in SUBSET Place : ~Bounded(S) }
  <1> SUFFICES ASSUME T # { } PROVE FALSE
    <2>1. Place \in SUBSET Place
      OBVIOUS
    <2> QED
      BY <2>1
  <1>1. IsWellFoundedOn(StrictSubsetOrdering(Place), SUBSET Place)
    BY ContentAssumption, FS_FiniteSubsetsOfFinite, FS_StrictSubsetOrderingWellFounded
  <1>2. T \subseteq SUBSET Place
    OBVIOUS
  <1>3. PICK S \in T : \A R \in T : ~ (<< R, S >> \in StrictSubsetOrdering(Place))
    <2> HIDE DEF T
    <2> QED
      BY <1>1, <1>2, WFMin, Zenon
  <1>4. S # { }
    <2>1. Bounded({ })
      BY 0 \in Nat
    <2> QED
      BY <1>3, <2>1
  <1>5. PICK place \in S : TRUE
    BY <1>4
  <1>6. Bounded(S \ { place })
    <2>1. S \ { place } \in SUBSET Place /\ S \in SUBSET Place
      BY <1>3
    <2>2. << S \ { place }, S >> \in StrictSubsetOrdering(Place)
      BY <1>5, <2>1 DEF StrictSubsetOrdering
    <2> QED
      BY <1>3, <2>1, <2>2
  <1>7. PICK bound \in Nat : \A other \in S \ { place } : Len(other) < bound
    BY <1>6
  <1>8. Len(place) \in Nat /\ \A other \in S : Len(other) \in Nat
    BY <1>3, <1>5, ContentAssumption, LenProperties
  <1>9. ASSUME NEW other \in S PROVE Len(other) < bound + Len(place) + 1
    <2> DEFINE one == Len(other)
               two == Len(place)
    <2>1. /\ one \in Nat /\ two \in Nat
          /\ other # place => one < bound
          /\ other = place => one = two
      BY <1>7, <1>8
    <2> HIDE DEF one, two
    <2>2. one < bound + two + 1
      BY <2>1
    <2> QED
      BY <2>2 DEF one, two
  <1>10. bound + Len(place) + 1 \in Nat
    BY <1>8
  <1> QED
    BY <1>3, <1>9, <1>10

\* What a directory contains is one name longer.
LEMMA ChildIsLonger ==
    ASSUME NEW child \in Place
    PROVE  Len(child) \in Nat /\ Len(ParentPath(child)) + 1 = Len(child)
  <1>1. child \in Seq(STRING) /\ child # << >>
    BY ContentAssumption DEF Root
  <1>2. Len(child) \in Nat \ { 0 }
    BY <1>1, EmptySeq, LenProperties
  <1> DEFINE last == Len(child) - 1
  <1>3. last \in Nat /\ \A i \in 1..last : i \in 1..Len(child)
    BY <1>2
  <1>4. Len(SubSeq(child, 1, last)) = last
    <2> HIDE DEF last
    <2>1. Len(SubSeq(child, 1, last)) = IF 1 <= last THEN last - 1 + 1 ELSE 0
      BY <1>1, <1>3, SubSeqProperties
    <2> QED
      BY <1>3, <2>1
  <1> QED
    BY <1>2, <1>4 DEF ParentPath

\* DeriveFolders gives every place a value.
LEMMA TreeIsTotal ==
    ASSUME NEW table, NEW dirTable, NEW S, NEW seq
    PROVE  DOMAIN DeriveFolders(table, dirTable, S, seq) = Place
  <1> DEFINE shared == FindSharedContentPaths(table, seq)
             leaf(dir) == { file \in File : /\ table[file].seq = seq
                                            /\ ParentPath(file) = dir }
             inner(dir) == { child \in Place : /\ dirTable[child].seq = seq
                                               /\ ParentPath(child) = dir }
             body(t, dir) ==
                IF /\ dirTable[dir].seq = seq
                   /\ ~dirTable[dir].incomplete
                   /\ \A path \in { dir } \cup leaf(dir) \cup inner(dir) : ~IsIgnored(path, S)
                   /\ leaf(dir) \subseteq shared
                   /\ \A child \in inner(dir) : t[child] # Underivable
                THEN FolderTree(dir, [file \in leaf(dir) |-> table[file].full], t, inner(dir))
                ELSE Underivable
             settled(t, depth) ==
                \A dir \in Place : Len(dir) >= depth => t[dir] = body(t, dir)
             total(t) == t = [dir \in Place |-> t[dir]]
  <1>1. ASSUME NEW t, NEW u, NEW dir \in Place,
               \A child \in Place : ParentPath(child) = dir => t[child] = u[child]
        PROVE  body(t, dir) = body(u, dir)
    <2>1. \A child \in inner(dir) : t[child] = u[child]
      BY <1>1
    <2>2. FolderTree(dir, [file \in leaf(dir) |-> table[file].full], t, inner(dir))
             = FolderTree(dir, [file \in leaf(dir) |-> table[file].full], u, inner(dir))
      <3> DEFINE leaves == [file \in leaf(dir) |-> table[file].full]
                 in == inner(dir)
      <3> HIDE DEF leaves, in
      <3>1. \A child \in in : t[child] = u[child]
        BY <2>1 DEF in
      <3>2. { { << << Name(child) >>, Folder >> } \cup
                { << << Name(child) >> \o node[1], node[2] >> : node \in t[child] }
               : child \in in }
            = { { << << Name(child) >>, Folder >> } \cup
                { << << Name(child) >> \o node[1], node[2] >> : node \in u[child] }
               : child \in in }
        BY <3>1
      <3>3. FolderTree(dir, leaves, t, in) = FolderTree(dir, leaves, u, in)
        BY <3>2 DEF FolderTree
      <3> QED
        BY <3>3 DEF leaves, in
    <2> HIDE DEF inner, leaf, shared
    <2> QED
      BY <2>1, <2>2
  <1> HIDE DEF body
  <1>2. PICK bound \in Nat : \A place \in Place : Len(place) < bound
    BY DepthIsBounded
  <1> DEFINE depths == { depth \in Nat : \E t : total(t) /\ settled(t, depth) }
  <1>3. bound \in depths
    <2> DEFINE t == [dir \in Place |-> Underivable]
    <2>1. total(t)
      OBVIOUS
    <2>2. \A dir \in Place : ~ (Len(dir) >= bound)
      BY <1>2, ChildIsLonger
    <2> HIDE DEF t
    <2> QED
      BY <2>1, <2>2
  <1>4. PICK depth \in depths : \A other \in depths : depth <= other
    <2>1. depths \in SUBSET Nat
      OBVIOUS
    <2> HIDE DEF depths
    <2> QED
      BY <1>3, <2>1, LeastNatural
  <1>5. PICK t : total(t) /\ settled(t, depth)
    BY <1>4
  <1>6. depth = 0
    <2> SUFFICES ASSUME depth # 0 PROVE FALSE
      OBVIOUS
    <2>1. depth \in Nat /\ depth - 1 \in Nat
      BY <1>4
    <2> DEFINE u == [dir \in Place |-> IF Len(dir) = depth - 1 THEN body(t, dir) ELSE t[dir]]
    <2>2. total(u)
      OBVIOUS
    <2>3. ASSUME NEW dir \in Place, Len(dir) >= depth - 1
          PROVE  u[dir] = body(u, dir)
      <3>1. Len(dir) \in Nat
        BY ChildIsLonger
      <3>2. ASSUME NEW child \in Place, ParentPath(child) = dir
            PROVE  t[child] = u[child]
        <4>1. Len(child) = Len(dir) + 1
          BY <3>2, ChildIsLonger
        <4>2. Len(child) # depth - 1
          BY <2>1, <2>3, <3>1, <4>1
        <4> QED
          BY <4>2
      <3> HIDE DEF u
      <3>3. body(t, dir) = body(u, dir)
        BY <1>1, <3>2
      <3>4. CASE Len(dir) = depth - 1
        BY <3>3, <3>4 DEF u
      <3>5. CASE Len(dir) # depth - 1
        <4>1. Len(dir) >= depth
          BY <2>1, <2>3, <3>1, <3>5
        <4>2. t[dir] = body(t, dir)
          BY <1>5, <4>1
        <4> QED
          BY <3>3, <3>5, <4>2 DEF u
      <3> QED
        BY <3>4, <3>5
    <2> HIDE DEF u
    <2>4. settled(u, depth - 1)
      BY <2>3
    <2>5. depth - 1 \in depths
      BY <2>1, <2>2, <2>4
    <2> HIDE DEF depths
    <2> QED
      BY <1>4, <2>1, <2>5
  <1>7. t = [dir \in Place |-> body(t, dir)]
    <2>1. \A dir \in Place : Len(dir) >= 0
      BY ChildIsLonger
    <2>2. \A dir \in Place : t[dir] = body(t, dir)
      BY <1>5, <1>6, <2>1
    <2>3. total(t)
      BY <1>5
    <2> QED
      BY <2>2, <2>3
  <1>8. DeriveFolders(table, dirTable, S, seq) = CHOOSE f : f = [dir \in Place |-> body(f, dir)]
    BY DEF DeriveFolders, body
  <1>9. \E f : f = [dir \in Place |-> body(f, dir)]
    BY <1>7
  <1>10. DeriveFolders(table, dirTable, S, seq)
           = [dir \in Place |-> body(DeriveFolders(table, dirTable, S, seq), dir)]
    BY <1>8, <1>9
  <1> QED
    BY <1>10

-----------------------------------------------------------------------------
(* Types *)

\* What a listing says of a file that is there.
RealFacts == [content : Content, mtime : Nat]

Entry == [path : File, facts : RealFacts]

Candidate == [path : File, facts : RealFacts, partial : Sum, full : Sum]

\* The parts of a run's record that come from the tables and the disk.
RunTyped(run) ==
    /\ { "at", "seq", "found", "todo" } \subseteq DOMAIN run
    /\ run.seq \in Nat \ { 0 }
    /\ run.at = "listed" => run.found.files \subseteq Entry
    /\ run.todo \subseteq Candidate
    /\ run.at = "reading" => run.found \in run.todo

RunsTyped ==
    /\ runs = [run \in RunId |-> runs[run]]
    /\ \A run \in Live : RunTyped(runs[run])
    /\ controller \in Live \cup { 0 } /\ thread \in Live \cup { 0 }

\* A row that exists holds what a listing said.
RowTyped(row) == row.seq # 0 => row.facts \in RealFacts

TablesTyped ==
    /\ files \in [File -> FileRow] /\ \A file \in File : RowTyped(files[file])
    /\ folders \in [Place -> [seq : Nat, incomplete : BOOLEAN]]

GroupTyped(group) ==
    /\ IsGroup(group)
    /\ group.kind \in { "file", "directory" }
    /\ group.paths \subseteq Place
    /\ AreMany(group)

ResultsTyped ==
    /\ results = [seq |-> results.seq, groups |-> results.groups]
    /\ results.seq \in Nat
    /\ \A group \in results.groups : GroupTyped(group)

StatusTyped ==
    /\ status \in [seq : Nat, root : Dir \cup { Root }, folders : BOOLEAN,
                   state : { "idle", "running", "finished", "stopped", "failed" }]
    /\ starts \in Seq(Start)

DiskTyped == disk \in [File -> Facts] /\ dirs \subseteq Dir

NotesTyped ==
    /\ ignored \subseteq Place /\ late \subseteq ignored
    /\ basis \in [File -> Facts]

\* Each part of the state has its type.
Typed ==
    /\ RunsTyped /\ TablesTyped /\ ResultsTyped /\ StatusTyped /\ DiskTyped
    /\ NotesTyped /\ events \in 0..MaxEvents

\* The parts together are the type invariant.
LEMMA TypedIsTypeOK == Typed => TypeOK
  BY DEF Typed, TypeOK, RunsTyped, TablesTyped, ResultsTyped, StatusTyped, DiskTyped,
         NotesTyped, GroupTyped

\* At first, the tables are empty and nothing runs.
LEMMA InitTyped == Init => Typed
  <1> SUFFICES ASSUME Init PROVE Typed
    OBVIOUS
  <1> USE DEF Init
  <1>1. Live = { }
    BY DEF Live, NoRun
  <1>2. RunsTyped
    BY <1>1 DEF RunsTyped, NoRun
  <1>3. TablesTyped
    BY DEF TablesTyped, FileRow, RowTyped, NoFile, NoFolder, Facts, Absent, Sum
  <1>4. ResultsTyped
    BY DEF ResultsTyped
  <1>5. StatusTyped
    BY DEF StatusTyped
  <1>6. DiskTyped
    <2>1. \A file \in File : InitialDisk[file] \in Content \cup { NoSum }
      BY ScanAssumption
    <2> QED
      BY <2>1 DEF DiskTyped, Facts
  <1>7. NotesTyped
    BY DEF NotesTyped, Facts, Absent
  <1>8. events \in 0..MaxEvents
    BY ScanAssumption
  <1> QED
    BY <1>2, <1>3, <1>4, <1>5, <1>6, <1>7, <1>8 DEF Typed

\* Groups that lose paths, or are dropped when few are left.
Thins(groups, old) ==
    \A group \in groups : \E before \in old :
        /\ group = [kind |-> before.kind, sum |-> before.sum, paths |-> group.paths]
        /\ group.paths \subseteq before.paths
        /\ AreMany(group)

\* Pruning under a path, removing one and filtering thin the groups.
LEMMA ThinnedStay ==
    ASSUME NEW old, \A group \in old : IsGroup(group)
    PROVE  /\ \A path : Thins(PruneUnder(old, path), old)
           /\ \A path : Thins(RemoveOccurrence(old, path), old)
           /\ \A S : Thins(WithoutIgnored(old, S), old)
  <1>1. ASSUME NEW path, NEW group \in PruneUnder(old, path)
        PROVE  \E before \in old :
                 /\ group = [kind |-> before.kind, sum |-> before.sum, paths |-> group.paths]
                 /\ group.paths \subseteq before.paths /\ AreMany(group)
    <2>1. PICK before \in old :
             group = [before EXCEPT !.paths = { p \in @ : ~IsWithinSubtree(p, path) }]
      BY <1>1 DEF PruneUnder
    <2>2. before = [kind |-> before.kind, sum |-> before.sum, paths |-> before.paths]
      BY DEF IsGroup
    <2>3. AreMany(group)
      BY <1>1 DEF PruneUnder
    <2> QED
      BY <2>1, <2>2, <2>3
  <1>2. ASSUME NEW path, NEW group \in RemoveOccurrence(old, path)
        PROVE  \E before \in old :
                 /\ group = [kind |-> before.kind, sum |-> before.sum, paths |-> group.paths]
                 /\ group.paths \subseteq before.paths /\ AreMany(group)
    <2>1. PICK before \in old : group = [before EXCEPT !.paths = @ \ { path }]
      BY <1>2 DEF RemoveOccurrence
    <2>2. before = [kind |-> before.kind, sum |-> before.sum, paths |-> before.paths]
      BY DEF IsGroup
    <2>3. AreMany(group)
      BY <1>2 DEF RemoveOccurrence
    <2> QED
      BY <2>1, <2>2, <2>3
  <1>3. ASSUME NEW S, NEW group \in WithoutIgnored(old, S)
        PROVE  \E before \in old :
                 /\ group = [kind |-> before.kind, sum |-> before.sum, paths |-> group.paths]
                 /\ group.paths \subseteq before.paths /\ AreMany(group)
    <2>1. PICK before \in old : group = [before EXCEPT !.paths = { p \in @ : ~IsIgnored(p, S) }]
      BY <1>3 DEF WithoutIgnored
    <2>2. before = [kind |-> before.kind, sum |-> before.sum, paths |-> before.paths]
      BY DEF IsGroup
    <2>3. AreMany(group)
      BY <1>3 DEF WithoutIgnored
    <2> QED
      BY <2>1, <2>2, <2>3
  <1> QED
    BY <1>1, <1>2, <1>3 DEF Thins

\* What is left of groups are groups.
LEMMA ThinnedTyped ==
    ASSUME NEW groups, NEW old, Thins(groups, old), \A group \in old : GroupTyped(group)
    PROVE  \A group \in groups : GroupTyped(group)
  BY DEF Thins, GroupTyped, IsGroup

\* A file group is of files, its checksum that of each of them.
FileGroup(group, table, seq) ==
    /\ group = [kind |-> "file", sum |-> group.sum, paths |-> group.paths]
    /\ group.paths \subseteq File
    /\ \A one, other \in group.paths :
          /\ table[one].seq = seq /\ table[one].full # NoSum
          /\ table[one].full = table[other].full

\* What a run reports: groups of files, and of directories.
LEMMA BuildIsOfFiles ==
    ASSUME NEW table, NEW dirTable, NEW S, NEW seq, NEW includeFolders
    PROVE  \A group \in BuildGroups(table, dirTable, S, seq, includeFolders) :
              /\ AreMany(group)
              /\ \/ FileGroup(group, table, seq)
                 \/ /\ group = [kind |-> "directory", sum |-> group.sum, paths |-> group.paths]
                    /\ group.paths \subseteq Place
  <1> DEFINE tree == DeriveFolders(table, dirTable, S, seq)
             fileGroups == FindDuplicateFileGroups(table, seq)
             folderGroups == FindDuplicateDirectoryGroups(tree)
  <1>1. ASSUME NEW group \in fileGroups
        PROVE  IsGroup(group) /\ FileGroup(group, table, seq)
    <2>1. PICK file \in FindSharedContentPaths(table, seq) :
             group = Group("file", { << << >>, table[file].full >> },
                           { other \in Hashed(table, seq) : table[other].full = table[file].full })
      BY DEF FindDuplicateFileGroups
    <2> QED
      BY <2>1 DEF Group, IsGroup, FileGroup, Hashed, Readable
  <1>2. \A group \in folderGroups :
           IsGroup(group) /\ group.kind = "directory" /\ group.paths \subseteq DOMAIN tree
    BY DEF FindDuplicateDirectoryGroups, Group, IsGroup
  <1>3. DOMAIN tree = Place
    BY TreeIsTotal
  <1>4. BuildGroups(table, dirTable, S, seq, includeFolders)
           \subseteq WithoutIgnored(fileGroups, S) \cup WithoutIgnored(folderGroups, S)
    BY DEF BuildGroups
  <1> HIDE DEF tree, fileGroups, folderGroups
  <1>5. \A group \in WithoutIgnored(fileGroups, S) :
           AreMany(group) /\ FileGroup(group, table, seq)
    <2>1. Thins(WithoutIgnored(fileGroups, S), fileGroups)
      BY <1>1, ThinnedStay
    <2> QED
      BY <1>1, <2>1 DEF Thins, FileGroup
  <1>6. \A group \in WithoutIgnored(folderGroups, S) :
           /\ AreMany(group)
           /\ group = [kind |-> "directory", sum |-> group.sum, paths |-> group.paths]
           /\ group.paths \subseteq Place
    <2>1. Thins(WithoutIgnored(folderGroups, S), folderGroups)
      BY <1>2, ThinnedStay
    <2> QED
      BY <1>2, <1>3, <2>1 DEF Thins
  <1> QED
    BY <1>4, <1>5, <1>6

\* A run that stays under way, and the others as they were.
LEMMA StaysTyped ==
    ASSUME RunsTyped, NEW run \in Live,
           runs' = [other \in RunId |-> IF other = run THEN runs'[run] ELSE runs[other]],
           runs'[run].at # "off", RunTyped(runs'[run]),
           controller' = controller, thread' \in { 0, run, thread }
    PROVE  RunsTyped' /\ Live' = Live
  <1>1. Live' = Live
    BY DEF Live
  <1>2. \A other \in Live : RunTyped(runs'[other])
    BY DEF RunsTyped, Live
  <1>3. runs' = [other \in RunId |-> runs'[other]]
    OBVIOUS
  <1> QED
    BY <1>1, <1>2, <1>3 DEF RunsTyped

\* A run that ends.
LEMMA FinishTyped ==
    ASSUME RunsTyped, StatusTyped, NEW run \in Live,
           NEW state \in { "finished", "stopped", "failed" }, Finish(run, state),
           starts' = starts
    PROVE  RunsTyped' /\ StatusTyped'
  <1>1. runs' = [other \in RunId |-> IF other = run THEN NoRun ELSE runs[other]]
    BY DEF Finish, RunsTyped
  <1>2. Live' = Live \ { run }
    BY <1>1 DEF Live, NoRun
  <1>3. \A other \in Live' : RunTyped(runs'[other])
    BY <1>1, <1>2 DEF RunsTyped, Live
  <1>4. runs' = [other \in RunId |-> runs'[other]]
    BY <1>1
  <1>5. controller' \in Live' \cup { 0 } /\ thread' \in Live' \cup { 0 }
    BY <1>2 DEF Finish, RunsTyped
  <1>6. StatusTyped'
    <2>1. status' = [status EXCEPT !.state = state]
      BY DEF Finish
    <2> QED
      BY <2>1 DEF StatusTyped
  <1> QED
    BY <1>2, <1>3, <1>4, <1>5, <1>6 DEF RunsTyped

\* A run that begins holds nothing yet.
LEMMA BeginTyped ==
    ASSUME RunsTyped, NEW kind, NEW scope, NEW seq \in Nat \ { 0 }, NEW includeFolders,
           NEW before, Begin(kind, scope, seq, includeFolders, before)
    PROVE  RunsTyped'
  <1>1. PICK run \in RunId \ Live :
        /\ runs' = [runs EXCEPT ![run] =
              [at |-> IF scope \in before THEN "listing" ELSE "list",
               path |-> IF scope \in before THEN ParentPath(scope) ELSE scope,
               kind |-> kind, scope |-> scope, seq |-> seq,
               folders |-> includeFolders, ignored |-> ignored,
               aborted |-> FALSE, cut |-> FALSE, stack |-> << scope >>,
               found |-> { }, before |-> before, seen |-> { },
               stage |-> "partial", todo |-> { }, missed |-> { }]]
        /\ controller' = run
        /\ thread' = IF scope \in before THEN 0 ELSE run
    BY DEF Begin
  <1>2. /\ runs' = [other \in RunId |-> IF other = run THEN runs'[run] ELSE runs[other]]
        /\ runs'[run] =
              [at |-> IF scope \in before THEN "listing" ELSE "list",
               path |-> IF scope \in before THEN ParentPath(scope) ELSE scope,
               kind |-> kind, scope |-> scope, seq |-> seq,
               folders |-> includeFolders, ignored |-> ignored,
               aborted |-> FALSE, cut |-> FALSE, stack |-> << scope >>,
               found |-> { }, before |-> before, seen |-> { },
               stage |-> "partial", todo |-> { }, missed |-> { }]
    BY <1>1 DEF RunsTyped
  <1>3. runs'[run].at # "off" /\ RunTyped(runs'[run])
    BY <1>2 DEF RunTyped
  <1>4. Live' = Live \cup { run }
    BY <1>2, <1>3 DEF Live
  <1>5. \A other \in Live' : RunTyped(runs'[other])
    BY <1>2, <1>3, <1>4 DEF RunsTyped, Live
  <1>6. runs' = [other \in RunId |-> runs'[other]]
    BY <1>2
  <1>7. controller' \in Live' /\ thread' \in Live' \cup { 0 }
    BY <1>1, <1>4
  <1> QED
    BY <1>5, <1>6, <1>7 DEF RunsTyped

-----------------------------------------------------------------------------
(* The tables *)

\* What a listing writes is of the table's type.
LEMMA UpsertTyped ==
    ASSUME NEW table \in [File -> FileRow], \A file \in File : RowTyped(table[file]),
           NEW found \in SUBSET Entry, NEW seq \in Nat
    PROVE  LET new == UpsertFileFacts(table, found, seq) IN
           new \in [File -> FileRow] /\ \A file \in File : RowTyped(new[file])
  <1> DEFINE new == UpsertFileFacts(table, found, seq)
  <1>1. new = [file \in File |-> new[file]]
    BY DEF UpsertFileFacts
  <1>2. ASSUME NEW file \in File
        PROVE  new[file] \in FileRow /\ RowTyped(new[file])
    <2>1. CASE \E entry \in found : entry.path = file
      <3> DEFINE facts == (CHOOSE entry \in found : entry.path = file).facts
      <3>1. facts \in RealFacts
        BY <2>1 DEF Entry
      <3>2. RealFacts \subseteq Facts
        BY DEF RealFacts, Facts
      <3>3. PICK kept \in BOOLEAN :
              new[file] = [seq |-> seq, facts |-> facts, failed |-> FALSE,
                           partial |-> IF kept THEN table[file].partial ELSE NoSum,
                           full |-> IF kept THEN table[file].full ELSE NoSum]
        <4>1. SameFacts(table[file], facts) \in BOOLEAN
          BY DEF SameFacts
        <4>2. new[file] = [seq |-> seq, facts |-> facts, failed |-> FALSE,
                  partial |-> IF SameFacts(table[file], facts) THEN table[file].partial ELSE NoSum,
                  full |-> IF SameFacts(table[file], facts) THEN table[file].full ELSE NoSum]
          BY <2>1 DEF UpsertFileFacts
        <4> HIDE DEF facts, new
        <4> QED
          BY <4>1, <4>2
      <3> HIDE DEF facts, new
      <3>4. /\ table[file].partial \in Sum /\ table[file].full \in Sum
            /\ NoSum \in Sum
        BY DEF FileRow, Sum
      <3>5. new[file] \in FileRow
        BY <3>1, <3>2, <3>3, <3>4 DEF FileRow
      <3>6. new[file].facts = facts
        BY <3>3
      <3> QED
        BY <3>1, <3>5, <3>6 DEF RowTyped
    <2>2. CASE ~ \E entry \in found : entry.path = file
      BY <2>2 DEF UpsertFileFacts
    <2> QED
      BY <2>1, <2>2
  <1> HIDE DEF new
  <1> QED
    BY <1>1, <1>2 DEF new

\* So is what a read records.
LEMMA RecordTyped ==
    ASSUME NEW table \in [File -> FileRow], \A file \in File : RowTyped(table[file]),
           NEW path \in File, NEW partial \in Sum, NEW full \in Sum
    PROVE  LET new == RecordChecksums(table, path, partial, full) IN
           new \in [File -> FileRow] /\ \A file \in File : RowTyped(new[file])
  <1> DEFINE new == RecordChecksums(table, path, partial, full)
             row == [table[path] EXCEPT !.partial = Coalesce(partial, @),
                                        !.full = Coalesce(full, @), !.failed = FALSE]
  <1>1. CASE table[path].seq = 0
    BY <1>1 DEF RecordChecksums
  <1>2. CASE table[path].seq # 0
    <2>1. new = [table EXCEPT ![path] = row]
      BY <1>2 DEF RecordChecksums
    <2>2. row \in FileRow
      BY DEF FileRow, Coalesce
    <2>3. row.facts = table[path].facts /\ row.seq = table[path].seq
      BY DEF FileRow
    <2> HIDE DEF row, new
    <2>4. new \in [File -> FileRow]
      BY <2>1, <2>2
    <2>5. \A file \in File : RowTyped(new[file])
      BY <2>1, <2>3 DEF RowTyped
    <2> QED
      BY <2>4, <2>5 DEF new
  <1> QED
    BY <1>1, <1>2

\* And a read that failed.
LEMMA ReadErrorTyped ==
    ASSUME NEW table \in [File -> FileRow], \A file \in File : RowTyped(table[file]),
           NEW path \in File
    PROVE  LET new == RecordReadError(table, path) IN
           new \in [File -> FileRow] /\ \A file \in File : RowTyped(new[file])
  <1> DEFINE new == RecordReadError(table, path)
             row == [table[path] EXCEPT !.failed = TRUE]
  <1>1. CASE table[path].seq = 0
    BY <1>1 DEF RecordReadError
  <1>2. CASE table[path].seq # 0
    <2>1. new = [table EXCEPT ![path] = row]
      BY <1>2 DEF RecordReadError
    <2>2. row \in FileRow
      BY DEF FileRow
    <2>3. row.facts = table[path].facts /\ row.seq = table[path].seq
      BY DEF FileRow
    <2> HIDE DEF row, new
    <2>4. new \in [File -> FileRow]
      BY <2>1, <2>2
    <2>5. \A file \in File : RowTyped(new[file])
      BY <2>1, <2>3 DEF RowTyped
    <2> QED
      BY <2>4, <2>5 DEF new
  <1> QED
    BY <1>1, <1>2

\* Forgetting rows leaves a table.
LEMMA ForgetTyped ==
    ASSUME NEW table \in [File -> FileRow], \A file \in File : RowTyped(table[file]),
           NEW S
    PROVE  LET new == [file \in File |-> IF file \in S THEN NoFile ELSE table[file]] IN
           new \in [File -> FileRow] /\ \A file \in File : RowTyped(new[file])
  <1>1. NoFile \in FileRow /\ RowTyped(NoFile)
    BY DEF NoFile, FileRow, RowTyped, Facts, Absent, Sum
  <1> QED
    BY <1>1

\* The checksums a cache or a read gives are sums.
LEMMA KnownSumsTyped ==
    ASSUME NEW stage, NEW candidate \in Candidate, NEW hit
    PROVE  LET sums == KnownSums(stage, candidate, hit) IN
           sums.partial \in Sum /\ sums.full \in Sum
  <1>1. /\ candidate.facts.content \in Content
        /\ candidate.partial \in Sum /\ candidate.full \in Sum
    BY DEF Candidate, RealFacts
  <1>2. HeadOf[candidate.facts.content] \in Sum /\ candidate.facts.content \in Sum /\ NoSum \in Sum
    BY <1>1 DEF Sum
  <1> DEFINE cached == Cached(candidate.facts, hit)
  <1>3. cached.partial \in Sum /\ cached.full \in Sum
    BY <1>2 DEF Cached, Sums
  <1> HIDE DEF cached
  <1>4. Coalesce(candidate.partial, cached.partial) \in Sum
    BY <1>1, <1>3 DEF Coalesce
  <1>5. ASSUME NEW partial \in Sum
        PROVE  /\ PartialSums(candidate.facts, partial).partial \in Sum
               /\ PartialSums(candidate.facts, partial).full \in Sum
    BY <1>2 DEF PartialSums, Sums
  <1>6. KnownSums(stage, candidate, hit) =
          IF stage = "full" THEN Sums(NoSum, cached.full)
          ELSE IF cached.full # NoSum THEN cached
          ELSE PartialSums(candidate.facts, Coalesce(candidate.partial, cached.partial))
    BY DEF KnownSums, cached
  <1>7. CASE stage = "full"
    BY <1>2, <1>3, <1>6, <1>7 DEF Sums
  <1>8. CASE stage # "full" /\ cached.full # NoSum
    BY <1>3, <1>6, <1>8
  <1>9. CASE stage # "full" /\ cached.full = NoSum
    BY <1>4, <1>5, <1>6, <1>9
  <1> QED
    BY <1>7, <1>8, <1>9

-----------------------------------------------------------------------------
(* The steps of a run keep the types *)

RunStepOf(run) ==
    \/ ListNext(run) \/ LookAt(run) \/ ListRejects(run)
    \/ ListDirectory(run) \/ RestatFile(run) \/ ForgetVanished(run)
    \/ Query(run) \/ HashingEnds(run) \/ HashingStops(run) \/ HashNext(run)
    \/ ReadFile(run) \/ ReadFails(run)
    \/ ClearResults(run) \/ SaveGroups(run)

\* A step of a run is taken by one that is under way, alone on the thread.
LEMMA RunStepIsOfLive ==
    ASSUME RunsTyped, NEW run \in RunId, RunStepOf(run)
    PROVE  run \in Live
  BY DEF RunStepOf, ListNext, LookAt, ListRejects, ListDirectory, RestatFile,
         ForgetVanished, Query, HashingEnds, HashingStops, HashNext, ReadFile, ReadFails,
         ClearResults, SaveGroups, RunsTyped, Live

\* What a listing finds are entries.
LEMMA ChildrenAreEntries ==
    ASSUME DiskTyped, NEW path
    PROVE  Children(path) \subseteq Entry
  <1> SUFFICES ASSUME NEW file \in File, Exists(file)
               PROVE  [path |-> file, facts |-> disk[file]] \in Entry
    BY DEF Children
  <1>1. disk[file] \in Facts /\ disk[file].content # NoSum
    BY DEF DiskTyped, Exists
  <1>2. disk[file] \in RealFacts
    BY <1>1 DEF Facts, RealFacts
  <1> QED
    BY <1>2 DEF Entry

\* The steps of a run that leave the tables and the results alone.
LEMMA WalkTyped ==
    ASSUME Typed, NEW run \in Live,
           \/ ListNext(run) \/ LookAt(run) \/ ListRejects(run) \/ Query(run)
           \/ HashingEnds(run) \/ HashingStops(run)
    PROVE  RunsTyped' /\ StatusTyped' /\ UNCHANGED << tables, results >>
  <1> USE DEF RunTyped, Goes
  <1>0. run \in RunId /\ runs[run].at # "off"
    BY DEF Live
  <1>1. RunsTyped /\ StatusTyped /\ RunTyped(runs[run]) /\ runs = [o \in RunId |-> runs[o]]
    BY DEF Typed, RunsTyped
  <1>2. UNCHANGED << tables, results, starts >>
    BY DEF ListNext, LookAt, ListRejects, Query, HashingEnds, HashingStops, RunUnchanged,
           requestVars
  <1>3. CASE ListNext(run)
    <2>1. CASE \E state \in { "finished", "stopped", "failed" } : Finish(run, state)
      BY <1>1, <1>2, <2>1, FinishTyped
    <2>2. CASE /\ runs' = [runs EXCEPT ![run].at = "clear", ![run].cut = TRUE]
               /\ UNCHANGED << status, controller, thread >>
      <3>1. /\ runs' = [o \in RunId |-> IF o = run THEN runs'[run] ELSE runs[o]]
            /\ runs'[run] = [runs[run] EXCEPT !.at = "clear", !.cut = TRUE]
        BY <1>0, <1>1, <2>2
      <3>2. runs'[run].at # "off" /\ RunTyped(runs'[run])
        BY <1>1, <3>1
      <3>3. RunsTyped'
        BY <1>1, <2>2, <3>1, <3>2, StaysTyped
      <3> QED
        BY <1>1, <1>2, <2>2, <3>3 DEF StatusTyped
    <2>3. CASE /\ \E at \in { "query", "forget" } : runs' = [runs EXCEPT ![run].at = at]
               /\ UNCHANGED << status, controller, thread >>
      <3>1. PICK at \in { "query", "forget" } :
            /\ runs' = [o \in RunId |-> IF o = run THEN runs'[run] ELSE runs[o]]
            /\ runs'[run] = [runs[run] EXCEPT !.at = at]
        BY <1>0, <1>1, <2>3
      <3>2. runs'[run].at # "off" /\ RunTyped(runs'[run])
        BY <1>1, <3>1
      <3>3. RunsTyped'
        BY <1>1, <2>3, <3>1, <3>2, StaysTyped
      <3> QED
        BY <1>1, <1>2, <2>3, <3>3 DEF StatusTyped
    <2>4. CASE /\ runs' = [runs EXCEPT
                     ![run].at = "listing",
                     ![run].path = runs[run].stack[Len(runs[run].stack)],
                     ![run].stack = SubSeq(@, 1, Len(@) - 1)]
               /\ thread' = 0
               /\ UNCHANGED << status, controller >>
      <3> DEFINE path == runs[run].stack[Len(runs[run].stack)]
                 stack == SubSeq(runs[run].stack, 1, Len(runs[run].stack) - 1)
      <3>1. /\ runs' = [o \in RunId |-> IF o = run THEN runs'[run] ELSE runs[o]]
            /\ runs'[run] = [runs[run] EXCEPT !.at = "listing", !.path = path, !.stack = stack]
        BY <1>0, <1>1, <2>4
      <3> HIDE DEF path, stack
      <3>2. runs'[run].at # "off" /\ RunTyped(runs'[run])
        BY <1>1, <3>1
      <3>3. RunsTyped'
        BY <1>1, <2>4, <3>1, <3>2, StaysTyped
      <3> QED
        BY <1>1, <1>2, <2>4, <3>3 DEF StatusTyped
    <2>5. ListingEnds(run, runs[run].stack # << >>) =>
             \/ \E state \in { "finished", "stopped", "failed" } : Finish(run, state)
             \/ /\ runs' = [runs EXCEPT ![run].at = "clear", ![run].cut = TRUE]
                /\ UNCHANGED << status, controller, thread >>
             \/ /\ \E at \in { "query", "forget" } : runs' = [runs EXCEPT ![run].at = at]
                /\ UNCHANGED << status, controller, thread >>
      BY DEF ListingEnds
    <2> QED
      BY <1>3, <2>1, <2>2, <2>3, <2>4, <2>5 DEF ListNext
  <1>4. CASE LookAt(run)
    <2>1. PICK listing, missed :
             /\ runs' = [runs EXCEPT ![run].at = "listed", ![run].found = listing,
                                     ![run].missed = missed]
             /\ listing.files \subseteq Entry
      <3> DEFINE path == runs[run].path
      <3>1. CASE \E bad \in SUBSET { entry \in Children(path) : entry.path \in Flaky } :
                  runs' = [runs EXCEPT
                     ![run].at = "listed",
                     ![run].found = Listing(Children(path) \ bad, Inner(path), bad # {}),
                     ![run].missed = @ \cup { entry.path : entry \in bad }]
        <4>1. PICK bad :
                  runs' = [runs EXCEPT
                     ![run].at = "listed",
                     ![run].found = Listing(Children(path) \ bad, Inner(path), bad # {}),
                     ![run].missed = runs[run].missed \cup { entry.path : entry \in bad }]
          BY <3>1
        <4>2. Listing(Children(path) \ bad, Inner(path), bad # {}).files \subseteq Entry
          BY ChildrenAreEntries DEF Listing, Typed
        <4> QED
          BY <4>1, <4>2
      <3>2. CASE runs' = [runs EXCEPT ![run].at = "listed",
                     ![run].found = Listing({}, {}, TRUE),
                     ![run].missed = @ \cup Under(path) \cup { path }]
        <4>1. Listing({}, {}, TRUE).files \subseteq Entry
          BY DEF Listing
        <4>2. runs' = [runs EXCEPT ![run].at = "listed", ![run].found = Listing({}, {}, TRUE),
                     ![run].missed = runs[run].missed \cup Under(path) \cup { path }]
          BY <3>2
        <4> QED
          BY <4>1, <4>2
      <3> QED
        BY <1>4, <3>1, <3>2 DEF LookAt
    <2>2. /\ runs' = [o \in RunId |-> IF o = run THEN runs'[run] ELSE runs[o]]
          /\ runs'[run] = [runs[run] EXCEPT !.at = "listed", !.found = listing, !.missed = missed]
      BY <1>0, <1>1, <2>1
    <2>3. runs'[run].at # "off" /\ RunTyped(runs'[run])
      <3>1. /\ DOMAIN runs'[run] = DOMAIN runs[run]
            /\ runs'[run].at = "listed" /\ runs'[run].found = listing
            /\ runs'[run].seq = runs[run].seq /\ runs'[run].todo = runs[run].todo
        BY <1>1, <2>2
      <3> QED
        BY <1>1, <2>1, <3>1
    <2>4. UNCHANGED << status, controller, thread >>
      BY <1>4 DEF LookAt
    <2>5. RunsTyped'
      BY <1>1, <2>2, <2>3, <2>4, StaysTyped
    <2> QED
      BY <1>1, <1>2, <2>4, <2>5 DEF StatusTyped
  <1>5. CASE ListRejects(run)
    BY <1>1, <1>2, <1>5, FinishTyped DEF ListRejects
  <1>6. CASE Query(run)
    <2> DEFINE todo == { [path |-> file, facts |-> files[file].facts,
                          partial |-> files[file].partial,
                          full |-> files[file].full] : file \in Candidates(run) }
    <2>1. /\ runs' = [o \in RunId |-> IF o = run THEN runs'[run] ELSE runs[o]]
          /\ runs'[run] = [runs[run] EXCEPT !.at = "hash", !.todo = todo]
      BY <1>0, <1>1, <1>6 DEF Query
    <2>2. todo \subseteq Candidate
      <3> SUFFICES ASSUME NEW file \in Candidates(run)
                   PROVE  [path |-> file, facts |-> files[file].facts,
                           partial |-> files[file].partial,
                           full |-> files[file].full] \in Candidate
        OBVIOUS
      <3>1. file \in File /\ files[file].seq = runs[run].seq
        BY DEF Candidates, FindSharedSizeCandidates, FindSharedPartialCandidates, Readable
      <3>2. files[file] \in FileRow /\ files[file].facts \in RealFacts
        BY <1>1, <3>1 DEF Typed, TablesTyped, RowTyped
      <3> QED
        BY <3>1, <3>2 DEF FileRow, Candidate
    <2> HIDE DEF todo
    <2>3. runs'[run].at # "off" /\ RunTyped(runs'[run])
      BY <1>1, <2>1, <2>2
    <2>4. UNCHANGED << status, controller, thread >>
      BY <1>6 DEF Query
    <2>5. RunsTyped'
      BY <1>1, <2>1, <2>3, <2>4, StaysTyped
    <2> QED
      BY <1>1, <1>2, <2>4, <2>5 DEF StatusTyped
  <1>7. CASE HashingEnds(run)
    <2>1. /\ runs' = [o \in RunId |-> IF o = run THEN runs'[run] ELSE runs[o]]
          /\ \/ runs'[run] = [runs[run] EXCEPT !.at = "query", !.stage = "full"]
             \/ runs'[run] = [runs[run] EXCEPT !.at = "clear"]
      BY <1>0, <1>1, <1>7 DEF HashingEnds
    <2>2. runs'[run].at # "off" /\ RunTyped(runs'[run])
      BY <1>1, <2>1
    <2>3. UNCHANGED << status, controller, thread >>
      BY <1>7 DEF HashingEnds
    <2>4. RunsTyped'
      BY <1>1, <2>1, <2>2, <2>3, StaysTyped
    <2> QED
      BY <1>1, <1>2, <2>3, <2>4 DEF StatusTyped
  <1>8. CASE HashingStops(run)
    <2>1. /\ runs' = [o \in RunId |-> IF o = run THEN runs'[run] ELSE runs[o]]
          /\ runs'[run] = [runs[run] EXCEPT !.at = "clear", !.cut = TRUE, !.todo = { }]
      BY <1>0, <1>1, <1>8 DEF HashingStops
    <2>2. runs'[run].at # "off" /\ RunTyped(runs'[run])
      BY <1>1, <2>1
    <2>3. UNCHANGED << status, controller, thread >>
      BY <1>8 DEF HashingStops
    <2>4. RunsTyped'
      BY <1>1, <2>1, <2>2, <2>3, StaysTyped
    <2> QED
      BY <1>1, <1>2, <2>3, <2>4 DEF StatusTyped
  <1> QED
    BY <1>2, <1>3, <1>4, <1>5, <1>6, <1>7, <1>8

\* The steps of a run that write the tables.
LEMMA WritesTyped ==
    ASSUME Typed, NEW run \in Live,
           \/ ListDirectory(run) \/ RestatFile(run) \/ ForgetVanished(run)
           \/ HashNext(run) \/ ReadFile(run) \/ ReadFails(run)
    PROVE  RunsTyped' /\ StatusTyped' /\ TablesTyped' /\ UNCHANGED results
  <1> USE DEF RunTyped, Goes
  <1>0. run \in RunId /\ runs[run].at # "off"
    BY DEF Live
  <1>1. /\ RunsTyped /\ StatusTyped /\ TablesTyped
        /\ RunTyped(runs[run]) /\ runs = [o \in RunId |-> runs[o]]
    BY DEF Typed, RunsTyped
  <1>2. /\ UNCHANGED << results, starts, status, controller >>
        /\ thread' \in { 0, run, thread }
    BY DEF ListDirectory, RestatFile, ForgetVanished, HashNext, ReadFile, ReadFails,
           RunUnchanged, requestVars
  <1>3. StatusTyped'
    BY <1>1, <1>2 DEF StatusTyped
  <1>4. ASSUME runs' = [o \in RunId |-> IF o = run THEN runs'[run] ELSE runs[o]],
               runs'[run].at # "off", RunTyped(runs'[run])
        PROVE  RunsTyped'
    BY <1>1, <1>2, <1>4, StaysTyped
  <1> DEFINE now == runs[run]
  <1>5. CASE ListDirectory(run)
    <2> DEFINE entries == { entry \in now.found.files : ~IsIgnored(entry.path, now.ignored) }
               inner == { dir \in now.found.dirs : ~IsIgnored(dir, now.ignored) }
    <2>1. now.at = "listed" /\ entries \in SUBSET Entry /\ now.seq \in Nat
      BY <1>1, <1>5 DEF ListDirectory
    <2>2. files' = UpsertFileFacts(files, entries, now.seq)
      BY <1>5 DEF ListDirectory
    <2>3. files' \in [File -> FileRow] /\ \A file \in File : RowTyped(files'[file])
      <3> HIDE DEF entries
      <3> QED
        BY <1>1, <2>1, <2>2, UpsertTyped DEF TablesTyped
    <2>4. folders' \in [Place -> [seq : Nat, incomplete : BOOLEAN]]
      <3>1. PICK some \in BOOLEAN :
              folders' = [folders EXCEPT ![now.path] = [seq |-> now.seq, incomplete |-> some]]
        BY <1>5 DEF ListDirectory
      <3> QED
        BY <1>1, <2>1, <3>1 DEF TablesTyped
    <2>5. PICK order, seen :
             /\ runs' = [o \in RunId |-> IF o = run THEN runs'[run] ELSE runs[o]]
             /\ runs'[run] = [now EXCEPT !.at = "list", !.found = { },
                                          !.stack = now.stack \o order, !.seen = seen]
      <3> DEFINE added == IF now.kind = "scan" THEN {}
                          ELSE now.seen \cup { entry.path : entry \in entries }
      <3>1. PICK order \in Orderings(inner) :
              runs' = [runs EXCEPT
                 ![run].at = "list", ![run].found = { },
                 ![run].stack = @ \o order,
                 ![run].seen = IF now.kind = "scan" THEN {}
                               ELSE @ \cup { entry.path : entry \in entries }]
        BY <1>5 DEF ListDirectory
      <3> HIDE DEF entries, inner
      <3>2. /\ runs' = [o \in RunId |-> IF o = run THEN runs'[run] ELSE runs[o]]
            /\ runs'[run] = [now EXCEPT !.at = "list", !.found = { },
                                         !.stack = now.stack \o order, !.seen = added]
        BY <1>0, <1>1, <3>1
      <3> QED
        BY <3>2
    <2>6. runs'[run].at # "off" /\ RunTyped(runs'[run])
      <3>1. /\ DOMAIN runs'[run] = DOMAIN now
            /\ runs'[run].at = "list"
            /\ runs'[run].seq = now.seq /\ runs'[run].todo = now.todo
        BY <1>1, <2>5
      <3> QED
        BY <1>1, <3>1
    <2> QED
      BY <1>2, <1>3, <1>4, <2>3, <2>4, <2>5, <2>6 DEF TablesTyped
  <1>6. CASE RestatFile(run)
    <2> DEFINE entries == { entry \in now.found.files :
                              entry.path = now.scope /\ ~IsIgnored(entry.path, now.ignored) }
               seen == { entry.path : entry \in entries }
    <2>1. now.at = "listed" /\ entries \in SUBSET Entry /\ now.seq \in Nat
      BY <1>1, <1>6 DEF RestatFile
    <2>2. files' = UpsertFileFacts(files, entries, now.seq) /\ folders' = folders
      BY <1>6 DEF RestatFile
    <2>3. files' \in [File -> FileRow] /\ \A file \in File : RowTyped(files'[file])
      <3> HIDE DEF entries
      <3> QED
        BY <1>1, <2>1, <2>2, UpsertTyped DEF TablesTyped
    <2>4. /\ runs' = [o \in RunId |-> IF o = run THEN runs'[run] ELSE runs[o]]
          /\ runs'[run] = [now EXCEPT !.at = "forget", !.found = { }, !.seen = seen]
      BY <1>0, <1>1, <1>6 DEF RestatFile
    <2> HIDE DEF seen
    <2>5. runs'[run].at # "off" /\ RunTyped(runs'[run])
      BY <1>1, <2>4
    <2> QED
      BY <1>1, <1>2, <1>3, <1>4, <2>2, <2>3, <2>4, <2>5 DEF TablesTyped
  <1>7. CASE ForgetVanished(run)
    <2>1. /\ files' = [file \in File |->
                         IF file \in now.before \ now.seen THEN NoFile ELSE files[file]]
          /\ folders' = folders
      BY <1>7 DEF ForgetVanished
    <2>2. files' \in [File -> FileRow] /\ \A file \in File : RowTyped(files'[file])
      BY <1>1, <2>1, ForgetTyped DEF TablesTyped
    <2>3. /\ runs' = [o \in RunId |-> IF o = run THEN runs'[run] ELSE runs[o]]
          /\ runs'[run] = [now EXCEPT !.at = "query"]
      BY <1>0, <1>1, <1>7 DEF ForgetVanished
    <2>4. runs'[run].at # "off" /\ RunTyped(runs'[run])
      BY <1>1, <2>3
    <2> QED
      BY <1>1, <1>2, <1>3, <1>4, <2>1, <2>2, <2>3, <2>4 DEF TablesTyped
  <1>8. CASE HashNext(run)
    <2>1. PICK candidate \in now.todo, hit \in CacheHits :
            /\ \/ files' = files
               \/ files' = Record(candidate, KnownSums(now.stage, candidate, hit))
            /\ \/ runs' = [runs EXCEPT ![run].todo = @ \ { candidate }]
               \/ runs' = [runs EXCEPT ![run].at = "reading", ![run].found = candidate]
            /\ now.at = "hash" /\ folders' = folders
      BY <1>8 DEF HashNext
    <2>2. candidate \in Candidate /\ candidate.path \in File
      BY <1>1 DEF Candidate
    <2>3. files' \in [File -> FileRow] /\ \A file \in File : RowTyped(files'[file])
      <3> DEFINE sums == KnownSums(now.stage, candidate, hit)
      <3>1. sums.partial \in Sum /\ sums.full \in Sum
        BY <2>2, KnownSumsTyped
      <3> HIDE DEF sums
      <3>2. files' = files \/ files' = RecordChecksums(files, candidate.path, sums.partial, sums.full)
        BY <2>1 DEF Record, sums
      <3> QED
        BY <1>1, <2>2, <3>1, <3>2, RecordTyped DEF TablesTyped
    <2>4. /\ runs' = [o \in RunId |-> IF o = run THEN runs'[run] ELSE runs[o]]
          /\ \/ runs'[run] = [now EXCEPT !.todo = now.todo \ { candidate }]
             \/ runs'[run] = [now EXCEPT !.at = "reading", !.found = candidate]
      BY <1>0, <1>1, <2>1
    <2>5. runs'[run].at # "off" /\ RunTyped(runs'[run])
      BY <1>1, <2>1, <2>4
    <2> QED
      BY <1>1, <1>2, <1>3, <1>4, <2>1, <2>3, <2>4, <2>5 DEF TablesTyped
  <1>9. CASE ReadFile(run)
    <2> DEFINE candidate == now.found
               content == disk[candidate.path].content
               sums == IF now.stage = "full" THEN Sums(NoSum, content)
                       ELSE PartialSums(candidate.facts, HeadOf[content])
    <2>1. candidate \in Candidate /\ candidate.path \in File /\ now.at = "reading"
      BY <1>1, <1>9 DEF ReadFile, Candidate
    <2>2. content \in Content
      BY <1>9, <2>1 DEF ReadFile, Exists, Typed, DiskTyped, Facts
    <2>3. content \in Sum /\ HeadOf[content] \in Sum /\ NoSum \in Sum
      BY <2>2 DEF Sum
    <2> HIDE DEF content
    <2>4. sums.partial \in Sum /\ sums.full \in Sum
      BY <2>3 DEF Sums, PartialSums
    <2>5. files' = RecordChecksums(files, candidate.path, sums.partial, sums.full)
          /\ folders' = folders
      BY <1>9 DEF ReadFile, Record, content
    <2>6. files' \in [File -> FileRow] /\ \A file \in File : RowTyped(files'[file])
      <3> HIDE DEF sums
      <3> QED
        BY <1>1, <2>1, <2>4, <2>5, RecordTyped DEF TablesTyped
    <2>7. /\ runs' = [o \in RunId |-> IF o = run THEN runs'[run] ELSE runs[o]]
          /\ runs'[run] = [now EXCEPT !.at = "hash", !.found = { },
                                       !.todo = now.todo \ { candidate }]
      BY <1>0, <1>1, <1>9 DEF ReadFile
    <2>8. runs'[run].at # "off" /\ RunTyped(runs'[run])
      BY <1>1, <2>7
    <2> QED
      BY <1>1, <1>2, <1>3, <1>4, <2>5, <2>6, <2>7, <2>8 DEF TablesTyped
  <1>10. CASE ReadFails(run)
    <2> DEFINE candidate == now.found
    <2>1. candidate \in Candidate /\ candidate.path \in File
      BY <1>1, <1>10 DEF ReadFails, Candidate
    <2>2. /\ files' = files \/ files' = RecordReadError(files, candidate.path)
          /\ folders' = folders
      BY <1>10 DEF ReadFails
    <2>3. files' \in [File -> FileRow] /\ \A file \in File : RowTyped(files'[file])
      BY <1>1, <2>1, <2>2, ReadErrorTyped DEF TablesTyped
    <2>4. /\ runs' = [o \in RunId |-> IF o = run THEN runs'[run] ELSE runs[o]]
          /\ \/ runs'[run] = [now EXCEPT !.at = "clear", !.cut = TRUE,
                                          !.found = { }, !.todo = { }]
             \/ runs'[run] = [now EXCEPT !.at = "hash", !.found = { },
                                  !.todo = now.todo \ { candidate },
                                  !.missed = now.missed \cup { candidate.path }]
      BY <1>0, <1>1, <1>10 DEF ReadFails
    <2>5. runs'[run].at # "off" /\ RunTyped(runs'[run])
      BY <1>1, <2>4
    <2> QED
      BY <1>1, <1>2, <1>3, <1>4, <2>2, <2>3, <2>4, <2>5 DEF TablesTyped
  <1> QED
    BY <1>5, <1>6, <1>7, <1>8, <1>9, <1>10

\* The steps that write the results.
LEMMA ResultsStepTyped ==
    ASSUME Typed, NEW run \in Live, ClearResults(run) \/ SaveGroups(run)
    PROVE  RunsTyped' /\ StatusTyped' /\ ResultsTyped' /\ UNCHANGED tables
  <1> USE DEF RunTyped, Goes
  <1>0. run \in RunId /\ runs[run].at # "off"
    BY DEF Live
  <1>1. /\ RunsTyped /\ StatusTyped /\ TablesTyped /\ ResultsTyped
        /\ RunTyped(runs[run]) /\ runs = [o \in RunId |-> runs[o]]
    BY DEF Typed, RunsTyped
  <1>2. UNCHANGED << tables, starts >>
    BY DEF ClearResults, SaveGroups, RunUnchanged, requestVars
  <1>3. CASE ClearResults(run)
    <2>1. results' = [results EXCEPT !.groups = {}]
      BY <1>3 DEF ClearResults
    <2>2. results' = [seq |-> results.seq, groups |-> { }]
      BY <1>1, <2>1 DEF ResultsTyped
    <2>3. ResultsTyped'
      BY <1>1, <2>2 DEF ResultsTyped
    <2>4. /\ runs' = [o \in RunId |-> IF o = run THEN runs'[run] ELSE runs[o]]
          /\ runs'[run] = [runs[run] EXCEPT !.at = "save"]
      BY <1>0, <1>1, <1>3 DEF ClearResults
    <2>5. runs'[run].at # "off" /\ RunTyped(runs'[run])
      BY <1>1, <2>4
    <2>6. UNCHANGED << status, controller, thread >>
      BY <1>3 DEF ClearResults
    <2>7. RunsTyped'
      BY <1>1, <2>4, <2>5, <2>6, StaysTyped
    <2> QED
      BY <1>1, <1>2, <2>3, <2>6, <2>7 DEF StatusTyped
  <1>4. CASE SaveGroups(run)
    <2>1. Finish(run, Outcome(run)) /\ Outcome(run) \in { "finished", "stopped", "failed" }
      BY <1>4 DEF SaveGroups, Outcome
    <2>2. RunsTyped' /\ StatusTyped'
      BY <1>1, <1>2, <2>1, FinishTyped
    <2> DEFINE groups == BuildGroups(files, folders, runs[run].ignored, runs[run].seq,
                                     FoldersDerived(run))
    <2>3. results' = [seq |-> runs[run].seq, groups |-> groups]
      BY <1>4 DEF SaveGroups
    <2>4. ASSUME NEW group \in groups PROVE GroupTyped(group)
      <3>1. /\ AreMany(group)
            /\ \/ FileGroup(group, files, runs[run].seq)
               \/ /\ group = [kind |-> "directory", sum |-> group.sum, paths |-> group.paths]
                  /\ group.paths \subseteq Place
        BY <2>4, BuildIsOfFiles
      <3>2. /\ group.kind \in { "file", "directory" } /\ group.paths \subseteq Place
            /\ group = [kind |-> group.kind, sum |-> group.sum, paths |-> group.paths]
        BY <3>1 DEF FileGroup, Place
      <3> QED
        BY <3>1, <3>2 DEF GroupTyped, IsGroup
    <2> HIDE DEF groups
    <2>5. ResultsTyped'
      BY <1>1, <2>3, <2>4 DEF ResultsTyped
    <2> QED
      BY <1>2, <2>2, <2>5
  <1> QED
    BY <1>3, <1>4

\* A step of a run.
LEMMA RunStepTyped ==
    ASSUME Typed, RunStep
    PROVE  Typed'
  <1>1. PICK run \in RunId : RunStepOf(run)
    BY DEF RunStep, RunStepOf
  <1>2. run \in Live
    BY <1>1, RunStepIsOfLive DEF Typed
  <1>3. UNCHANGED << disk, dirs, ignored, events >>
    BY <1>1 DEF RunStepOf, ListNext, LookAt, ListRejects, ListDirectory, RestatFile,
       ForgetVanished, Query, HashingEnds, HashingStops, HashNext, ReadFile, ReadFails,
       ClearResults, SaveGroups, RunUnchanged, diskVars, requestVars
  <1>4. NotesTyped'
    <2>1. CASE SaveGroups(run)
      <3>1. late' = late \ runs[run].ignored /\ basis' = [file \in File |-> files[file].facts]
        BY <2>1 DEF SaveGroups
      <3>2. \A file \in File : files[file].facts \in Facts
        BY DEF Typed, TablesTyped, FileRow
      <3> QED
        BY <1>3, <3>1, <3>2 DEF Typed, NotesTyped
    <2>2. CASE UNCHANGED << basis, late >>
      BY <1>3, <2>2 DEF Typed, NotesTyped
    <2> QED
      BY <1>1, <2>1, <2>2 DEF RunStepOf, ListNext, LookAt, ListRejects, ListDirectory,
         RestatFile, ForgetVanished, Query, HashingEnds, HashingStops, HashNext, ReadFile,
         ReadFails, ClearResults, historyVars
  <1>5. DiskTyped' /\ (events \in 0..MaxEvents)'
    BY <1>3 DEF Typed, DiskTyped
  <1>6. RunsTyped' /\ StatusTyped' /\ TablesTyped' /\ ResultsTyped'
    <2>1. UNCHANGED tables => TablesTyped'
      BY DEF tables, Typed, TablesTyped
    <2>2. UNCHANGED results => ResultsTyped'
      BY DEF Typed, ResultsTyped
    <2> QED
      BY <1>1, <1>2, <2>1, <2>2, WalkTyped, WritesTyped, ResultsStepTyped DEF RunStepOf
  <1> QED
    BY <1>4, <1>5, <1>6 DEF Typed

\* Runs that no step touches.
LEMMA RunsUntouched ==
    ASSUME RunsTyped, UNCHANGED << runs, controller, thread >>
    PROVE  RunsTyped'
  <1>1. Live' = Live
    BY DEF Live
  <1> QED
    BY <1>1 DEF RunsTyped

\* Groups that are pruned.
LEMMA PrunedTyped ==
    ASSUME ResultsTyped, NEW groups, results' = [results EXCEPT !.groups = groups],
           Thins(groups, results.groups)
    PROVE  ResultsTyped'
  <1>1. results' = [seq |-> results.seq, groups |-> groups]
    BY DEF ResultsTyped
  <1>2. \A group \in groups : GroupTyped(group)
    BY ThinnedTyped DEF ResultsTyped
  <1> QED
    BY <1>1, <1>2 DEF ResultsTyped

\* The three ways to prune.
LEMMA PruningsTyped ==
    ASSUME ResultsTyped,
           \/ \E path : results' = [results EXCEPT !.groups = PruneUnder(@, path)]
           \/ \E path : results' = [results EXCEPT !.groups = RemoveOccurrence(@, path)]
           \/ \E S : results' = [results EXCEPT !.groups = WithoutIgnored(@, S)]
    PROVE  ResultsTyped'
  <1>1. \A group \in results.groups : IsGroup(group)
    BY DEF ResultsTyped, GroupTyped
  <1>2. ASSUME NEW path, results' = [results EXCEPT !.groups = PruneUnder(@, path)]
        PROVE  ResultsTyped'
    BY <1>1, <1>2, ThinnedStay, PrunedTyped
  <1>3. ASSUME NEW path, results' = [results EXCEPT !.groups = RemoveOccurrence(@, path)]
        PROVE  ResultsTyped'
    BY <1>1, <1>3, ThinnedStay, PrunedTyped
  <1>4. ASSUME NEW S, results' = [results EXCEPT !.groups = WithoutIgnored(@, S)]
        PROVE  ResultsTyped'
    BY <1>1, <1>4, ThinnedStay, PrunedTyped
  <1> QED
    BY <1>2, <1>3, <1>4

\* The bound on events.
LEMMA EventTyped ==
    ASSUME events \in 0..MaxEvents, events < MaxEvents, events' = events + 1
    PROVE  (events \in 0..MaxEvents)'
  <1>1. MaxEvents \in Nat
    BY ScanAssumption
  <1> QED
    BY <1>1

\* The requests that start or mark a run.
LEMMA RequestTyped ==
    ASSUME Typed,
           \/ RequestStop
           \/ \E root \in ScanRoots, includeFolders \in FolderModes :
                 RequestScan(root, includeFolders)
           \/ \E index \in DOMAIN starts : Inspected(index)
           \/ \E scope \in Refreshable : RequestRefresh(scope)
           \/ \E path \in Deletable : RequestDelete(path)
    PROVE  Typed'
  <1> USE DEF Typed
  <1>1. UNCHANGED << disk, dirs, files, folders, results, ignored, basis, late >>
    BY DEF RequestStop, RequestScan, Inspected, RequestRefresh, RequestDelete, diskVars,
           tables, historyVars
  <1>2. DiskTyped' /\ TablesTyped' /\ ResultsTyped' /\ NotesTyped'
    BY <1>1 DEF DiskTyped, TablesTyped, ResultsTyped, NotesTyped
  <1>3. CASE RequestStop
    <2>1. /\ controller \in Live /\ UNCHANGED << status, controller, thread, starts >>
          /\ runs' = [runs EXCEPT ![controller].aborted = TRUE]
      BY <1>3 DEF RequestStop, RunsTyped
    <2>2. /\ runs' = [o \in RunId |-> IF o = controller THEN runs'[controller] ELSE runs[o]]
          /\ runs'[controller] = [runs[controller] EXCEPT !.aborted = TRUE]
      BY <2>1 DEF RunsTyped, Live
    <2>3. runs[controller].at # "off" /\ RunTyped(runs[controller])
      BY <2>1 DEF Live, RunsTyped
    <2>4. runs'[controller].at # "off" /\ RunTyped(runs'[controller])
      BY <2>2, <2>3 DEF RunTyped
    <2>5. RunsTyped'
      BY <2>1, <2>2, <2>4, StaysTyped
    <2>6. (events \in 0..MaxEvents)'
      BY <1>3, EventTyped DEF RequestStop, Event
    <2> QED
      BY <1>2, <2>1, <2>5, <2>6 DEF StatusTyped
  <1>4. ASSUME NEW root \in ScanRoots, NEW includeFolders \in FolderModes,
               RequestScan(root, includeFolders)
        PROVE  Typed'
    <2>1. [root |-> root, folders |-> includeFolders] \in Start
      BY ScanAssumption DEF Start
    <2>2. starts' = Append(starts, [root |-> root, folders |-> includeFolders])
          /\ UNCHANGED << status, runs, controller, thread >>
      BY <1>4 DEF RequestScan
    <2>3. starts' \in Seq(Start)
      BY <2>1, <2>2 DEF StatusTyped
    <2>4. RunsTyped'
      BY <2>2, RunsUntouched
    <2>5. (events \in 0..MaxEvents)'
      BY <1>4, EventTyped DEF RequestScan, Event
    <2> QED
      BY <1>2, <2>2, <2>3, <2>4, <2>5 DEF StatusTyped
  <1>5. ASSUME NEW index \in DOMAIN starts, Inspected(index)
        PROVE  Typed'
    <2>1. starts \in Seq(Start) /\ index \in 1..Len(starts) /\ Len(starts) \in Nat
      BY LenProperties DEF StatusTyped
    <2>2. starts[index] \in Start
      BY <2>1, ElementOfSeq
    <2>3. starts' \in Seq(Start)
      <3> DEFINE before == SubSeq(starts, 1, index - 1)
                 after == SubSeq(starts, index + 1, Len(starts))
      <3>1. starts' = before \o after
        BY <1>5 DEF Inspected
      <3>2. /\ \A i \in 1..(index - 1) : starts[i] \in Start
            /\ \A i \in (index + 1)..Len(starts) : starts[i] \in Start
        BY <2>1, ElementOfSeq
      <3>3. before \in Seq(Start)
        BY <2>1, <3>2, SubSeqProperties
      <3>4. after \in Seq(Start)
        BY <2>1, <3>2, SubSeqProperties
      <3> QED
        BY <3>1, <3>3, <3>4, ConcatProperties
    <2>4. UNCHANGED events
      BY <1>5 DEF Inspected
    <2>5. CASE UNCHANGED << status, runs, controller, thread >>
      <3>1. RunsTyped'
        BY <2>5, RunsUntouched
      <3> QED
        BY <1>2, <2>3, <2>4, <2>5, <3>1 DEF StatusTyped
    <2>6. ASSUME status' = [seq |-> status.seq + 1, root |-> starts[index].root,
                            folders |-> starts[index].folders, state |-> "running"],
                 Begin("scan", starts[index].root, status.seq + 1,
                       starts[index].folders, {})
          PROVE  Typed'
      <3>1. status.seq + 1 \in Nat \ { 0 }
        BY DEF StatusTyped
      <3>2. RunsTyped'
        BY <2>6, <3>1, BeginTyped
      <3>3. StatusTyped'
        BY <2>2, <2>3, <2>6, <3>1 DEF StatusTyped, Start
      <3> QED
        BY <1>2, <2>4, <3>2, <3>3
    <2> QED
      BY <1>5, <2>5, <2>6 DEF Inspected
  <1>6. ASSUME NEW scope \in Refreshable, RequestRefresh(scope)
        PROVE  Typed'
    <2>1. /\ status' = [status EXCEPT !.state = "running"] /\ starts' = starts
          /\ status.seq # 0
          /\ Begin("refresh", scope, status.seq, status.folders, RecordedUnder(scope))
      BY <1>6 DEF RequestRefresh
    <2>2. status.seq \in Nat \ { 0 }
      BY <2>1 DEF StatusTyped
    <2>3. RunsTyped'
      BY <2>1, <2>2, BeginTyped
    <2>4. StatusTyped'
      BY <2>1 DEF StatusTyped
    <2>5. (events \in 0..MaxEvents)'
      BY <1>6, EventTyped DEF RequestRefresh, Event
    <2> QED
      BY <1>2, <2>3, <2>4, <2>5
  <1>7. ASSUME NEW path \in Deletable, RequestDelete(path)
        PROVE  Typed'
    <2>1. UNCHANGED << status, runs, controller, thread, starts >>
      BY <1>7 DEF RequestDelete
    <2>2. RunsTyped'
      BY <2>1, RunsUntouched
    <2>3. (events \in 0..MaxEvents)'
      BY <1>7, EventTyped DEF RequestDelete, Event
    <2> QED
      BY <1>2, <2>1, <2>2, <2>3 DEF StatusTyped
  <1> QED
    BY <1>3, <1>4, <1>5, <1>6, <1>7

\* A deletion, step by step.
LEMMA DeletionTyped ==
    ASSUME Typed, NEW deletion,
           Described(deletion) \/ MoveToTrash(deletion) \/ RemoveDeleted(deletion)
    PROVE  Typed'
  <1> USE DEF Typed
  <1>1. UNCHANGED << status, runs, controller, thread, starts, events, ignored, basis, late >>
    BY DEF Described, MoveToTrash, RemoveDeleted, historyVars
  <1>2. RunsTyped' /\ StatusTyped' /\ NotesTyped'
    BY <1>1, RunsUntouched DEF StatusTyped, NotesTyped
  <1>3. DiskTyped'
    <2>1. CASE UNCHANGED << disk, dirs >>
      BY <2>1 DEF DiskTyped
    <2>2. CASE /\ disk' = [file \in File |->
                    IF file \in Under(deletion.path) THEN [disk[file] EXCEPT !.content = NoSum]
                                                     ELSE disk[file]]
               /\ dirs' = { dir \in dirs : ~IsWithinSubtree(dir, deletion.path) }
      BY <2>2 DEF DiskTyped, Facts
    <2> QED
      BY <2>1, <2>2 DEF Described, MoveToTrash, RemoveDeleted, diskVars
  <1>4. TablesTyped' /\ ResultsTyped'
    <2>1. CASE UNCHANGED << files, folders, results >>
      BY <2>1 DEF TablesTyped, ResultsTyped
    <2>2. CASE RemoveDeleted(deletion)
      <3>1. ResultsTyped'
        BY <2>2, PruningsTyped DEF RemoveDeleted
      <3>2. files' \in [File -> FileRow] /\ \A file \in File : RowTyped(files'[file])
        <4>1. CASE files' = [file \in File |->
                      IF file \in Under(deletion.path) THEN NoFile ELSE files[file]]
          BY <4>1, ForgetTyped DEF TablesTyped
        <4>2. CASE files' = [files EXCEPT ![deletion.path] = NoFile]
          <5>1. files' = [file \in File |->
                            IF file \in { deletion.path } THEN NoFile ELSE files[file]]
            BY <4>2 DEF TablesTyped
          <5> QED
            BY <5>1, ForgetTyped DEF TablesTyped
        <4> QED
          BY <2>2, <4>1, <4>2 DEF RemoveDeleted
      <3>3. folders' \in [Place -> [seq : Nat, incomplete : BOOLEAN]]
        <4>1. folders \in [Place -> [seq : Nat, incomplete : BOOLEAN]]
          BY DEF TablesTyped
        <4>2. NoFolder \in [seq : Nat, incomplete : BOOLEAN]
          BY DEF NoFolder
        <4>3. \/ folders' = folders
              \/ folders' = [place \in Place |->
                    IF IsWithinSubtree(place, deletion.path) THEN NoFolder ELSE folders[place]]
          BY <2>2 DEF RemoveDeleted
        <4> QED
          BY <4>1, <4>2, <4>3
      <3> QED
        BY <3>1, <3>2, <3>3 DEF TablesTyped
    <2> QED
      BY <2>1, <2>2 DEF Described, MoveToTrash, tables
  <1> QED
    BY <1>1, <1>2, <1>3, <1>4

\* Telling the runs that a file changed.
LEMMA TouchTyped ==
    ASSUME RunsTyped, NEW changed, Touch(changed), UNCHANGED << controller, thread >>
    PROVE  RunsTyped'
  <1>1. runs' = [run \in RunId |->
           IF run \in Live THEN [runs[run] EXCEPT !.missed = @ \cup changed]
                           ELSE runs[run]]
    BY DEF Touch
  <1>2. ASSUME NEW run \in Live
        PROVE  runs'[run].at = runs[run].at /\ RunTyped(runs'[run])
    <2>1. run \in RunId /\ RunTyped(runs[run])
      BY <1>2 DEF Live, RunsTyped
    <2>2. runs'[run] = [runs[run] EXCEPT !.missed = runs[run].missed \cup changed]
      BY <1>1, <1>2, <2>1
    <2> QED
      BY <2>1, <2>2 DEF RunTyped
  <1>3. Live' = Live
    BY <1>1, <1>2 DEF Live
  <1>4. runs' = [run \in RunId |-> runs'[run]]
    BY <1>1
  <1> QED
    BY <1>2, <1>3, <1>4 DEF RunsTyped

\* What users, other programs and restarts do.
LEMMA OutsideTyped ==
    ASSUME Typed,
           \/ \E path \in Ignorable : SetIgnored(path) \/ ClearIgnored(path)
           \/ \E edit \in Edits : Edit(edit[1], edit[2])
           \/ \E path \in Removable : RemoveDir(path)
           \/ Restart
    PROVE  Typed'
  <1> USE DEF Typed
  <1>1. ASSUME NEW path \in Ignorable, SetIgnored(path) \/ ClearIgnored(path)
        PROVE  Typed'
    <2>1. UNCHANGED << disk, dirs, files, folders, status, runs, controller, thread, starts,
                       basis >>
      BY <1>1 DEF SetIgnored, ClearIgnored, diskVars, tables
    <2>2. RunsTyped' /\ StatusTyped' /\ DiskTyped' /\ TablesTyped'
      BY <2>1, RunsUntouched DEF StatusTyped, DiskTyped, TablesTyped
    <2>3. (events \in 0..MaxEvents)'
      BY <1>1, EventTyped DEF SetIgnored, ClearIgnored, Event
    <2>4. NotesTyped'
      <3>1. path \in Place
        BY ScanAssumption
      <3>2. CASE SetIgnored(path)
        <4>1. ignored' = ignored \cup { path }
              /\ (late' = late \/ late' = late \cup { path })
          BY <3>2 DEF SetIgnored
        <4> QED
          BY <2>1, <3>1, <4>1 DEF NotesTyped
      <3>3. CASE ClearIgnored(path)
        BY <2>1, <3>3 DEF ClearIgnored, NotesTyped
      <3> QED
        BY <1>1, <3>2, <3>3
    <2>5. ResultsTyped'
      <3>1. CASE SetIgnored(path)
        BY <3>1, PruningsTyped DEF SetIgnored
      <3>2. CASE ClearIgnored(path)
        BY <3>2 DEF ClearIgnored, ResultsTyped
      <3> QED
        BY <1>1, <3>1, <3>2
    <2> QED
      BY <2>2, <2>3, <2>4, <2>5
  <1>2. ASSUME NEW edit \in Edits, Edit(edit[1], edit[2])
        PROVE  Typed'
    <2>1. edit[1] \in File /\ edit[2] \in Content \cup { NoSum }
      BY ScanAssumption
    <2>2. /\ UNCHANGED << dirs, files, folders, results, ignored, status, controller, thread,
                          starts, basis, late >>
          /\ disk' = [disk EXCEPT ![edit[1]] = [content |-> edit[2], mtime |-> @.mtime + 1]]
          /\ Touch({ edit[1] })
      BY <1>2 DEF Edit, tables, historyVars
    <2>3. DiskTyped'
      BY <2>1, <2>2 DEF DiskTyped, Facts
    <2>4. RunsTyped'
      BY <2>2, TouchTyped
    <2>5. (events \in 0..MaxEvents)'
      BY <1>2, EventTyped DEF Edit, Event
    <2> QED
      BY <2>2, <2>3, <2>4, <2>5 DEF TablesTyped, ResultsTyped, StatusTyped, NotesTyped
  <1>3. ASSUME NEW path \in Removable, RemoveDir(path)
        PROVE  Typed'
    <2>1. /\ UNCHANGED << files, folders, results, ignored, status, controller, thread,
                          starts, basis, late >>
          /\ dirs' = { dir \in dirs : ~IsWithinSubtree(dir, path) }
          /\ disk' = [file \in File |->
                IF file \in Under(path) /\ Exists(file)
                THEN [content |-> NoSum, mtime |-> disk[file].mtime + 1]
                ELSE disk[file]]
          /\ Touch(Under(path) \cup { path, ParentPath(path) })
      BY <1>3 DEF RemoveDir, tables, historyVars
    <2>2. DiskTyped'
      BY <2>1 DEF DiskTyped, Facts
    <2>3. RunsTyped'
      BY <2>1, TouchTyped
    <2>4. (events \in 0..MaxEvents)'
      BY <1>3, EventTyped DEF RemoveDir, Event
    <2> QED
      BY <2>1, <2>2, <2>3, <2>4 DEF TablesTyped, ResultsTyped, StatusTyped, NotesTyped
  <1>4. ASSUME Restart
        PROVE  Typed'
    <2>1. UNCHANGED << disk, dirs, files, folders, ignored, basis >>
      BY <1>4 DEF Restart, diskVars, tables
    <2>2. /\ runs' = [run \in RunId |-> NoRun] /\ controller' = 0 /\ thread' = 0
          /\ starts' = << >> /\ late' = { }
          /\ status' = [status EXCEPT !.state = IF @ = "running" THEN "stopped" ELSE @]
          /\ results' = [results EXCEPT !.groups = WithoutIgnored(@, ignored)]
      BY <1>4 DEF Restart
    <2>3. Live' = { }
      BY <2>2 DEF Live, NoRun
    <2>4. RunsTyped'
      BY <2>2, <2>3 DEF RunsTyped
    <2>5. StatusTyped'
      BY <2>2 DEF StatusTyped
    <2>6. ResultsTyped'
      BY <2>2, PruningsTyped
    <2>7. NotesTyped' /\ DiskTyped' /\ TablesTyped'
      BY <2>1, <2>2 DEF NotesTyped, DiskTyped, TablesTyped
    <2>8. (events \in 0..MaxEvents)'
      BY <1>4, EventTyped DEF Restart
    <2> QED
      BY <2>4, <2>5, <2>6, <2>7, <2>8
  <1> QED
    BY <1>1, <1>2, <1>3, <1>4

\* Every step keeps the types.
LEMMA NextTyped ==
    ASSUME Typed, [Next]_vars
    PROVE  Typed'
  <1>1. CASE RunStep
    BY <1>1, RunStepTyped
  <1>2. CASE \E deletion \in deletions :
                Described(deletion) \/ MoveToTrash(deletion) \/ RemoveDeleted(deletion)
    BY <1>2, DeletionTyped
  <1>3. CASE UNCHANGED vars
    <2>1. UNCHANGED << disk, dirs, files, folders, results, ignored, status, runs, controller,
                       thread, starts, events, basis, late >>
      BY <1>3 DEF vars, diskVars, tables, requestVars, historyVars
    <2> QED
      BY <2>1, RunsUntouched DEF Typed, TablesTyped, ResultsTyped, StatusTyped, DiskTyped,
         NotesTyped
  <1> QED
    BY <1>1, <1>2, <1>3, RequestTyped, OutsideTyped DEF Next

\* The tables, the disk, the results, the runs and the notes hold what their
\* columns and fields say, and no stored group has fewer than two occurrences,
\* even if requests overlap: whatever the paths, their contents, the cache, the
\* number of runs and what other programs do.
THEOREM TypeCorrect == Spec => []TypeOK
  <1>1. Typed /\ [Next]_vars => Typed'
    BY NextTyped
  <1>2. Typed => TypeOK
    BY TypedIsTypeOK
  <1> QED
    BY InitTyped, <1>1, <1>2, PTL DEF Spec

-----------------------------------------------------------------------------
(* What is known of a file *)

\* Facts that were once those of a file, now or since.
Past(facts, now) ==
    /\ facts \in RealFacts
    /\ facts.mtime <= now.mtime
    /\ (facts.mtime = now.mtime /\ now.content # NoSum) => facts = now

\* Checksums that are right unless the file has changed.
TrueSums(known, now) ==
    /\ Past(known.facts, now)
    /\ known.facts = now =>
          /\ known.partial \in { NoSum, HeadOf[now.content] }
          /\ known.full \in { NoSum, now.content }

RowsHold == \A file \in File : files[file].seq # 0 => TrueSums(files[file], disk[file])

\* What a run has read of the disk and of the table; nobody else lists a file
\* while it hashes.
RunHolds(run) ==
    /\ run.at = "listed" => \A entry \in run.found.files : Past(entry.facts, disk[entry.path])
    /\ \A candidate \in run.todo :
          /\ TrueSums(candidate, disk[candidate.path])
          /\ files[candidate.path].seq # 0 => files[candidate.path].facts = candidate.facts
    /\ run.todo # { } => run.at \in { "hash", "reading" }

RunsHold == \A run \in Live : RunHolds(runs[run])

GroupHolds(group) ==
    group.kind = "file" =>
        /\ group.paths \subseteq File
        /\ \A path \in group.paths : Past(basis[path], disk[path])
        /\ \A one, other \in group.paths :
              (basis[one] = disk[one] /\ basis[other] = disk[other])
                  => disk[one].content = disk[other].content

GroupsHold == \A group \in results.groups : GroupHolds(group)

Truth == Typed /\ RowsHold /\ RunsHold /\ GroupsHold

\* How the facts of a file may change: its modification time grows, unless it
\* is moved away.
Later(now, then) ==
    \/ then = now
    \/ then.mtime > now.mtime
    \/ then.mtime = now.mtime /\ then.content = NoSum

\* Facts that are past stay so, and are not those of the file again.
LEMMA PastStays ==
    ASSUME NEW now \in Facts, NEW then \in Facts, Later(now, then), NEW facts, Past(facts, now)
    PROVE  Past(facts, then) /\ (facts = then => facts = now)
  <1>1. /\ now.mtime \in Nat /\ then.mtime \in Nat
        /\ facts.mtime \in Nat /\ facts.content \in Content
    BY DEF Facts, RealFacts, Past
  <1>2. CASE then = now
    BY <1>2
  <1>3. CASE then.mtime > now.mtime
    BY <1>1, <1>3 DEF Past
  <1>4. CASE then.mtime = now.mtime /\ then.content = NoSum
    BY <1>1, <1>4, ContentAssumption DEF Past
  <1> QED
    BY <1>2, <1>3, <1>4 DEF Later

\* So checksums stay right.
LEMMA SumsStay ==
    ASSUME NEW now \in Facts, NEW then \in Facts, Later(now, then),
           NEW known, TrueSums(known, now)
    PROVE  TrueSums(known, then)
  BY PastStays DEF TrueSums

\* What a file is now is what it was.
LEMMA PresentIsPast ==
    ASSUME NEW now \in Facts, now.content # NoSum
    PROVE  Past(now, now)
  BY DEF Past, Facts, RealFacts

-----------------------------------------------------------------------------
(* Steps that learn nothing *)

\* A run that forgets what it knew, or keeps it.
Calm(run) ==
    /\ runs'[run].todo # { } =>
          /\ run \in Live /\ runs'[run].todo \subseteq runs[run].todo
          /\ runs'[run].at \in { "hash", "reading" }
    /\ runs'[run].at = "listed" =>
          run \in Live /\ runs[run].at = "listed" /\ runs'[run].found = runs[run].found

\* A row that keeps its facts and checksums, or goes.
RowStays(file) ==
    files'[file].seq # 0 =>
        /\ files[file].seq # 0
        /\ files'[file].facts = files[file].facts
        /\ files'[file].partial = files[file].partial
        /\ files'[file].full = files[file].full

\* The rows stay right if none is written and files only change onwards.
LEMMA RowsStay ==
    ASSUME Truth, Typed', \A file \in File : Later(disk[file], disk'[file]),
           \A file \in File : RowStays(file)
    PROVE  RowsHold'
  <1> SUFFICES ASSUME NEW file \in File, files'[file].seq # 0
               PROVE  TrueSums(files'[file], disk'[file])
    BY DEF RowsHold
  <1>1. disk[file] \in Facts /\ disk'[file] \in Facts
    BY DEF Truth, Typed, DiskTyped
  <1>2. TrueSums(files[file], disk[file])
    BY DEF Truth, RowsHold, RowStays
  <1>3. TrueSums(files[file], disk'[file])
    BY <1>1, <1>2, SumsStay
  <1> QED
    BY <1>3 DEF TrueSums, RowStays

\* So does what the runs hold,
LEMMA RunsStay ==
    ASSUME Truth, Typed', \A file \in File : Later(disk[file], disk'[file]),
           \A file \in File : RowStays(file), \A run \in Live' : Calm(run)
    PROVE  RunsHold'
  <1> SUFFICES ASSUME NEW run \in Live'
               PROVE  RunHolds(runs[run])'
    BY DEF RunsHold
  <1>0. \A file \in File : disk[file] \in Facts /\ disk'[file] \in Facts
    BY DEF Truth, Typed, DiskTyped
  <1>1. ASSUME runs'[run].at = "listed", NEW entry \in runs'[run].found.files
        PROVE  Past(entry.facts, disk'[entry.path])
    <2>1. run \in Live /\ runs[run].at = "listed" /\ entry \in runs[run].found.files
      BY <1>1 DEF Calm
    <2>2. entry.path \in File
      BY <2>1 DEF Truth, Typed, RunsTyped, RunTyped, Entry
    <2>3. Past(entry.facts, disk[entry.path])
      BY <2>1 DEF Truth, RunsHold, RunHolds
    <2> QED
      BY <1>0, <2>2, <2>3, PastStays
  <1>2. ASSUME NEW candidate \in runs'[run].todo
        PROVE  /\ TrueSums(candidate, disk'[candidate.path])
               /\ files'[candidate.path].seq # 0
                    => files'[candidate.path].facts = candidate.facts
    <2>1. run \in Live /\ candidate \in runs[run].todo
      BY <1>2 DEF Calm
    <2>2. candidate.path \in File
      BY <2>1 DEF Truth, Typed, RunsTyped, RunTyped, Candidate
    <2>3. /\ TrueSums(candidate, disk[candidate.path])
          /\ files[candidate.path].seq # 0 => files[candidate.path].facts = candidate.facts
      BY <2>1 DEF Truth, RunsHold, RunHolds
    <2>4. TrueSums(candidate, disk'[candidate.path])
      BY <1>0, <2>2, <2>3, SumsStay
    <2> QED
      BY <2>2, <2>3, <2>4 DEF RowStays
  <1>3. runs'[run].todo # { } => runs'[run].at \in { "hash", "reading" }
    BY DEF Calm
  <1> QED
    BY <1>1, <1>2, <1>3 DEF RunHolds

\* and the groups.
LEMMA GroupsStay ==
    ASSUME Truth, Typed', \A file \in File : Later(disk[file], disk'[file]),
           basis' = basis, results'.groups = results.groups \/ Thins(results'.groups, results.groups)
    PROVE  GroupsHold'
  <1> SUFFICES ASSUME NEW group \in results'.groups, group.kind = "file"
               PROVE  GroupHolds(group)'
    BY DEF GroupsHold, GroupHolds
  <1>0. \A file \in File : disk[file] \in Facts /\ disk'[file] \in Facts
    BY DEF Truth, Typed, DiskTyped
  <1>1. PICK before \in results.groups :
           before.kind = "file" /\ group.paths \subseteq before.paths
    BY DEF Thins
  <1>2. GroupHolds(before)
    BY <1>1 DEF Truth, GroupsHold
  <1>3. group.paths \subseteq File /\ \A path \in group.paths : Past(basis[path], disk[path])
    BY <1>1, <1>2 DEF GroupHolds
  <1>4. \A path \in group.paths :
           /\ Past(basis[path], disk'[path])
           /\ basis[path] = disk'[path] => basis[path] = disk[path]
    BY <1>0, <1>3, PastStays
  <1>5. ASSUME NEW one \in group.paths, NEW other \in group.paths,
               basis[one] = disk'[one] /\ basis[other] = disk'[other]
        PROVE  disk'[one].content = disk'[other].content
    <2>1. basis[one] = disk[one] /\ basis[other] = disk[other]
      BY <1>4, <1>5
    <2>2. one \in before.paths /\ other \in before.paths
      BY <1>1
    <2>3. disk[one].content = disk[other].content
      BY <1>1, <1>2, <2>1, <2>2 DEF GroupHolds
    <2> QED
      BY <1>5, <2>1, <2>3
  <1> QED
    BY <1>3, <1>4, <1>5 DEF GroupHolds

\* The three together.
LEMMA CalmKeepsTruth ==
    ASSUME Truth, Typed', \A file \in File : Later(disk[file], disk'[file]),
           \A file \in File : RowStays(file), \A run \in Live' : Calm(run),
           basis' = basis, results'.groups = results.groups \/ Thins(results'.groups, results.groups)
    PROVE  Truth'
  BY RowsStay, RunsStay, GroupsStay DEF Truth

-----------------------------------------------------------------------------
(* Steps that learn something *)

\* Checksums known before and since, for facts that agree in time and size.
LEMMA UpsertKeepsTruth ==
    ASSUME Truth, disk' = disk, NEW found \in SUBSET Entry, NEW seq \in Nat,
           \A entry \in found : Past(entry.facts, disk[entry.path]),
           files' = UpsertFileFacts(files, found, seq)
    PROVE  RowsHold'
  <1> SUFFICES ASSUME NEW file \in File, files'[file].seq # 0
               PROVE  TrueSums(files'[file], disk[file])
    BY DEF RowsHold
  <1>1. CASE ~ \E entry \in found : entry.path = file
    <2>1. files'[file] = files[file]
      BY <1>1 DEF UpsertFileFacts
    <2> QED
      BY <2>1 DEF Truth, RowsHold
  <1>2. CASE \E entry \in found : entry.path = file
    <2> DEFINE facts == (CHOOSE entry \in found : entry.path = file).facts
    <2>1. Past(facts, disk[file])
      <3> DEFINE entry == CHOOSE e \in found : e.path = file
      <3>1. entry \in found /\ entry.path = file
        BY <1>2
      <3> HIDE DEF entry
      <3>2. Past(entry.facts, disk[file])
        BY <3>1
      <3> QED
        BY <3>2 DEF entry
    <2>2. files'[file] = [seq |-> seq, facts |-> facts, failed |-> FALSE,
                partial |-> IF SameFacts(files[file], facts) THEN files[file].partial ELSE NoSum,
                full |-> IF SameFacts(files[file], facts) THEN files[file].full ELSE NoSum]
      BY <1>2 DEF UpsertFileFacts
    <2> HIDE DEF facts
    <2>3. CASE SameFacts(files[file], facts) /\ facts = disk[file]
      <3>1. files[file].seq # 0 /\ files[file].facts.mtime = disk[file].mtime
        BY <2>3 DEF SameFacts
      <3>2. disk[file].content \in Content
        BY <2>1, <2>3 DEF Past, RealFacts
      <3>3. TrueSums(files[file], disk[file])
        BY <3>1 DEF Truth, RowsHold
      <3>4. files[file].facts = disk[file]
        BY <3>1, <3>2, <3>3, ContentAssumption DEF TrueSums, Past
      <3>5. /\ files[file].partial \in { NoSum, HeadOf[disk[file].content] }
            /\ files[file].full \in { NoSum, disk[file].content }
        BY <3>3, <3>4 DEF TrueSums
      <3>6. /\ files'[file].facts = facts /\ files'[file].partial = files[file].partial
            /\ files'[file].full = files[file].full
        BY <2>2, <2>3
      <3> QED
        BY <2>1, <3>5, <3>6 DEF TrueSums
    <2>4. CASE ~ SameFacts(files[file], facts)
      <3>1. files'[file].facts = facts /\ files'[file].partial = NoSum /\ files'[file].full = NoSum
        BY <2>2, <2>4
      <3> QED
        BY <2>1, <3>1 DEF TrueSums
    <2>5. CASE facts # disk[file]
      <3>1. files'[file].facts = facts
        BY <2>2
      <3> QED
        BY <2>1, <2>5, <3>1 DEF TrueSums
    <2> QED
      BY <2>3, <2>4, <2>5
  <1> QED
    BY <1>1, <1>2

\* Sums of a candidate that are right unless the file has changed.
RightSums(sums, candidate, now) ==
    candidate.facts = now =>
        /\ sums.partial \in { NoSum, HeadOf[now.content] }
        /\ sums.full \in { NoSum, now.content }

\* Such sums may be recorded.
LEMMA RecordKeepsTruth ==
    ASSUME Truth, disk' = disk, NEW candidate \in Candidate, NEW sums,
           RightSums(sums, candidate, disk[candidate.path]),
           files[candidate.path].seq # 0 => files[candidate.path].facts = candidate.facts,
           files' = RecordChecksums(files, candidate.path, sums.partial, sums.full)
    PROVE  /\ RowsHold'
           /\ \A file \in File : /\ files'[file].seq = files[file].seq
                                 /\ files'[file].facts = files[file].facts
  <1> DEFINE path == candidate.path
             row == [files[path] EXCEPT !.partial = Coalesce(sums.partial, @),
                                        !.full = Coalesce(sums.full, @), !.failed = FALSE]
  <1>1. files \in [File -> FileRow] /\ path \in File
    BY DEF Truth, Typed, TablesTyped, Candidate
  <1>2. CASE files[path].seq = 0
    <2>1. files' = files
      BY <1>2 DEF RecordChecksums
    <2> QED
      BY <2>1 DEF Truth, RowsHold
  <1>3. CASE files[path].seq # 0
    <2>1. files' = [files EXCEPT ![path] = row]
      BY <1>3 DEF RecordChecksums
    <2>2. /\ row.seq = files[path].seq /\ row.facts = files[path].facts
          /\ row.partial = Coalesce(sums.partial, files[path].partial)
          /\ row.full = Coalesce(sums.full, files[path].full)
      BY <1>1 DEF FileRow
    <2> HIDE DEF row
    <2>3. files'[path] = row /\ \A file \in File : file # path => files'[file] = files[file]
      BY <1>1, <2>1
    <2>4. TrueSums(files[path], disk[path])
      BY <1>1, <1>3 DEF Truth, RowsHold
    <2>5. TrueSums(row, disk[path])
      <3>1. Past(row.facts, disk[path])
        BY <2>2, <2>4 DEF TrueSums
      <3>2. ASSUME row.facts = disk[path]
            PROVE  /\ row.partial \in { NoSum, HeadOf[disk[path].content] }
                   /\ row.full \in { NoSum, disk[path].content }
        <4>1. candidate.facts = disk[path] /\ files[path].facts = disk[path]
          BY <1>3, <2>2, <3>2
        <4>2. /\ sums.partial \in { NoSum, HeadOf[disk[path].content] }
              /\ sums.full \in { NoSum, disk[path].content }
          BY <4>1 DEF RightSums
        <4>3. /\ files[path].partial \in { NoSum, HeadOf[disk[path].content] }
              /\ files[path].full \in { NoSum, disk[path].content }
          BY <2>4, <4>1 DEF TrueSums
        <4> QED
          BY <2>2, <4>2, <4>3 DEF Coalesce
      <3> QED
        BY <3>1, <3>2 DEF TrueSums
    <2>6. RowsHold'
      BY <2>3, <2>5 DEF Truth, RowsHold
    <2> QED
      BY <2>2, <2>3, <2>6
  <1> QED
    BY <1>2, <1>3

\* The head of a small file is the whole of it.
LEMMA PartialSumsRight ==
    ASSUME NEW facts \in RealFacts, NEW partial \in { NoSum, HeadOf[facts.content] }
    PROVE  /\ PartialSums(facts, partial).partial \in { NoSum, HeadOf[facts.content] }
           /\ PartialSums(facts, partial).full \in { NoSum, facts.content }
  <1>1. facts.content \in Content
    BY DEF RealFacts
  <1>2. IsSmall(facts) => HeadOf[facts.content] = facts.content
    BY <1>1, ContentAssumption DEF IsSmall, FileSize
  <1> QED
    BY <1>2 DEF PartialSums, Sums

\* What the earlier scans and the comparison's cache know is right.
LEMMA KnownSumsRight ==
    ASSUME NEW stage, NEW candidate \in Candidate, NEW hit, NEW now, TrueSums(candidate, now)
    PROVE  RightSums(KnownSums(stage, candidate, hit), candidate, now)
  <1> SUFFICES ASSUME candidate.facts = now
               PROVE  /\ KnownSums(stage, candidate, hit).partial \in { NoSum, HeadOf[now.content] }
                      /\ KnownSums(stage, candidate, hit).full \in { NoSum, now.content }
    BY DEF RightSums
  <1>1. now \in RealFacts /\ candidate.partial \in { NoSum, HeadOf[now.content] }
    BY DEF TrueSums, Candidate
  <1> DEFINE cached == Cached(candidate.facts, hit)
  <1>2. /\ cached.partial \in { NoSum, HeadOf[now.content] }
        /\ cached.full \in { NoSum, now.content }
    BY DEF Cached, Sums
  <1>3. KnownSums(stage, candidate, hit) =
          IF stage = "full" THEN Sums(NoSum, cached.full)
          ELSE IF cached.full # NoSum THEN cached
          ELSE PartialSums(candidate.facts, Coalesce(candidate.partial, cached.partial))
    BY DEF KnownSums
  <1> HIDE DEF cached
  <1>4. Coalesce(candidate.partial, cached.partial) \in { NoSum, HeadOf[now.content] }
    BY <1>1, <1>2 DEF Coalesce
  <1>5. CASE stage = "full"
    BY <1>2, <1>3, <1>5 DEF Sums
  <1>6. CASE stage # "full" /\ cached.full # NoSum
    BY <1>2, <1>3, <1>6
  <1>7. CASE stage # "full" /\ cached.full = NoSum
    BY <1>1, <1>3, <1>4, <1>7, PartialSumsRight
  <1> QED
    BY <1>5, <1>6, <1>7

\* What a run reports is true of the facts it is built from.
LEMMA SavedAreTrue ==
    ASSUME Truth, Typed', disk' = disk, NEW run \in Live, SaveGroups(run)
    PROVE  GroupsHold'
  <1> DEFINE seq == runs[run].seq
             groups == BuildGroups(files, folders, runs[run].ignored, seq, FoldersDerived(run))
  <1>1. /\ results' = [seq |-> seq, groups |-> groups]
        /\ basis' = [file \in File |-> files[file].facts]
    BY DEF SaveGroups
  <1>2. seq # 0
    BY DEF Truth, Typed, RunsTyped, RunTyped
  <1>3. ASSUME NEW group \in groups, group.kind = "file"
        PROVE  GroupHolds(group)'
    <2>1. \/ FileGroup(group, files, seq)
          \/ group = [kind |-> "directory", sum |-> group.sum, paths |-> group.paths]
      BY BuildIsOfFiles
    <2>2. FileGroup(group, files, seq)
      BY <1>3, <2>1
    <2>3. group.paths \subseteq File
      BY <2>2 DEF FileGroup
    <2>4. \A path \in group.paths :
            /\ basis'[path] = files[path].facts /\ files[path].full # NoSum
            /\ TrueSums(files[path], disk[path])
      BY <1>1, <1>2, <2>2, <2>3 DEF FileGroup, Truth, RowsHold
    <2>5. ASSUME NEW one \in group.paths, NEW other \in group.paths,
                 basis'[one] = disk[one] /\ basis'[other] = disk[other]
          PROVE  disk[one].content = disk[other].content
      <3>1. files[one].full = disk[one].content /\ files[other].full = disk[other].content
        BY <2>4, <2>5 DEF TrueSums
      <3> QED
        BY <2>2, <3>1 DEF FileGroup
    <2> QED
      BY <2>3, <2>4, <2>5 DEF GroupHolds, TrueSums
  <1>4. results'.groups = groups
    BY <1>1
  <1> HIDE DEF groups
  <1>5. ASSUME NEW group \in results'.groups
        PROVE  GroupHolds(group)'
    <2>1. CASE group.kind = "file"
      BY <1>3, <1>4, <2>1
    <2>2. CASE group.kind # "file"
      BY <2>2 DEF GroupHolds
    <2> QED
      BY <2>1, <2>2
  <1> QED
    BY <1>5 DEF GroupsHold

\* The others know what they knew.
LEMMA OthersCalm ==
    ASSUME Truth, NEW run \in Live,
           \A other \in RunId : other # run => runs'[other] = runs[other],
           run \in Live' => Calm(run)
    PROVE  \A other \in Live' : Calm(other)
  <1> SUFFICES ASSUME NEW other \in Live', other # run
               PROVE  Calm(other)
    OBVIOUS
  <1>1. other \in RunId /\ runs'[other] = runs[other] /\ other \in Live
    BY DEF Live
  <1> QED
    BY <1>1 DEF Truth, RunsHold, RunHolds, Calm

\* The steps of a run that neither list, query, record nor save.
LEMMA CalmStepKeepsTruth ==
    ASSUME Truth, Typed', NEW run \in Live,
           \/ ListNext(run) \/ ListRejects(run) \/ ForgetVanished(run)
           \/ HashingEnds(run) \/ HashingStops(run) \/ ReadFails(run) \/ ClearResults(run)
    PROVE  Truth'
  <1> USE DEF Goes
  <1>0. /\ run \in RunId /\ runs = [o \in RunId |-> runs[o]]
        /\ RunTyped(runs[run]) /\ RunHolds(runs[run])
        /\ { "at", "seq", "found", "todo" } \subseteq DOMAIN runs[run]
    BY DEF Live, Truth, Typed, RunsTyped, RunsHold, RunTyped
  <1>1. UNCHANGED << disk, basis >>
    BY DEF ListNext, ListRejects, ForgetVanished, HashingEnds, HashingStops, ReadFails,
           ClearResults, RunUnchanged, diskVars, historyVars
  <1>2. \A file \in File : Later(disk[file], disk'[file])
    BY <1>1 DEF Later
  <1>3. results'.groups = results.groups \/ Thins(results'.groups, results.groups)
    <2>1. CASE ClearResults(run)
      <3>1. results' = [results EXCEPT !.groups = {}]
        BY <2>1 DEF ClearResults
      <3>2. results'.groups = { }
        BY <3>1 DEF Truth, Typed, ResultsTyped
      <3> QED
        BY <3>2 DEF Thins
    <2> QED
      BY <2>1 DEF ListNext, ListRejects, ForgetVanished, HashingEnds, HashingStops, ReadFails
  <1>4. \A file \in File : RowStays(file)
    <2>1. CASE files' = files
      BY <2>1 DEF RowStays
    <2>2. CASE ForgetVanished(run)
      <3>1. \A file \in File : files'[file] = NoFile \/ files'[file] = files[file]
        BY <2>2 DEF ForgetVanished
      <3> QED
        BY <3>1 DEF RowStays, NoFile
    <2>3. CASE ReadFails(run)
      <3> DEFINE path == runs[run].found.path
      <3>1. files' = files \/ files' = RecordReadError(files, path)
        BY <2>3 DEF ReadFails
      <3>2. files' = files \/ files' = [files EXCEPT ![path].failed = TRUE]
        BY <3>1 DEF RecordReadError
      <3>3. files \in [File -> FileRow]
        BY DEF Truth, Typed, TablesTyped
      <3> HIDE DEF path
      <3>4. ASSUME NEW file \in File
            PROVE  files'[file] = files[file] \/ files'[file] = [files[file] EXCEPT !.failed = TRUE]
        BY <3>2, <3>3
      <3>5. ASSUME NEW file \in File PROVE RowStays(file)
        <4>1. files[file] \in FileRow
          BY <3>3
        <4> QED
          BY <3>4, <4>1 DEF RowStays, FileRow
      <3> QED
        BY <3>5
    <2> QED
      BY <2>1, <2>2, <2>3 DEF ListNext, ListRejects, HashingEnds, HashingStops, ClearResults,
         tables
  <1>5. PICK now :
          /\ runs' = [o \in RunId |-> IF o = run THEN now ELSE runs[o]]
          /\ \/ now.at = "off"
             \/ now.todo = { } /\ now.at # "listed"
             \/ now.todo \subseteq runs[run].todo /\ now.at \in { "hash", "reading" }
    <2>1. CASE \E state : Finish(run, state)
      <3>1. runs' = [o \in RunId |-> IF o = run THEN NoRun ELSE runs[o]]
        BY <1>0, <2>1 DEF Finish
      <3> QED
        BY <3>1 DEF NoRun
    <2>2. CASE ListNext(run) /\ ~ \E state : Finish(run, state)
      <3> DEFINE path == runs[run].stack[Len(runs[run].stack)]
                 stack == SubSeq(runs[run].stack, 1, Len(runs[run].stack) - 1)
      <3>1. runs[run].todo = { }
        BY <1>0, <2>2 DEF ListNext, RunHolds
      <3>2. \/ runs' = [runs EXCEPT ![run].at = "clear", ![run].cut = TRUE]
            \/ \E at \in { "query", "forget" } : runs' = [runs EXCEPT ![run].at = at]
            \/ runs' = [runs EXCEPT ![run].at = "listing", ![run].path = path,
                                    ![run].stack = stack]
        BY <2>2 DEF ListNext, ListingEnds
      <3> HIDE DEF path, stack
      <3>3. PICK now :
              /\ runs' = [o \in RunId |-> IF o = run THEN now ELSE runs[o]]
              /\ \/ now = [runs[run] EXCEPT !.at = "clear", !.cut = TRUE]
                 \/ \E at \in { "query", "forget" } : now = [runs[run] EXCEPT !.at = at]
                 \/ now = [runs[run] EXCEPT !.at = "listing", !.path = path, !.stack = stack]
        BY <1>0, <3>2
      <3>4. now.todo = runs[run].todo /\ now.at \in { "clear", "query", "forget", "listing" }
        BY <1>0, <3>3
      <3> QED
        BY <3>1, <3>3, <3>4
    <2>3. CASE ForgetVanished(run)
      <3>1. runs[run].todo = { }
        BY <1>0, <2>3 DEF ForgetVanished, RunHolds
      <3>2. runs' = [o \in RunId |-> IF o = run THEN [runs[run] EXCEPT !.at = "query"]
                                                ELSE runs[o]]
        BY <1>0, <2>3 DEF ForgetVanished
      <3> QED
        BY <1>0, <3>1, <3>2
    <2>4. CASE HashingEnds(run)
      <3>1. runs[run].todo = { }
        BY <2>4 DEF HashingEnds
      <3>2. \/ runs' = [o \in RunId |->
                   IF o = run THEN [runs[run] EXCEPT !.at = "query", !.stage = "full"]
                              ELSE runs[o]]
            \/ runs' = [o \in RunId |-> IF o = run THEN [runs[run] EXCEPT !.at = "clear"]
                                                   ELSE runs[o]]
        BY <1>0, <2>4 DEF HashingEnds
      <3> QED
        BY <1>0, <3>1, <3>2
    <2>5. CASE HashingStops(run)
      <3> DEFINE new == [runs[run] EXCEPT !.at = "clear", !.cut = TRUE, !.todo = { }]
      <3>1. runs' = [o \in RunId |-> IF o = run THEN new ELSE runs[o]]
        BY <1>0, <2>5 DEF HashingStops
      <3>2. new.at = "clear" /\ new.todo = { }
        BY <1>0
      <3> HIDE DEF new
      <3> QED
        BY <3>1, <3>2
    <2>6. CASE ReadFails(run)
      <3> DEFINE found == runs[run].found
      <3>1. PICK now :
              /\ runs' = [o \in RunId |-> IF o = run THEN now ELSE runs[o]]
              /\ \/ now = [runs[run] EXCEPT !.at = "clear", !.cut = TRUE, !.found = { },
                                            !.todo = { }]
                 \/ now = [runs[run] EXCEPT !.at = "hash", !.found = { },
                                            !.todo = runs[run].todo \ { found },
                                            !.missed = runs[run].missed \cup { found.path }]
        BY <1>0, <2>6 DEF ReadFails
      <3> HIDE DEF found
      <3>2. \/ now.at = "clear" /\ now.todo = { }
            \/ now.at = "hash" /\ now.todo = runs[run].todo \ { found }
        BY <1>0, <3>1
      <3> QED
        BY <3>1, <3>2
    <2>7. CASE ClearResults(run)
      <3>1. runs[run].todo = { }
        BY <1>0, <2>7 DEF ClearResults, RunHolds
      <3>2. runs' = [o \in RunId |-> IF o = run THEN [runs[run] EXCEPT !.at = "save"]
                                                ELSE runs[o]]
        BY <1>0, <2>7 DEF ClearResults
      <3> QED
        BY <1>0, <3>1, <3>2
    <2> QED
      BY <2>1, <2>2, <2>3, <2>4, <2>5, <2>6, <2>7 DEF ListRejects
  <1>6. \A other \in RunId : other # run => runs'[other] = runs[other]
    BY <1>5
  <1>7. run \in Live' => Calm(run)
    BY <1>0, <1>5 DEF Live, Calm
  <1>8. \A other \in Live' : Calm(other)
    BY <1>6, <1>7, OthersCalm
  <1> QED
    BY <1>1, <1>2, <1>3, <1>4, <1>8, CalmKeepsTruth

\* One run alone: what it holds is all that the runs hold.
LEMMA OnlyRunHolds ==
    ASSUME OneSlot, NEW run \in Live, NEW now,
           runs' = [o \in RunId |-> IF o = run THEN now ELSE runs[o]],
           RunHolds(runs[run])'
    PROVE  RunsHold'
  <1>1. Live = { run }
    BY DEF OneSlot
  <1>2. Live' \subseteq { run }
    BY <1>1 DEF Live
  <1> QED
    BY <1>2 DEF RunsHold

\* The steps of a run that learn something of the disk.
LEMMA LearningStepKeepsTruth ==
    ASSUME Truth, Typed', OneSlot, NEW run \in Live,
           \/ LookAt(run) \/ ListDirectory(run) \/ RestatFile(run) \/ Query(run)
           \/ HashNext(run) \/ ReadFile(run) \/ SaveGroups(run)
    PROVE  Truth'
  <1> DEFINE now == runs[run]
  <1>0. /\ run \in RunId /\ runs = [o \in RunId |-> runs[o]]
        /\ RunTyped(runs[run]) /\ RunHolds(runs[run])
        /\ { "at", "seq", "found", "todo" } \subseteq DOMAIN runs[run]
    BY DEF Live, Truth, Typed, RunsTyped, RunsHold, RunTyped
  <1>1. disk' = disk
    BY DEF LookAt, ListDirectory, RestatFile, Query, HashNext, ReadFile, SaveGroups,
           RunUnchanged, diskVars
  <1>2. ~SaveGroups(run) => GroupsHold'
    <2> SUFFICES ASSUME ~SaveGroups(run) PROVE GroupsHold'
      OBVIOUS
    <2>1. UNCHANGED << results, basis >>
      BY DEF LookAt, ListDirectory, RestatFile, Query, HashNext, ReadFile, historyVars
    <2>2. \A file \in File : Later(disk[file], disk'[file])
      BY <1>1 DEF Later
    <2> QED
      BY <2>1, <2>2, GroupsStay
  <1>3. CASE LookAt(run)
    <2> DEFINE path == now.path
    <2>1. files' = files /\ now.at = "listing"
      BY <1>3 DEF LookAt, tables
    <2>2. now.todo = { }
      BY <1>0, <2>1 DEF RunHolds
    <2>3. PICK listing, missed :
             /\ runs' = [runs EXCEPT ![run].at = "listed", ![run].found = listing,
                                     ![run].missed = missed]
             /\ listing.files \subseteq Children(path)
      <3>1. CASE \E bad \in SUBSET { entry \in Children(path) : entry.path \in Flaky } :
                  runs' = [runs EXCEPT
                     ![run].at = "listed",
                     ![run].found = Listing(Children(path) \ bad, Inner(path), bad # {}),
                     ![run].missed = @ \cup { entry.path : entry \in bad }]
        <4>1. PICK bad :
                  runs' = [runs EXCEPT
                     ![run].at = "listed",
                     ![run].found = Listing(Children(path) \ bad, Inner(path), bad # {}),
                     ![run].missed = runs[run].missed \cup { entry.path : entry \in bad }]
          BY <3>1
        <4>2. Listing(Children(path) \ bad, Inner(path), bad # {}).files \subseteq Children(path)
          BY DEF Listing
        <4> QED
          BY <4>1, <4>2
      <3>2. CASE runs' = [runs EXCEPT ![run].at = "listed",
                     ![run].found = Listing({}, {}, TRUE),
                     ![run].missed = @ \cup Under(path) \cup { path }]
        <4>1. Listing({}, {}, TRUE).files \subseteq Children(path)
          BY DEF Listing
        <4>2. runs' = [runs EXCEPT ![run].at = "listed", ![run].found = Listing({}, {}, TRUE),
                     ![run].missed = runs[run].missed \cup Under(path) \cup { path }]
          BY <3>2
        <4> QED
          BY <4>1, <4>2
      <3> QED
        BY <1>3, <3>1, <3>2 DEF LookAt
    <2> DEFINE new == [now EXCEPT !.at = "listed", !.found = listing, !.missed = missed]
    <2>4. runs' = [o \in RunId |-> IF o = run THEN new ELSE runs[o]]
      BY <1>0, <2>3
    <2>5. new.at = "listed" /\ new.found = listing /\ new.todo = { }
      BY <1>0, <2>2
    <2> HIDE DEF new
    <2>6. ASSUME NEW entry \in Children(path) PROVE Past(entry.facts, disk[entry.path])
      <3>1. /\ entry.path \in File /\ entry.facts = disk[entry.path]
            /\ disk[entry.path].content # NoSum
        BY DEF Children, Exists
      <3>2. disk[entry.path] \in Facts
        BY <3>1 DEF Truth, Typed, DiskTyped
      <3> QED
        BY <3>1, <3>2, PresentIsPast
    <2>7. RunHolds(runs[run])'
      <3>1. runs'[run] = new
        BY <1>0, <2>4
      <3> QED
        BY <1>1, <2>3, <2>5, <2>6, <3>1 DEF RunHolds
    <2>8. RunsHold'
      BY <2>4, <2>7, OnlyRunHolds
    <2> QED
      BY <1>1, <1>2, <1>3, <2>1, <2>8 DEF Truth, RowsHold, LookAt, SaveGroups
  <1>4. CASE ListDirectory(run)
    <2> DEFINE entries == { entry \in now.found.files : ~IsIgnored(entry.path, now.ignored) }
               inner == { dir \in now.found.dirs : ~IsIgnored(dir, now.ignored) }
               added == IF now.kind = "scan" THEN {}
                        ELSE now.seen \cup { entry.path : entry \in entries }
    <2>1. now.at = "listed" /\ files' = UpsertFileFacts(files, entries, now.seq)
      BY <1>4 DEF ListDirectory
    <2>2. /\ entries \in SUBSET Entry /\ now.seq \in Nat
          /\ \A entry \in entries : Past(entry.facts, disk[entry.path])
      BY <1>0, <2>1 DEF RunTyped, RunHolds
    <2>3. RowsHold'
      <3> HIDE DEF entries
      <3> QED
        BY <1>1, <2>1, <2>2, UpsertKeepsTruth
    <2>4. now.todo = { }
      BY <1>0, <2>1 DEF RunHolds
    <2>5. PICK order \in Orderings(inner) :
            runs' = [runs EXCEPT
               ![run].at = "list", ![run].found = { },
               ![run].stack = @ \o order,
               ![run].seen = IF now.kind = "scan" THEN {}
                             ELSE @ \cup { entry.path : entry \in entries }]
      BY <1>4 DEF ListDirectory
    <2> DEFINE new == [now EXCEPT !.at = "list", !.found = { },
                                  !.stack = now.stack \o order, !.seen = added]
    <2> HIDE DEF entries, inner
    <2>6. runs' = [o \in RunId |-> IF o = run THEN new ELSE runs[o]]
      BY <1>0, <2>5
    <2>7. new.at = "list" /\ new.todo = { }
      <3> HIDE DEF added
      <3> QED
        BY <1>0, <2>4
    <2> HIDE DEF new
    <2>8. RunHolds(runs[run])'
      <3>1. runs'[run] = new
        BY <1>0, <2>6
      <3> QED
        BY <2>7, <3>1 DEF RunHolds
    <2>9. RunsHold'
      BY <2>6, <2>8, OnlyRunHolds
    <2> QED
      BY <1>2, <1>4, <2>3, <2>9 DEF Truth, ListDirectory, SaveGroups
  <1>5. CASE RestatFile(run)
    <2> DEFINE entries == { entry \in now.found.files :
                              entry.path = now.scope /\ ~IsIgnored(entry.path, now.ignored) }
               seen == { entry.path : entry \in entries }
               new == [now EXCEPT !.at = "forget", !.found = { }, !.seen = seen]
    <2>1. now.at = "listed" /\ files' = UpsertFileFacts(files, entries, now.seq)
      BY <1>5 DEF RestatFile
    <2>2. /\ entries \in SUBSET Entry /\ now.seq \in Nat
          /\ \A entry \in entries : Past(entry.facts, disk[entry.path])
      BY <1>0, <2>1 DEF RunTyped, RunHolds
    <2>3. RowsHold'
      <3> HIDE DEF entries
      <3> QED
        BY <1>1, <2>1, <2>2, UpsertKeepsTruth
    <2>4. now.todo = { }
      BY <1>0, <2>1 DEF RunHolds
    <2>5. runs' = [o \in RunId |-> IF o = run THEN new ELSE runs[o]]
      BY <1>0, <1>5 DEF RestatFile
    <2> HIDE DEF entries, seen
    <2>6. new.at = "forget" /\ new.todo = { }
      BY <1>0, <2>4
    <2> HIDE DEF new
    <2>7. RunHolds(runs[run])'
      <3>1. runs'[run] = new
        BY <1>0, <2>5
      <3> QED
        BY <2>6, <3>1 DEF RunHolds
    <2>8. RunsHold'
      BY <2>5, <2>7, OnlyRunHolds
    <2> QED
      BY <1>2, <1>5, <2>3, <2>8 DEF Truth, RestatFile, SaveGroups
  <1>6. CASE Query(run)
    <2> DEFINE todo == { [path |-> file, facts |-> files[file].facts,
                          partial |-> files[file].partial,
                          full |-> files[file].full] : file \in Candidates(run) }
               new == [now EXCEPT !.at = "hash", !.todo = todo]
    <2>1. files' = files /\ runs' = [o \in RunId |-> IF o = run THEN new ELSE runs[o]]
      BY <1>0, <1>6 DEF Query, tables
    <2>2. ASSUME NEW candidate \in todo
          PROVE  /\ TrueSums(candidate, disk[candidate.path])
                 /\ files[candidate.path].facts = candidate.facts
      <3>1. PICK file \in Candidates(run) :
               /\ candidate.path = file /\ candidate.facts = files[file].facts
               /\ candidate.partial = files[file].partial /\ candidate.full = files[file].full
        BY <2>2
      <3>2. file \in File /\ files[file].seq = now.seq
        BY DEF Candidates, FindSharedSizeCandidates, FindSharedPartialCandidates, Readable
      <3>3. TrueSums(files[file], disk[file])
        BY <1>0, <3>2 DEF RunTyped, Truth, RowsHold
      <3> QED
        BY <3>1, <3>3 DEF TrueSums
    <2> HIDE DEF todo
    <2>3. new.at = "hash" /\ new.todo = todo
      BY <1>0
    <2> HIDE DEF new
    <2>4. RunHolds(runs[run])'
      <3>1. runs'[run] = new
        BY <1>0, <2>1
      <3> QED
        BY <1>1, <2>1, <2>2, <2>3, <3>1 DEF RunHolds
    <2>5. RunsHold'
      BY <2>1, <2>4, OnlyRunHolds
    <2> QED
      BY <1>1, <1>2, <1>6, <2>1, <2>5 DEF Truth, RowsHold, Query, SaveGroups
  <1>7. CASE HashNext(run)
    <2>1. PICK candidate \in now.todo, hit \in CacheHits :
            /\ \/ files' = files
               \/ files' = Record(candidate, KnownSums(now.stage, candidate, hit))
            /\ \/ runs' = [runs EXCEPT ![run].todo = @ \ { candidate }]
               \/ runs' = [runs EXCEPT ![run].at = "reading", ![run].found = candidate]
            /\ now.at = "hash"
      BY <1>7 DEF HashNext
    <2>2. /\ candidate \in Candidate
          /\ TrueSums(candidate, disk[candidate.path])
          /\ files[candidate.path].seq # 0 => files[candidate.path].facts = candidate.facts
      BY <1>0 DEF RunTyped, RunHolds
    <2>3. /\ RowsHold'
          /\ \A file \in File : /\ files'[file].seq = files[file].seq
                                /\ files'[file].facts = files[file].facts
      <3>1. CASE files' = files
        BY <1>1, <3>1 DEF Truth, RowsHold
      <3>2. CASE files' = Record(candidate, KnownSums(now.stage, candidate, hit))
        <4> DEFINE sums == KnownSums(now.stage, candidate, hit)
        <4>1. RightSums(sums, candidate, disk[candidate.path])
          BY <2>2, KnownSumsRight
        <4> HIDE DEF sums
        <4>2. files' = RecordChecksums(files, candidate.path, sums.partial, sums.full)
          BY <3>2 DEF Record, sums
        <4> QED
          BY <1>1, <2>2, <4>1, <4>2, RecordKeepsTruth
      <3> QED
        BY <2>1, <3>1, <3>2
    <2>4. PICK new :
            /\ runs' = [o \in RunId |-> IF o = run THEN new ELSE runs[o]]
            /\ \/ new = [now EXCEPT !.todo = now.todo \ { candidate }]
               \/ new = [now EXCEPT !.at = "reading", !.found = candidate]
      BY <1>0, <2>1
    <2>5. new.at \in { "hash", "reading" } /\ new.todo \subseteq now.todo
      BY <1>0, <2>1, <2>4
    <2>6. \A other \in now.todo : other.path \in File
      BY <1>0 DEF RunTyped, Candidate
    <2>7. RunHolds(runs[run])'
      <3>1. runs'[run] = new
        BY <1>0, <2>4
      <3> QED
        BY <1>0, <1>1, <2>3, <2>5, <2>6, <3>1 DEF RunHolds
    <2>8. RunsHold'
      BY <2>4, <2>7, OnlyRunHolds
    <2> QED
      BY <1>2, <1>7, <2>3, <2>8 DEF Truth, HashNext, SaveGroups
  <1>8. CASE ReadFile(run)
    <2> DEFINE candidate == now.found
               content == disk[candidate.path].content
               sums == IF now.stage = "full" THEN Sums(NoSum, content)
                       ELSE PartialSums(candidate.facts, HeadOf[content])
               new == [now EXCEPT !.at = "hash", !.found = { }, !.todo = now.todo \ { candidate }]
    <2>1. now.at = "reading" /\ candidate \in now.todo
      BY <1>0, <1>8 DEF ReadFile, RunTyped
    <2>2. /\ candidate \in Candidate
          /\ TrueSums(candidate, disk[candidate.path])
          /\ files[candidate.path].seq # 0 => files[candidate.path].facts = candidate.facts
      BY <1>0, <2>1 DEF RunTyped, RunHolds
    <2>3. RightSums(sums, candidate, disk[candidate.path])
      <3>1. ASSUME candidate.facts = disk[candidate.path]
            PROVE  /\ sums.partial \in { NoSum, HeadOf[content] }
                   /\ sums.full \in { NoSum, content }
        <4>1. candidate.facts \in RealFacts /\ content = candidate.facts.content
          BY <2>2, <3>1 DEF Candidate
        <4>2. /\ PartialSums(candidate.facts, HeadOf[content]).partial
                    \in { NoSum, HeadOf[content] }
              /\ PartialSums(candidate.facts, HeadOf[content]).full \in { NoSum, content }
          BY <4>1, PartialSumsRight
        <4> QED
          BY <4>2 DEF Sums
      <3> QED
        BY <3>1 DEF RightSums
    <2>4. files' = RecordChecksums(files, candidate.path, sums.partial, sums.full)
      BY <1>8 DEF ReadFile, Record
    <2>5. /\ RowsHold'
          /\ \A file \in File : /\ files'[file].seq = files[file].seq
                                /\ files'[file].facts = files[file].facts
      <3> HIDE DEF sums
      <3> QED
        BY <1>1, <2>2, <2>3, <2>4, RecordKeepsTruth
    <2>6. runs' = [o \in RunId |-> IF o = run THEN new ELSE runs[o]]
      BY <1>0, <1>8 DEF ReadFile
    <2>7. new.at = "hash" /\ new.todo \subseteq now.todo
      BY <1>0
    <2>8. \A other \in now.todo : other.path \in File
      BY <1>0 DEF RunTyped, Candidate
    <2> HIDE DEF new
    <2>9. RunHolds(runs[run])'
      <3>1. runs'[run] = new
        BY <1>0, <2>6
      <3> QED
        BY <1>0, <1>1, <2>5, <2>7, <2>8, <3>1 DEF RunHolds
    <2>10. RunsHold'
      BY <2>6, <2>9, OnlyRunHolds
    <2> QED
      BY <1>2, <1>8, <2>5, <2>10 DEF Truth, ReadFile, SaveGroups
  <1>9. CASE SaveGroups(run)
    <2>1. files' = files
      BY <1>9 DEF SaveGroups, tables
    <2>2. GroupsHold'
      BY <1>1, <1>9, SavedAreTrue
    <2>3. runs' = [o \in RunId |-> IF o = run THEN NoRun ELSE runs[o]]
      BY <1>0, <1>9 DEF SaveGroups, Finish
    <2>4. Live' = { }
      BY <2>3 DEF OneSlot, Live, NoRun
    <2> QED
      BY <1>1, <2>1, <2>2, <2>4 DEF Truth, RowsHold, RunsHold
  <1>10. ~SaveGroups(run) \/ SaveGroups(run)
    OBVIOUS
  <1> QED
    BY <1>3, <1>4, <1>5, <1>6, <1>7, <1>8, <1>9

\* Nothing is known at first.
LEMMA InitTruth == Init => Truth
  <1> SUFFICES ASSUME Init PROVE Truth
    OBVIOUS
  <1>1. Typed
    BY InitTyped
  <1>2. Live = { }
    BY DEF Init, Live, NoRun
  <1> QED
    BY <1>1, <1>2 DEF Init, Truth, RowsHold, NoFile, RunsHold, GroupsHold

\* Runs that keep what they hold of the disk, and those that begin.
LEMMA SameRunsCalm ==
    ASSUME Truth,
           \A run \in Live' :
              \/ runs'[run].todo = { } /\ runs'[run].at # "listed"
              \/ /\ run \in Live
                 /\ runs'[run].at = runs[run].at /\ runs'[run].found = runs[run].found
                 /\ runs'[run].todo = runs[run].todo
    PROVE  \A run \in Live' : Calm(run)
  BY DEF Truth, RunsHold, RunHolds, Calm

\* The requests learn nothing.
LEMMA RequestKeepsTruth ==
    ASSUME Truth, Typed',
           \/ RequestStop
           \/ \E root \in ScanRoots, includeFolders \in FolderModes :
                 RequestScan(root, includeFolders)
           \/ \E index \in DOMAIN starts : Inspected(index)
           \/ \E scope \in Refreshable : RequestRefresh(scope)
           \/ \E path \in Deletable : RequestDelete(path)
           \/ UNCHANGED vars
    PROVE  Truth'
  <1>1. UNCHANGED << disk, files, results, basis >>
    BY DEF RequestStop, RequestScan, Inspected, RequestRefresh, RequestDelete, diskVars,
           tables, historyVars, vars
  <1>2. \A file \in File : Later(disk[file], disk'[file]) /\ RowStays(file)
    BY <1>1 DEF Later, RowStays
  <1>3. RunsTyped
    BY DEF Truth, Typed
  <1>4. ASSUME NEW run \in Live'
        PROVE  \/ runs'[run].todo = { } /\ runs'[run].at # "listed"
               \/ /\ run \in Live
                  /\ runs'[run].at = runs[run].at /\ runs'[run].found = runs[run].found
                  /\ runs'[run].todo = runs[run].todo
    <2>0. run \in RunId
      BY DEF Live
    <2>1. CASE runs' = runs
      BY <2>1 DEF Live
    <2>2. CASE RequestStop
      <3>1. runs' = [runs EXCEPT ![controller].aborted = TRUE] /\ controller \in Live
        BY <1>3, <2>2 DEF RequestStop, RunsTyped
      <3>2. RunTyped(runs[controller]) /\ controller \in RunId
        BY <1>3, <3>1 DEF RunsTyped, Live
      <3>3. \/ run # controller /\ runs'[run] = runs[run]
            \/ run = controller /\ runs'[run] = [runs[controller] EXCEPT !.aborted = TRUE]
        BY <1>3, <2>0, <3>1 DEF RunsTyped
      <3> QED
        BY <3>1, <3>2, <3>3 DEF RunTyped, Live
    <2>3. ASSUME NEW kind, NEW scope, NEW seq, NEW includeFolders, NEW before,
                 Begin(kind, scope, seq, includeFolders, before)
          PROVE  \/ runs'[run].todo = { } /\ runs'[run].at # "listed"
                 \/ runs'[run] = runs[run]
      <3>1. PICK new \in RunId : \E begun :
              /\ runs' = [runs EXCEPT ![new] = begun]
              /\ begun.todo = { } /\ begun.at # "listed"
        <4>1. PICK new \in RunId \ Live :
              runs' = [runs EXCEPT ![new] =
                 [at |-> IF scope \in before THEN "listing" ELSE "list",
                  path |-> IF scope \in before THEN ParentPath(scope) ELSE scope,
                  kind |-> kind, scope |-> scope, seq |-> seq,
                  folders |-> includeFolders, ignored |-> ignored,
                  aborted |-> FALSE, cut |-> FALSE, stack |-> << scope >>,
                  found |-> { }, before |-> before, seen |-> { },
                  stage |-> "partial", todo |-> { }, missed |-> { }]]
          BY <2>3 DEF Begin
        <4> DEFINE fresh ==
                 [at |-> IF scope \in before THEN "listing" ELSE "list",
                  path |-> IF scope \in before THEN ParentPath(scope) ELSE scope,
                  kind |-> kind, scope |-> scope, seq |-> seq,
                  folders |-> includeFolders, ignored |-> ignored,
                  aborted |-> FALSE, cut |-> FALSE, stack |-> << scope >>,
                  found |-> { }, before |-> before, seen |-> { },
                  stage |-> "partial", todo |-> { }, missed |-> { }]
        <4>2. runs' = [runs EXCEPT ![new] = fresh]
          BY <4>1
        <4>3. fresh.todo = { } /\ fresh.at # "listed"
          OBVIOUS
        <4> HIDE DEF fresh
        <4> QED
          BY <4>2, <4>3
      <3>2. PICK begun :
              /\ runs' = [runs EXCEPT ![new] = begun]
              /\ begun.todo = { } /\ begun.at # "listed"
        BY <3>1
      <3> QED
        BY <1>3, <2>0, <3>2 DEF RunsTyped
    <2>4. \/ runs' = runs
          \/ RequestStop
          \/ \E kind, scope, seq, includeFolders, before :
                Begin(kind, scope, seq, includeFolders, before)
      BY DEF RequestScan, Inspected, RequestRefresh, RequestDelete, vars
    <2> QED
      BY <2>1, <2>2, <2>3, <2>4 DEF Live
  <1>5. \A run \in Live' : Calm(run)
    BY <1>4, SameRunsCalm
  <1> QED
    BY <1>1, <1>2, <1>5, CalmKeepsTruth

\* What changes on disk is later.
LEMMA DiskGrowsLater ==
    ASSUME DiskTyped,
           \/ \E deletion : Described(deletion) \/ MoveToTrash(deletion) \/ RemoveDeleted(deletion)
           \/ \E edit \in Edits : Edit(edit[1], edit[2])
           \/ \E path \in Removable : RemoveDir(path)
           \/ disk' = disk
    PROVE  \A file \in File : Later(disk[file], disk'[file])
  <1> SUFFICES ASSUME NEW file \in File PROVE Later(disk[file], disk'[file])
    OBVIOUS
  <1>0. /\ disk = [f \in File |-> disk[f]]
        /\ disk[file] = [content |-> disk[file].content, mtime |-> disk[file].mtime]
        /\ disk[file].mtime \in Nat
    BY DEF DiskTyped, Facts
  <1>1. CASE disk' = disk
    BY <1>1 DEF Later
  <1>2. ASSUME NEW deletion, MoveToTrash(deletion), disk' # disk
        PROVE  Later(disk[file], disk'[file])
    <2>1. disk'[file] = disk[file] \/ disk'[file] = [disk[file] EXCEPT !.content = NoSum]
      BY <1>2 DEF MoveToTrash, diskVars
    <2>2. [disk[file] EXCEPT !.content = NoSum] = [content |-> NoSum, mtime |-> disk[file].mtime]
      BY <1>0
    <2> QED
      BY <2>1, <2>2 DEF Later
  <1>3. ASSUME NEW edit \in Edits, Edit(edit[1], edit[2])
        PROVE  Later(disk[file], disk'[file])
    <2>1. \/ disk'[file] = disk[file]
          \/ disk'[file] = [content |-> edit[2], mtime |-> disk[file].mtime + 1]
      BY <1>0, <1>3 DEF Edit
    <2>2. disk[file].mtime + 1 > disk[file].mtime
      BY <1>0
    <2> QED
      BY <2>1, <2>2 DEF Later
  <1>4. ASSUME NEW path \in Removable, RemoveDir(path)
        PROVE  Later(disk[file], disk'[file])
    <2>1. \/ disk'[file] = disk[file]
          \/ disk'[file] = [content |-> NoSum, mtime |-> disk[file].mtime + 1]
      BY <1>4 DEF RemoveDir
    <2>2. disk[file].mtime + 1 > disk[file].mtime
      BY <1>0
    <2> QED
      BY <2>1, <2>2 DEF Later
  <1> QED
    BY <1>1, <1>2, <1>3, <1>4 DEF Described, RemoveDeleted, diskVars

\* What others do to the disk, the tables and the results teaches a run nothing.
LEMMA OutsideKeepsTruth ==
    ASSUME Truth, Typed',
           \/ \E deletion \in deletions :
                 Described(deletion) \/ MoveToTrash(deletion) \/ RemoveDeleted(deletion)
           \/ \E path \in Ignorable : SetIgnored(path) \/ ClearIgnored(path)
           \/ \E edit \in Edits : Edit(edit[1], edit[2])
           \/ \E path \in Removable : RemoveDir(path)
           \/ Restart
    PROVE  Truth'
  <1>0. RunsTyped /\ DiskTyped /\ ResultsTyped
    BY DEF Truth, Typed
  <1>1. \A file \in File : Later(disk[file], disk'[file])
    <2>1. CASE disk' = disk
      BY <1>0, <2>1, DiskGrowsLater
    <2>2. CASE disk' # disk
      BY <1>0, <2>2, DiskGrowsLater DEF SetIgnored, ClearIgnored, Restart, diskVars
    <2> QED
      BY <2>1, <2>2
  <1>2. \A file \in File : RowStays(file)
    <2>1. CASE files' = files
      BY <2>1 DEF RowStays
    <2>2. ASSUME NEW deletion, RemoveDeleted(deletion)
          PROVE  \A file \in File : RowStays(file)
      <3>1. files \in [File -> FileRow]
        BY DEF Truth, Typed, TablesTyped
      <3>2. \A file \in File : files'[file] = NoFile \/ files'[file] = files[file]
        BY <2>2, <3>1 DEF RemoveDeleted
      <3> QED
        BY <3>2 DEF RowStays, NoFile
    <2> QED
      BY <2>1, <2>2 DEF Described, MoveToTrash, SetIgnored, ClearIgnored, Edit, RemoveDir,
         Restart, tables
  <1>3. \A run \in Live' : Calm(run)
    <2>1. CASE runs' = runs
      BY <2>1, SameRunsCalm DEF Live
    <2>2. ASSUME NEW changed, Touch(changed)
          PROVE  \A run \in Live' : Calm(run)
      <3>1. ASSUME NEW run \in Live'
            PROVE  /\ run \in Live
                   /\ runs'[run].at = runs[run].at /\ runs'[run].found = runs[run].found
                   /\ runs'[run].todo = runs[run].todo
        <4>1. run \in RunId /\ runs'[run].at # "off"
          BY DEF Live
        <4>2. runs'[run] = IF run \in Live
                           THEN [runs[run] EXCEPT !.missed = runs[run].missed \cup changed]
                           ELSE runs[run]
          BY <2>2, <4>1 DEF Touch
        <4>3. run \in Live
          BY <4>1, <4>2 DEF Live
        <4>4. { "at", "seq", "found", "todo" } \subseteq DOMAIN runs[run]
          BY <1>0, <4>3 DEF RunsTyped, RunTyped
        <4> QED
          BY <4>2, <4>3, <4>4
      <3> QED
        BY <3>1, SameRunsCalm
    <2>3. CASE Restart
      <3>1. Live' = { }
        BY <2>3 DEF Restart, Live, NoRun
      <3> QED
        BY <3>1
    <2> QED
      BY <2>1, <2>2, <2>3 DEF Described, MoveToTrash, RemoveDeleted, SetIgnored, ClearIgnored,
         Edit, RemoveDir
  <1>4. results'.groups = results.groups \/ Thins(results'.groups, results.groups)
    <2>1. /\ \A group \in results.groups : IsGroup(group)
          /\ results = [seq |-> results.seq, groups |-> results.groups]
      BY <1>0 DEF ResultsTyped, GroupTyped
    <2>2. \/ results' = results
          \/ \E path : results' = [results EXCEPT !.groups = PruneUnder(@, path)]
          \/ \E path : results' = [results EXCEPT !.groups = RemoveOccurrence(@, path)]
          \/ \E S : results' = [results EXCEPT !.groups = WithoutIgnored(@, S)]
      BY DEF Described, MoveToTrash, RemoveDeleted, SetIgnored, ClearIgnored, Edit, RemoveDir,
             Restart
    <2>3. \/ results' = results
          \/ \E path : results'.groups = PruneUnder(results.groups, path)
          \/ \E path : results'.groups = RemoveOccurrence(results.groups, path)
          \/ \E S : results'.groups = WithoutIgnored(results.groups, S)
      BY <2>1, <2>2
    <2> QED
      BY <2>1, <2>3, ThinnedStay
  <1>5. basis' = basis
    BY DEF Described, MoveToTrash, RemoveDeleted, SetIgnored, ClearIgnored, Edit, RemoveDir,
           Restart, historyVars
  <1> QED
    BY <1>1, <1>2, <1>3, <1>4, <1>5, CalmKeepsTruth

\* Every step keeps what is known true, as long as one run hashes at a time.
LEMMA NextKeepsTruth ==
    ASSUME Truth, OneSlot, [Next]_vars
    PROVE  Truth'
  <1>1. Typed'
    BY NextTyped DEF Truth
  <1>2. CASE RunStep
    <2>1. PICK run \in RunId : RunStepOf(run)
      BY <1>2 DEF RunStep, RunStepOf
    <2>2. run \in Live
      BY <2>1, RunStepIsOfLive DEF Truth, Typed
    <2> QED
      BY <1>1, <2>1, <2>2, CalmStepKeepsTruth, LearningStepKeepsTruth DEF RunStepOf
  <1> QED
    BY <1>1, <1>2, RequestKeepsTruth, OutsideKeepsTruth DEF Next

\* Two files of a group, untouched since the results were built, hold the same
\* content, whatever was reused from an earlier scan or from the comparison's
\* cache, and whatever other programs wrote meanwhile; as long as no request
\* is made while another is being checked.
THEOREM GroupsTrue ==
    ASSUME Overlap = FALSE
    PROVE  Spec => []GroupsAreTrue
  <1>1. Truth /\ IInv /\ [Next]_vars => Truth'
    BY NextKeepsTruth DEF IInv
  <1>2. Truth => GroupsAreTrue
    BY DEF Truth, GroupsHold, GroupHolds, GroupsAreTrue
  <1> QED
    BY InitTruth, <1>1, <1>2, Inductive, PTL DEF Spec

-----------------------------------------------------------------------------
(* Paths *)

\* A directory above a file is, or contains, or leads through a directory to it.
LEMMA PathFacts ==
    ASSUME NEW place \in Place
    PROVE  /\ place \in Lineage(place)
           /\ ParentPath(place) \in Lineage(place)
           /\ \A above \in Lineage(place) :
                 /\ above \in Seq(STRING)
                 /\ Lineage(above) \subseteq Lineage(place)
                 /\ above # place =>
                       \E child \in Lineage(place) :
                          child \in Dir \cup { place } /\ ParentPath(child) = above
  <1>0. place \in Seq(STRING) /\ place # << >> /\ Len(place) \in Nat /\ Len(place) > 0
    BY ContentAssumption, LenProperties, EmptySeq DEF Root
  <1>1. ASSUME NEW k \in 0..Len(place), NEW j \in 0..k
        PROVE  /\ SubSeq(place, 1, k) \in Seq(STRING)
               /\ Len(SubSeq(place, 1, k)) = k
               /\ SubSeq(SubSeq(place, 1, k), 1, j) = SubSeq(place, 1, j)
    BY <1>0
  <1>2. SubSeq(place, 1, Len(place)) = place
    BY <1>0
  <1>3. place \in Lineage(place) /\ ParentPath(place) \in Lineage(place)
    <2>1. Len(place) \in 0..Len(place) /\ Len(place) - 1 \in 0..Len(place)
      BY <1>0
    <2> QED
      BY <1>2, <2>1 DEF Lineage, ParentPath
  <1>4. ASSUME NEW above \in Lineage(place)
        PROVE  /\ above \in Seq(STRING)
               /\ Lineage(above) \subseteq Lineage(place)
               /\ above # place =>
                     \E child \in Lineage(place) :
                        child \in Dir \cup { place } /\ ParentPath(child) = above
    <2>1. PICK k \in 0..Len(place) : above = SubSeq(place, 1, k)
      BY DEF Lineage
    <2>2. above \in Seq(STRING) /\ Len(above) = k /\ k \in 0..k
      BY <1>1, <2>1
    <2>3. Lineage(above) \subseteq Lineage(place)
      <3> SUFFICES ASSUME NEW j \in 0..k
                   PROVE  SubSeq(above, 1, j) \in Lineage(place)
        BY <2>2 DEF Lineage
      <3>1. SubSeq(above, 1, j) = SubSeq(place, 1, j) /\ j \in 0..Len(place)
        BY <1>0, <1>1, <2>1
      <3> QED
        BY <3>1 DEF Lineage
    <2>4. ASSUME above # place
          PROVE  \E child \in Lineage(place) :
                    child \in Dir \cup { place } /\ ParentPath(child) = above
      <3>a. k # Len(place)
        BY <1>2, <2>1, <2>4
      <3>b. Len(place) \in Nat
        BY <1>0
      <3>1. k + 1 \in 0..Len(place) /\ k \in 0..(k + 1)
        <4> HIDE DEF Lineage
        <4> DEFINE n == Len(place)
        <4>1. n \in Nat /\ k \in 0..n /\ k # n
          BY <3>a, <3>b
        <4> HIDE DEF n
        <4>2. k + 1 \in 0..n /\ k \in 0..(k + 1)
          BY <4>1
        <4> QED
          BY <4>2 DEF n
      <3> DEFINE next == k + 1
                 child == SubSeq(place, 1, next)
      <3>2. child \in Lineage(place)
        BY <3>1 DEF Lineage
      <3>3. Len(child) = next /\ SubSeq(child, 1, k) = above /\ next - 1 = k
        <4> HIDE DEF child
        <4>1. next \in 0..Len(place) /\ k \in 0..next
          BY <3>1
        <4> HIDE DEF next
        <4>2. Len(child) = next /\ SubSeq(child, 1, k) = SubSeq(place, 1, k)
          BY <1>1, <4>1 DEF child
        <4> QED
          BY <2>1, <2>2, <4>2 DEF next
      <3>4. ParentPath(child) = above
        BY <3>3 DEF ParentPath
      <3>5. child # Root
        <4> HIDE DEF child
        <4>1. k \in Nat /\ next # 0
          BY <3>b
        <4> HIDE DEF next
        <4> QED
          BY <3>3, <4>1, EmptySeq DEF Root
      <3> HIDE DEF child
      <3> QED
        BY <3>2, <3>4, <3>5, TreeAssumption
    <2> QED
      BY <2>2, <2>3, <2>4
  <1> QED
    BY <1>3, <1>4

\* Nothing is beneath a file.
LEMMA FilesAreLeaves ==
    ASSUME NEW place \in Place, NEW file \in Lineage(place), file \in File
    PROVE  file = place
  BY ContentAssumption, TreeAssumption DEF Place

-----------------------------------------------------------------------------
(* What a run covers *)

(* `now` is the run's record, `table` the rows, `facts` the disk. *)

RunFields ==
    { "at", "path", "kind", "scope", "seq", "folders", "ignored", "aborted", "cut",
      "stack", "found", "before", "seen", "stage", "todo", "missed" }

WalkStates == { "list", "listing", "listed" }

WorkStates == { "forget", "query", "hash", "reading", "clear", "save" }

\* A file the run has to answer for.
Clear(now, facts, file) ==
    /\ facts[file].content # NoSum
    /\ file \notin now.missed
    /\ ~IsIgnored(file, now.ignored)

\* Its row is that of the scan, readable and up to date.
Right(now, table, facts, file) ==
    /\ table[file].seq = now.seq
    /\ ~table[file].failed
    /\ table[file].facts = facts[file]

\* Its listing is to come.
Ahead(now, file) ==
    \/ \E i \in DOMAIN now.stack : IsWithinSubtree(file, now.stack[i])
    \/ now.at = "listing" /\ IsWithinSubtree(file, now.path)
    \/ /\ now.at = "listed"
       /\ \/ \E entry \in now.found.files : entry.path = file
          \/ \E dir \in now.found.dirs : IsWithinSubtree(file, dir)

\* How a run's record may look, by where it is.
Shape(now) ==
    /\ DOMAIN now = RunFields
    /\ now.kind \in { "scan", "refresh" } /\ now.stage \in { "partial", "full" }
    /\ now.at \in WalkStates \cup WorkStates
    /\ now.scope \in Place
    /\ now.before \subseteq Under(now.scope)
    /\ now.kind = "scan" => now.before = { }
    /\ now.stack \in Seq(Place)
    /\ now.at \in WalkStates =>
          IF now.scope \in now.before
          THEN /\ now.at # "list"
               /\ now.at = "listing" => now.path = ParentPath(now.scope)
          ELSE now.at # "list" => now.path \in Place
    /\ now.at \in WalkStates \cup { "forget" } => now.stage = "partial"
    /\ now.at = "forget" => now.kind = "refresh"
    /\ now.todo # { } => now.at \in { "hash", "reading" }

\* While it lists: every file is listed, or its listing is to come.
Walks(now, table, facts) ==
    now.at \in WalkStates =>
        \A file \in Under(now.scope) :
            Clear(now, facts, file) =>
                IF now.scope \in now.before
                THEN now.at = "listed" => \E entry \in now.found.files : entry.path = file
                ELSE \/ Ahead(now, file)
                     \/ /\ Right(now, table, facts, file)
                        /\ now.kind = "refresh" => file \in now.seen

\* What it has found is still so, of files nobody touched.
Finds(now, facts) ==
    now.at = "listed" =>
        /\ now.found.files \subseteq Entry
        /\ now.found.dirs \subseteq Dir
        /\ \A entry \in now.found.files :
              entry.path \notin now.missed => entry.facts = facts[entry.path]

\* Afterwards: every file of the scope is listed.
Listed(now, table, facts) ==
    (now.at \in WorkStates /\ ~now.cut) =>
        \A file \in Under(now.scope) :
            Clear(now, facts, file) =>
                /\ Right(now, table, facts, file)
                /\ now.at = "forget" => file \in now.seen

\* The candidates are as they were read, until they are recorded.
Fresh(now, table) ==
    \A candidate \in now.todo :
        /\ table[candidate.path].seq # 0 /\ ~table[candidate.path].failed
        /\ table[candidate.path].facts = candidate.facts
        /\ candidate.full # NoSum => table[candidate.path].full # NoSum
        /\ now.stage = "full" => table[candidate.path].partial # NoSum
        /\ \A other \in now.todo : other.path = candidate.path => other = candidate

\* The copies the run must report.
Ok(now, table, facts, file) == Clear(now, facts, file) /\ Right(now, table, facts, file)

Paired(now, table, facts, file) ==
    /\ Ok(now, table, facts, file)
    /\ \E other \in File \ { file } :
          Ok(now, table, facts, other) /\ facts[other].content = facts[file].content

\* What is recorded of a file at the end of a stage.
Settles(stage, row) ==
    IF stage = "partial"
    THEN row.partial # NoSum /\ (IsSmall(row.facts) => row.full # NoSum)
    ELSE row.full # NoSum

Awaits(now, file) == \E candidate \in now.todo : candidate.path = file

\* They are hashed, stage by stage.
Hashes(now, table, facts) ==
    \A file \in File :
        Paired(now, table, facts, file) =>
            /\ now.at \in { "hash", "reading" } =>
                  Awaits(now, file) \/ Settles(now.stage, table[file])
            /\ (now.at = "query" /\ now.stage = "full") => Settles("partial", table[file])
            /\ (now.at \in { "clear", "save" } /\ ~now.cut) => table[file].full # NoSum

Sweeps(now, table, facts) ==
    /\ Shape(now) /\ Walks(now, table, facts) /\ Finds(now, facts)
    /\ Listed(now, table, facts) /\ Fresh(now, table) /\ Hashes(now, table, facts)

\* No full checksum without a partial one.
HeadsFirst(table) == \A file \in File : table[file].full # NoSum => table[file].partial # NoSum

-----------------------------------------------------------------------------
(* Steps of others *)

\* The run still covers what nobody touched.
LEMMA SweepStays ==
    ASSUME NEW now, NEW new, NEW table, NEW facts, NEW after,
           Sweeps(now, table, facts), now.todo \subseteq Candidate,
           DOMAIN new = RunFields,
           \A field \in RunFields \ { "aborted", "missed" } : new[field] = now[field],
           now.missed \subseteq new.missed,
           \A file \in File \ new.missed : after[file] = facts[file]
    PROVE  Sweeps(new, table, after)
  <1>1. /\ new.at = now.at /\ new.path = now.path /\ new.kind = now.kind
        /\ new.scope = now.scope /\ new.seq = now.seq /\ new.ignored = now.ignored
        /\ new.cut = now.cut /\ new.stack = now.stack /\ new.found = now.found
        /\ new.before = now.before /\ new.seen = now.seen /\ new.stage = now.stage
        /\ new.todo = now.todo
    BY DEF RunFields
  <1>2. \A file \in File : Clear(new, after, file) =>
           Clear(now, facts, file) /\ after[file] = facts[file]
    BY <1>1 DEF Clear
  <1>3. \A file \in File : Ahead(now, file) => Ahead(new, file)
    BY <1>1 DEF Ahead
  <1>4. \A file \in File : Clear(new, after, file) =>
           (Right(now, table, facts, file) <=> Right(new, table, after, file))
    BY <1>1, <1>2 DEF Right
  <1>5. Shape(new)
    BY <1>1 DEF Sweeps, Shape
  <1>6. Walks(new, table, after)
    BY <1>1, <1>2, <1>3, <1>4 DEF Sweeps, Walks, Under
  <1>7. Finds(new, after)
    BY <1>1 DEF Sweeps, Finds, Entry
  <1>8. Listed(new, table, after)
    BY <1>1, <1>2, <1>4 DEF Sweeps, Listed, Under
  <1>9. Fresh(new, table)
    BY <1>1 DEF Sweeps, Fresh
  <1>10. \A file \in File : Paired(new, table, after, file) => Paired(now, table, facts, file)
    BY <1>2, <1>4 DEF Paired, Ok
  <1>11. Hashes(new, table, after)
    BY <1>1, <1>10 DEF Sweeps, Hashes, Awaits
  <1> QED
    BY <1>5, <1>6, <1>7, <1>8, <1>9, <1>11 DEF Sweeps

-----------------------------------------------------------------------------
(* The walk *)

Same(new, now, changed) ==
    /\ DOMAIN new = RunFields
    /\ \A field \in RunFields \ changed : new[field] = now[field]

\* A run cut short has nothing to answer for.
LEMMA SweepCut ==
    ASSUME NEW now, NEW new, NEW table, NEW facts,
           Sweeps(now, table, facts),
           Same(new, now, { "at", "cut", "found", "todo" }),
           new.at = "clear", new.cut = TRUE, new.todo = { }
    PROVE  Sweeps(new, table, facts)
  <1>1. /\ new.kind = now.kind /\ new.stage = now.stage /\ new.scope = now.scope
        /\ new.before = now.before /\ new.stack = now.stack
    BY DEF Same, RunFields
  <1>2. Shape(new)
    BY <1>1 DEF Same, Sweeps, Shape, WalkStates, WorkStates
  <1> QED
    BY <1>2 DEF Sweeps, Walks, Finds, Listed, Fresh, Hashes, WalkStates

\* The next directory is taken from the stack.
LEMMA WalkPops ==
    ASSUME NEW now, NEW new, NEW table, NEW facts,
           Sweeps(now, table, facts), now.at = "list", now.stack # << >>,
           Same(new, now, { "at", "path", "stack" }),
           new.at = "listing", new.path = now.stack[Len(now.stack)],
           new.stack = SubSeq(now.stack, 1, Len(now.stack) - 1)
    PROVE  Sweeps(new, table, facts)
  <1>1. /\ new.kind = now.kind /\ new.stage = now.stage /\ new.scope = now.scope
        /\ new.before = now.before /\ new.todo = now.todo /\ new.missed = now.missed
        /\ new.ignored = now.ignored /\ new.seq = now.seq /\ new.seen = now.seen
    BY DEF Same, RunFields
  <1>2. /\ Shape(now) /\ now.scope \notin now.before /\ now.todo = { }
        /\ now.stack \in Seq(Place)
    BY DEF Sweeps, Shape, WalkStates
  <1>3. /\ Len(now.stack) \in Nat /\ Len(now.stack) > 0
        /\ DOMAIN now.stack = 1..Len(now.stack)
    BY <1>2, LenProperties, EmptySeq
  <1>4. /\ new.path \in Place /\ new.stack \in Seq(Place)
        /\ DOMAIN new.stack = 1..(Len(now.stack) - 1)
        /\ \A i \in 1..(Len(now.stack) - 1) : new.stack[i] = now.stack[i]
    BY <1>2, <1>3
  <1>5. Shape(new)
    BY <1>1, <1>2, <1>4 DEF Same, Shape, WalkStates, WorkStates
  <1>6. ASSUME NEW file, Ahead(now, file)
        PROVE  Ahead(new, file)
    <2>1. PICK i \in DOMAIN now.stack : IsWithinSubtree(file, now.stack[i])
      BY <1>6 DEF Ahead
    <2>2. i = Len(now.stack) \/ i \in 1..(Len(now.stack) - 1)
      BY <1>3
    <2> QED
      BY <1>4, <2>1, <2>2 DEF Ahead
  <1>7. Walks(new, table, facts)
    BY <1>1, <1>2, <1>6 DEF Sweeps, Walks, WalkStates, Clear, Right
  <1> QED
    BY <1>1, <1>2, <1>5, <1>7 DEF Sweeps, Finds, Listed, Fresh, Hashes, WorkStates

\* Nothing is left on it: everything has been listed.
LEMMA WalkEnds ==
    ASSUME NEW now, NEW new, NEW table, NEW facts,
           Sweeps(now, table, facts), now.at = "list", now.stack = << >>,
           Same(new, now, { "at" }),
           new.at = IF now.kind = "scan" THEN "query" ELSE "forget"
    PROVE  Sweeps(new, table, facts)
  <1>1. /\ new.kind = now.kind /\ new.stage = now.stage /\ new.scope = now.scope
        /\ new.before = now.before /\ new.todo = now.todo /\ new.missed = now.missed
        /\ new.ignored = now.ignored /\ new.seq = now.seq /\ new.seen = now.seen
        /\ new.stack = now.stack
    BY DEF Same, RunFields
  <1>2. /\ Shape(now) /\ now.scope \notin now.before /\ now.todo = { }
        /\ now.stage = "partial"
    BY DEF Sweeps, Shape, WalkStates
  <1>3. Shape(new)
    BY <1>1, <1>2 DEF Same, Shape, WalkStates, WorkStates
  <1>4. \A file : ~Ahead(now, file)
    BY EmptySeq DEF Ahead
  <1>5. ASSUME NEW file \in Under(new.scope), Clear(new, facts, file)
        PROVE  Right(new, table, facts, file) /\ (new.at = "forget" => file \in new.seen)
    <2>1. Right(now, table, facts, file) /\ (now.kind = "refresh" => file \in now.seen)
      BY <1>1, <1>2, <1>4, <1>5 DEF Sweeps, Walks, WalkStates, Clear
    <2> QED
      BY <1>1, <1>2, <2>1 DEF Right, Shape
  <1>6. Listed(new, table, facts)
    BY <1>5 DEF Listed
  <1> QED
    BY <1>1, <1>2, <1>3, <1>6 DEF Sweeps, Walks, Finds, Fresh, Hashes, WalkStates

\* A directory that cannot be listed hides what is beneath it.
LEMMA LookMisses ==
    ASSUME NEW now, NEW new, NEW table, NEW facts,
           Sweeps(now, table, facts), now.at = "listing",
           Same(new, now, { "at", "found", "missed" }),
           new.at = "listed", new.found.files = { }, new.found.dirs = { },
           new.missed = now.missed \cup Under(now.path) \cup { now.path }
    PROVE  Sweeps(new, table, facts)
  <1>1. /\ new.kind = now.kind /\ new.stage = now.stage /\ new.scope = now.scope
        /\ new.before = now.before /\ new.todo = now.todo /\ new.path = now.path
        /\ new.ignored = now.ignored /\ new.seq = now.seq /\ new.seen = now.seen
        /\ new.stack = now.stack
    BY DEF Same, RunFields
  <1>2. Shape(now) /\ now.todo = { }
    BY DEF Sweeps, Shape
  <1>3. Shape(new)
    BY <1>1, <1>2 DEF Same, Shape, WalkStates, WorkStates
  <1>4. ASSUME NEW file \in File, Clear(new, facts, file)
        PROVE  Clear(now, facts, file) /\ ~IsWithinSubtree(file, now.path)
    BY <1>1, <1>4 DEF Clear, Under
  <1>5. ASSUME NEW file \in File, now.scope \in now.before, IsWithinSubtree(file, now.scope)
        PROVE  IsWithinSubtree(file, now.path)
    <2>1. now.path = ParentPath(now.scope) /\ now.scope \in File
      BY <1>2, <1>5 DEF Shape, WalkStates, Under
    <2>2. now.scope = file
      BY <1>5, <2>1, FilesAreLeaves DEF IsWithinSubtree, Place
    <2> QED
      BY <2>1, <2>2, PathFacts DEF IsWithinSubtree, Place
  <1>6. \A file \in File : Ahead(now, file) /\ ~IsWithinSubtree(file, now.path) => Ahead(new, file)
    BY <1>1 DEF Ahead
  <1>7. Walks(new, table, facts)
    BY <1>1, <1>4, <1>5, <1>6 DEF Sweeps, Walks, WalkStates, Right, Under
  <1> QED
    BY <1>1, <1>2, <1>3, <1>7 DEF Sweeps, Finds, Listed, Fresh, Hashes, WorkStates

\* A directory that is listed names what it contains, but for what could not
\* be examined.
LEMMA LookFinds ==
    ASSUME NEW now, NEW new, NEW table, NEW facts \in [File -> Facts], NEW there \in SUBSET Dir,
           \A file \in File : facts[file].content # NoSum => Lineage(file) \cap Dir \subseteq there,
           Sweeps(now, table, facts), now.at = "listing", now.path \in there,
           NEW kids,
           kids = { [path |-> file, facts |-> facts[file]] :
                      file \in { f \in File : /\ ParentPath(f) = now.path
                                              /\ facts[f].content # NoSum } },
           NEW bad \in SUBSET kids,
           Same(new, now, { "at", "found", "missed" }),
           new.at = "listed", new.found.files = kids \ bad,
           new.found.dirs = { dir \in there : ParentPath(dir) = now.path },
           new.missed = now.missed \cup { entry.path : entry \in bad }
    PROVE  Sweeps(new, table, facts)
  <1>1. /\ new.kind = now.kind /\ new.stage = now.stage /\ new.scope = now.scope
        /\ new.before = now.before /\ new.todo = now.todo /\ new.path = now.path
        /\ new.ignored = now.ignored /\ new.seq = now.seq /\ new.seen = now.seen
        /\ new.stack = now.stack
    BY DEF Same, RunFields
  <1>2. Shape(now) /\ now.todo = { }
    BY DEF Sweeps, Shape
  <1>3. Shape(new)
    BY <1>1, <1>2 DEF Same, Shape, WalkStates, WorkStates
  <1>4. \A file \in File : Clear(new, facts, file) => Clear(now, facts, file)
    BY <1>1 DEF Clear
  <1>5. ASSUME NEW file \in File, Clear(new, facts, file), ParentPath(file) = now.path
        PROVE  \E entry \in new.found.files : entry.path = file
    <2> DEFINE entry == [path |-> file, facts |-> facts[file]]
    <2>1. entry \in kids
      BY <1>5 DEF Clear
    <2>2. entry \notin bad
      BY <1>5 DEF Clear
    <2>3. entry.path = file /\ entry \in new.found.files
      BY <2>1, <2>2
    <2> HIDE DEF entry
    <2> QED
      BY <2>3
  <1>6. ASSUME NEW file \in File, Clear(new, facts, file), IsWithinSubtree(file, now.path)
        PROVE  Ahead(new, file)
    <2>0. file \in Place /\ now.path \in Lineage(file) /\ now.path # file
      BY <1>6, ContentAssumption DEF Place, IsWithinSubtree
    <2>1. PICK child \in Lineage(file) :
             child \in Dir \cup { file } /\ ParentPath(child) = now.path
      BY <2>0, PathFacts
    <2>2. CASE child = file
      BY <1>5, <1>6, <2>1, <2>2 DEF Ahead
    <2>3. CASE child # file
      <3>1. child \in there
        BY <1>6, <2>1, <2>3 DEF Clear
      <3> QED
        BY <2>1, <3>1 DEF Ahead, IsWithinSubtree
    <2> QED
      BY <2>2, <2>3
  <1>7. ASSUME NEW file \in File, now.scope \in now.before, IsWithinSubtree(file, now.scope)
        PROVE  ParentPath(file) = now.path
    <2>1. now.path = ParentPath(now.scope) /\ now.scope \in File
      BY <1>2, <1>7 DEF Shape, WalkStates, Under
    <2>2. now.scope = file
      BY <1>7, <2>1, FilesAreLeaves DEF IsWithinSubtree, Place
    <2> QED
      BY <2>1, <2>2
  <1>8. \A file \in File : Ahead(now, file) /\ ~IsWithinSubtree(file, now.path) => Ahead(new, file)
    BY <1>1 DEF Ahead
  <1>9. ASSUME NEW file \in Under(new.scope), Clear(new, facts, file)
        PROVE  IF new.scope \in new.before
               THEN \E entry \in new.found.files : entry.path = file
               ELSE \/ Ahead(new, file)
                    \/ /\ Right(new, table, facts, file)
                       /\ new.kind = "refresh" => file \in new.seen
    <2>0. file \in File /\ IsWithinSubtree(file, now.scope)
      BY <1>1, <1>9 DEF Under
    <2>1. CASE now.scope \in now.before
      BY <1>1, <1>5, <1>7, <1>9, <2>0, <2>1
    <2>2. CASE now.scope \notin now.before
      <3>1. \/ Ahead(now, file)
            \/ /\ Right(now, table, facts, file)
               /\ now.kind = "refresh" => file \in now.seen
        BY <1>1, <1>4, <1>9, <2>0, <2>2 DEF Sweeps, Walks, WalkStates
      <3>2. CASE Ahead(now, file)
        BY <1>1, <1>6, <1>8, <1>9, <2>0, <2>2, <3>2
      <3>3. CASE ~Ahead(now, file)
        BY <1>1, <2>2, <3>1, <3>3 DEF Right
      <3> QED
        BY <3>2, <3>3
    <2> QED
      BY <2>1, <2>2
  <1>10. Walks(new, table, facts)
    BY <1>9 DEF Walks
  <1>11. Finds(new, facts)
    <2>1. ASSUME NEW entry \in new.found.files
          PROVE  entry \in Entry /\ entry.facts = facts[entry.path]
      <3>1. PICK file \in File : /\ entry = [path |-> file, facts |-> facts[file]]
                                 /\ facts[file].content # NoSum
        OBVIOUS
      <3>2. facts[file] \in RealFacts
        BY <3>1 DEF Facts, RealFacts
      <3> QED
        BY <3>1, <3>2 DEF Entry
    <2> QED
      BY <2>1 DEF Finds
  <1> QED
    BY <1>1, <1>2, <1>3, <1>10, <1>11 DEF Sweeps, Listed, Fresh, Hashes, WorkStates

\* The row of a file that a listing names is up to date, if nobody touched it;
\* the others stay as they were.
LEMMA UpsertIsRight ==
    ASSUME NEW now, NEW table, NEW facts, NEW entries, NEW file \in File,
           \A entry \in entries :
              entry.path \notin now.missed => entry.facts = facts[entry.path],
           Clear(now, facts, file)
    PROVE  LET after == UpsertFileFacts(table, entries, now.seq) IN
           /\ (\E entry \in entries : entry.path = file) => Right(now, after, facts, file)
           /\ Right(now, table, facts, file) => Right(now, after, facts, file)
  <1> DEFINE after == UpsertFileFacts(table, entries, now.seq)
  <1>1. CASE \E entry \in entries : entry.path = file
    <2> DEFINE entry == CHOOSE e \in entries : e.path = file
    <2>1. entry \in entries /\ entry.path = file
      BY <1>1
    <2>2. /\ after[file].seq = now.seq /\ after[file].failed = FALSE
          /\ after[file].facts = entry.facts
      BY <1>1 DEF UpsertFileFacts
    <2> HIDE DEF entry, after
    <2>3. entry.facts = facts[file]
      BY <2>1 DEF Clear
    <2>4. Right(now, after, facts, file)
      BY <2>2, <2>3 DEF Right
    <2> QED
      BY <2>4 DEF after
  <1>2. CASE ~ \E entry \in entries : entry.path = file
    <2>1. after[file] = table[file]
      BY <1>2 DEF UpsertFileFacts
    <2> QED
      BY <1>2, <2>1 DEF Right
  <1> QED
    BY <1>1, <1>2

\* What a listing names is written, and its subdirectories wait on the stack.
LEMMA WalkLists ==
    ASSUME NEW now, NEW new, NEW table, NEW facts,
           Sweeps(now, table, facts), now.at = "listed", now.scope \notin now.before,
           NEW entries, NEW inner, NEW order \in Orderings(inner),
           entries = { entry \in now.found.files : ~IsIgnored(entry.path, now.ignored) },
           inner = { dir \in now.found.dirs : ~IsIgnored(dir, now.ignored) },
           Same(new, now, { "at", "found", "stack", "seen" }),
           new.at = "list", new.stack = now.stack \o order,
           new.seen = IF now.kind = "scan" THEN { }
                      ELSE now.seen \cup { entry.path : entry \in entries }
    PROVE  Sweeps(new, UpsertFileFacts(table, entries, now.seq), facts)
  <1> DEFINE after == UpsertFileFacts(table, entries, now.seq)
  <1>1. /\ new.kind = now.kind /\ new.stage = now.stage /\ new.scope = now.scope
        /\ new.before = now.before /\ new.todo = now.todo /\ new.missed = now.missed
        /\ new.ignored = now.ignored /\ new.seq = now.seq
    BY DEF Same, RunFields
  <1>2. /\ Shape(now) /\ now.todo = { } /\ now.stack \in Seq(Place)
        /\ Finds(now, facts) /\ Walks(now, table, facts)
    BY DEF Sweeps, Shape
  <1>3. /\ Len(order) \in Nat /\ order \in Seq(Place) /\ DOMAIN order = 1..Len(order)
        /\ \A dir \in inner : \E i \in 1..Len(order) : order[i] = dir
    <2>1. inner \subseteq Place
      BY <1>2 DEF Finds, Place
    <2>2. IsFiniteSet(inner)
      BY <2>1, ContentAssumption, FS_Subset
    <2>3. Cardinality(inner) \in Nat
      BY <2>2, FS_CardinalityType
    <2> DEFINE n == Cardinality(inner)
    <2>4. order \in [1..n -> inner] /\ \A dir \in inner : \E i \in DOMAIN order : order[i] = dir
      BY DEF Orderings
    <2> HIDE DEF n
    <2>5. n \in Nat
      BY <2>3 DEF n
    <2> QED
      BY <2>1, <2>4, <2>5
  <1>4. /\ new.stack \in Seq(Place) /\ DOMAIN new.stack = 1..(Len(now.stack) + Len(order))
        /\ Len(now.stack) \in Nat /\ DOMAIN now.stack = 1..Len(now.stack)
        /\ \A i \in 1..Len(now.stack) : new.stack[i] = now.stack[i]
        /\ \A i \in 1..Len(order) : new.stack[Len(now.stack) + i] = order[i]
    BY <1>2, <1>3
  <1>5. Shape(new)
    BY <1>1, <1>2, <1>4 DEF Same, Shape, WalkStates, WorkStates
  <1>6. ASSUME NEW file \in File, Clear(now, facts, file), Ahead(now, file)
        PROVE  \/ Ahead(new, file)
               \/ \E entry \in entries : entry.path = file
    <2>1. CASE \E i \in DOMAIN now.stack : IsWithinSubtree(file, now.stack[i])
      <3>1. PICK i \in 1..Len(now.stack) : IsWithinSubtree(file, now.stack[i])
        BY <1>4, <2>1
      <3>2. i \in DOMAIN new.stack /\ new.stack[i] = now.stack[i]
        BY <1>3, <1>4
      <3> QED
        BY <3>1, <3>2 DEF Ahead
    <2>2. CASE \E entry \in now.found.files : entry.path = file
      BY <1>6, <2>2 DEF Clear
    <2>3. CASE \E dir \in now.found.dirs : IsWithinSubtree(file, dir)
      <3>1. PICK dir \in now.found.dirs : IsWithinSubtree(file, dir)
        BY <2>3
      <3>2. dir \in inner
        <4>1. Lineage(dir) \subseteq Lineage(file)
          BY <3>1, PathFacts DEF IsWithinSubtree, Place
        <4> QED
          BY <1>6, <4>1 DEF Clear, IsIgnored
      <3>3. PICK i \in 1..Len(order) : order[i] = dir
        BY <1>3, <3>2
      <3>4. Len(now.stack) + i \in 1..(Len(now.stack) + Len(order))
        <4> HIDE DEF after
        <4> DEFINE m == Len(now.stack)
                   n == Len(order)
        <4>1. m \in Nat /\ n \in Nat /\ i \in 1..n
          BY <1>3, <1>4
        <4> HIDE DEF m, n
        <4>2. m + i \in 1..(m + n)
          BY <4>1
        <4> QED
          BY <4>2 DEF m, n
      <3> DEFINE j == Len(now.stack) + i
      <3>5. j \in DOMAIN new.stack /\ new.stack[j] = dir
        BY <1>4, <3>3, <3>4
      <3> HIDE DEF j
      <3> QED
        BY <3>1, <3>5 DEF Ahead
    <2> QED
      BY <1>6, <2>1, <2>2, <2>3 DEF Ahead
  <1>7. ASSUME NEW file \in Under(new.scope), Clear(new, facts, file), ~Ahead(new, file)
        PROVE  Right(new, after, facts, file) /\ (new.kind = "refresh" => file \in new.seen)
    <2>0. file \in File /\ Clear(now, facts, file)
      BY <1>1, <1>7 DEF Clear, Under
    <2>1. \/ \E entry \in entries : entry.path = file
          \/ /\ Right(now, table, facts, file)
             /\ now.kind = "refresh" => file \in now.seen
      BY <1>1, <1>2, <1>6, <1>7, <2>0 DEF Walks, WalkStates
    <2>2. \A entry \in entries :
              entry.path \notin now.missed => entry.facts = facts[entry.path]
      BY <1>2 DEF Finds
    <2>3. Right(now, after, facts, file)
      BY <2>0, <2>1, <2>2, UpsertIsRight
    <2> HIDE DEF after
    <2>4. new.kind = "refresh" => file \in new.seen
      BY <1>1, <2>1
    <2> QED
      BY <1>1, <2>3, <2>4 DEF Right
  <1> HIDE DEF after
  <1>8. Walks(new, after, facts)
    BY <1>1, <1>7 DEF Walks
  <1> QED
    BY <1>1, <1>2, <1>5, <1>8 DEF Sweeps, Finds, Listed, Fresh, Hashes, WorkStates, after

\* The file that is refreshed is found among its parent's.
LEMMA WalkRestats ==
    ASSUME NEW now, NEW new, NEW table, NEW facts,
           Sweeps(now, table, facts), now.at = "listed", now.scope \in now.before,
           NEW entries,
           entries = { entry \in now.found.files :
                         entry.path = now.scope /\ ~IsIgnored(entry.path, now.ignored) },
           Same(new, now, { "at", "found", "seen" }),
           new.at = "forget", new.seen = { entry.path : entry \in entries }
    PROVE  Sweeps(new, UpsertFileFacts(table, entries, now.seq), facts)
  <1> DEFINE after == UpsertFileFacts(table, entries, now.seq)
  <1>1. /\ new.kind = now.kind /\ new.stage = now.stage /\ new.scope = now.scope
        /\ new.before = now.before /\ new.todo = now.todo /\ new.missed = now.missed
        /\ new.ignored = now.ignored /\ new.seq = now.seq /\ new.stack = now.stack
    BY DEF Same, RunFields
  <1>2. /\ Shape(now) /\ now.todo = { } /\ now.stage = "partial" /\ now.kind = "refresh"
        /\ Finds(now, facts) /\ Walks(now, table, facts)
    BY DEF Sweeps, Shape, WalkStates
  <1>3. Shape(new)
    BY <1>1, <1>2 DEF Same, Shape, WalkStates, WorkStates
  <1>4. ASSUME NEW file \in Under(new.scope), Clear(new, facts, file)
        PROVE  Right(new, after, facts, file) /\ file \in new.seen
    <2>0. file \in File /\ Clear(now, facts, file) /\ IsWithinSubtree(file, now.scope)
      BY <1>1, <1>4 DEF Clear, Under
    <2>1. now.scope = file
      BY <1>2, <2>0, FilesAreLeaves DEF Shape, IsWithinSubtree, Place, Under
    <2>2. PICK entry \in now.found.files : entry.path = file
      BY <1>1, <1>2, <1>4, <2>0 DEF Walks, WalkStates
    <2>3. entry \in entries
      BY <2>0, <2>1, <2>2 DEF Clear
    <2>4. \A e \in entries : e.path \notin now.missed => e.facts = facts[e.path]
      BY <1>2 DEF Finds
    <2>5. Right(now, after, facts, file)
      BY <2>0, <2>2, <2>3, <2>4, UpsertIsRight
    <2> HIDE DEF after
    <2> QED
      BY <1>1, <2>2, <2>3, <2>5 DEF Right
  <1> HIDE DEF after
  <1>5. Listed(new, after, facts)
    BY <1>4 DEF Listed
  <1> QED
    BY <1>1, <1>2, <1>3, <1>5 DEF Sweeps, Walks, Finds, Fresh, Hashes, WalkStates, after

\* The rows that the refresh did not see are forgotten.
LEMMA WalkForgets ==
    ASSUME NEW now, NEW new, NEW table, NEW facts,
           Sweeps(now, table, facts), now.at = "forget",
           Same(new, now, { "at" }), new.at = "query"
    PROVE  Sweeps(new, [file \in File |->
                          IF file \in now.before \ now.seen THEN NoFile ELSE table[file]], facts)
  <1> DEFINE after == [file \in File |->
                         IF file \in now.before \ now.seen THEN NoFile ELSE table[file]]
  <1>1. /\ new.kind = now.kind /\ new.stage = now.stage /\ new.scope = now.scope
        /\ new.before = now.before /\ new.todo = now.todo /\ new.missed = now.missed
        /\ new.ignored = now.ignored /\ new.seq = now.seq /\ new.stack = now.stack
        /\ new.cut = now.cut
    BY DEF Same, RunFields
  <1>2. /\ Shape(now) /\ now.todo = { } /\ now.stage = "partial"
    BY DEF Sweeps, Shape, WalkStates
  <1>3. Shape(new)
    BY <1>1, <1>2 DEF Same, Shape, WalkStates, WorkStates
  <1>4. ASSUME NEW file \in Under(new.scope), Clear(new, facts, file), ~new.cut
        PROVE  Right(new, after, facts, file)
    <2>1. file \in now.seen /\ Right(now, table, facts, file)
      BY <1>1, <1>4 DEF Sweeps, Listed, WorkStates, Clear
    <2>2. after[file] = table[file]
      BY <1>4, <2>1 DEF Under
    <2> HIDE DEF after
    <2> QED
      BY <1>1, <2>1, <2>2 DEF Right
  <1> HIDE DEF after
  <1>5. Listed(new, after, facts)
    BY <1>4 DEF Listed
  <1> QED
    BY <1>1, <1>2, <1>3, <1>5 DEF Sweeps, Walks, Finds, Fresh, Hashes, WalkStates, after

-----------------------------------------------------------------------------
(* Hashing *)

RowsTrue(table, facts) ==
    \A file \in File : table[file].seq # 0 => TrueSums(table[file], facts[file])

\* The files that may be copies become candidates.
LEMMA QueryCovers ==
    ASSUME NEW now, NEW new, NEW table, NEW facts,
           Sweeps(now, table, facts), RowsTrue(table, facts), now.at = "query", now.seq # 0,
           NEW chosen,
           chosen = { file \in IF now.stage = "partial"
                               THEN FindSharedSizeCandidates(table, now.seq)
                               ELSE FindSharedPartialCandidates(table, now.seq) :
                        ~IsIgnored(file, now.ignored) },
           Same(new, now, { "at", "todo" }), new.at = "hash",
           new.todo = { [path |-> file, facts |-> table[file].facts,
                         partial |-> table[file].partial,
                         full |-> table[file].full] : file \in chosen }
    PROVE  Sweeps(new, table, facts)
  <1>1. /\ new.kind = now.kind /\ new.stage = now.stage /\ new.scope = now.scope
        /\ new.before = now.before /\ new.missed = now.missed
        /\ new.ignored = now.ignored /\ new.seq = now.seq /\ new.stack = now.stack
        /\ new.cut = now.cut
    BY DEF Same, RunFields
  <1>2. Shape(now) /\ now.todo = { }
    BY DEF Sweeps, Shape
  <1>3. Shape(new)
    BY <1>1, <1>2 DEF Same, Shape, WalkStates, WorkStates
  <1>4. Listed(new, table, facts)
    BY <1>1 DEF Sweeps, Listed, WorkStates, Clear, Right
  <1>5. ASSUME NEW file \in chosen
        PROVE  /\ file \in File /\ table[file].seq = now.seq /\ ~table[file].failed
               /\ now.stage = "full" => table[file].partial # NoSum
    BY DEF FindSharedSizeCandidates, FindSharedPartialCandidates, Readable
  <1>6. Fresh(new, table)
    <2> SUFFICES ASSUME NEW candidate \in new.todo
                 PROVE  /\ table[candidate.path].seq # 0 /\ ~table[candidate.path].failed
                        /\ table[candidate.path].facts = candidate.facts
                        /\ candidate.full # NoSum => table[candidate.path].full # NoSum
                        /\ new.stage = "full" => table[candidate.path].partial # NoSum
                        /\ \A other \in new.todo :
                              other.path = candidate.path => other = candidate
      BY DEF Fresh
    <2>1. PICK file \in chosen :
             candidate = [path |-> file, facts |-> table[file].facts,
                          partial |-> table[file].partial, full |-> table[file].full]
      OBVIOUS
    <2> QED
      BY <1>1, <1>5, <2>1
  <1>7. ASSUME NEW file \in File, Paired(new, table, facts, file)
        PROVE  file \in chosen \/ Settles(now.stage, table[file])
    <2>1. PICK other \in File \ { file } :
             Ok(now, table, facts, other) /\ facts[other].content = facts[file].content
      BY <1>1, <1>7 DEF Paired, Ok, Clear, Right
    <2>2. Ok(now, table, facts, file)
      BY <1>1, <1>7 DEF Paired, Ok, Clear, Right
    <2>3. /\ file \in Readable(table, now.seq) /\ other \in Readable(table, now.seq) \ { file }
          /\ FileSize(table[other].facts) = FileSize(table[file].facts)
          /\ ~IsIgnored(file, now.ignored)
      BY <2>1, <2>2 DEF Ok, Right, Clear, Readable, FileSize
    <2>4. CASE now.stage = "partial"
      BY <2>3, <2>4 DEF FindSharedSizeCandidates
    <2>5. CASE now.stage = "full"
      <3>1. Paired(now, table, facts, file) /\ Paired(now, table, facts, other)
        BY <2>1, <2>2 DEF Paired
      <3>2. Settles("partial", table[file]) /\ Settles("partial", table[other])
        BY <2>5, <3>1 DEF Sweeps, Hashes
      <3>3. TrueSums(table[file], facts[file]) /\ TrueSums(table[other], facts[other])
        BY <2>1, <2>2 DEF RowsTrue, Ok, Right
      <3>4. table[file].partial # NoSum /\ table[other].partial = table[file].partial
        BY <2>1, <2>2, <3>2, <3>3 DEF Settles, TrueSums, Ok, Right
      <3>5. IsSmall(table[file].facts) => table[file].full # NoSum
        BY <3>2 DEF Settles
      <3> QED
        BY <2>3, <2>5, <3>4, <3>5 DEF FindSharedPartialCandidates, Settles
    <2> QED
      BY <1>2, <2>4, <2>5 DEF Shape
  <1>8. ASSUME NEW file \in chosen
        PROVE  Awaits(new, file)
    <2> DEFINE candidate == [path |-> file, facts |-> table[file].facts,
                             partial |-> table[file].partial, full |-> table[file].full]
    <2>1. candidate \in new.todo /\ candidate.path = file
      OBVIOUS
    <2> HIDE DEF candidate
    <2> QED
      BY <2>1 DEF Awaits
  <1>9. Hashes(new, table, facts)
    BY <1>1, <1>7, <1>8 DEF Hashes
  <1> QED
    BY <1>1, <1>2, <1>3, <1>4, <1>6, <1>9 DEF Sweeps, Walks, Finds, WalkStates

\* A stage ends when no candidate is left.
LEMMA StageEnds ==
    ASSUME NEW now, NEW new, NEW table, NEW facts,
           Sweeps(now, table, facts), now.at = "hash", now.todo = { },
           Same(new, now, { "at", "stage" }),
           \/ now.stage = "partial" /\ new.at = "query" /\ new.stage = "full"
           \/ now.stage = "full" /\ new.at = "clear" /\ new.stage = "full"
    PROVE  Sweeps(new, table, facts)
  <1>1. /\ new.kind = now.kind /\ new.scope = now.scope
        /\ new.before = now.before /\ new.missed = now.missed /\ new.todo = now.todo
        /\ new.ignored = now.ignored /\ new.seq = now.seq /\ new.stack = now.stack
        /\ new.cut = now.cut
    BY DEF Same, RunFields
  <1>2. Shape(now)
    BY DEF Sweeps
  <1>3. Shape(new)
    BY <1>1, <1>2 DEF Same, Shape, WalkStates, WorkStates
  <1>4. Listed(new, table, facts)
    BY <1>1 DEF Sweeps, Listed, WorkStates, Clear, Right
  <1>5. \A file \in File : Paired(new, table, facts, file) => Settles(now.stage, table[file])
    BY <1>1 DEF Sweeps, Hashes, Awaits, Paired, Ok, Clear, Right
  <1>6. Hashes(new, table, facts)
    BY <1>5 DEF Hashes, Settles
  <1> QED
    BY <1>1, <1>3, <1>4, <1>6 DEF Sweeps, Walks, Finds, Fresh, WalkStates

\* The old results are removed.
LEMMA ClearCovers ==
    ASSUME NEW now, NEW new, NEW table, NEW facts,
           Sweeps(now, table, facts), now.at = "clear",
           Same(new, now, { "at" }), new.at = "save"
    PROVE  Sweeps(new, table, facts)
  <1>1. /\ new.kind = now.kind /\ new.scope = now.scope /\ new.stage = now.stage
        /\ new.before = now.before /\ new.missed = now.missed /\ new.todo = now.todo
        /\ new.ignored = now.ignored /\ new.seq = now.seq /\ new.stack = now.stack
        /\ new.cut = now.cut
    BY DEF Same, RunFields
  <1>2. Shape(now) /\ now.todo = { }
    BY DEF Sweeps, Shape
  <1>3. Shape(new)
    BY <1>1, <1>2 DEF Same, Shape, WalkStates, WorkStates
  <1>4. Listed(new, table, facts)
    BY <1>1 DEF Sweeps, Listed, WorkStates, Clear, Right
  <1>5. \A file \in File : Paired(new, table, facts, file) => Paired(now, table, facts, file)
    BY <1>1 DEF Paired, Ok, Clear, Right
  <1>6. Hashes(new, table, facts)
    BY <1>1, <1>5 DEF Sweeps, Hashes
  <1> QED
    BY <1>1, <1>2, <1>3, <1>4, <1>6 DEF Sweeps, Walks, Finds, Fresh, WalkStates

\* A candidate is settled: its row is right, or it is no longer to answer for.
LEMMA CandidateSettles ==
    ASSUME NEW now, NEW new, NEW table, NEW after, NEW facts,
           Sweeps(now, table, facts), now.at \in { "hash", "reading" },
           now.todo \subseteq Candidate, NEW candidate \in now.todo,
           Same(new, now, { "at", "found", "todo", "missed" }), new.at = "hash",
           new.todo = now.todo \ { candidate },
           now.missed \subseteq new.missed,
           \A file \in File : file # candidate.path => after[file] = table[file],
           \/ candidate.path \in new.missed
           \/ /\ after[candidate.path].seq = table[candidate.path].seq
              /\ after[candidate.path].failed = table[candidate.path].failed
              /\ after[candidate.path].facts = table[candidate.path].facts
              /\ Settles(now.stage, after[candidate.path])
    PROVE  Sweeps(new, after, facts)
  <1>1. /\ new.kind = now.kind /\ new.scope = now.scope /\ new.stage = now.stage
        /\ new.before = now.before /\ new.cut = now.cut
        /\ new.ignored = now.ignored /\ new.seq = now.seq /\ new.stack = now.stack
    BY DEF Same, RunFields
  <1>2. Shape(now)
    BY DEF Sweeps
  <1>3. Shape(new)
    BY <1>1, <1>2 DEF Same, Shape, WalkStates, WorkStates
  <1>4. \A file \in File : Clear(new, facts, file) =>
           /\ Clear(now, facts, file)
           /\ Right(now, table, facts, file) <=> Right(new, after, facts, file)
    BY <1>1 DEF Clear, Right
  <1>5. Listed(new, after, facts)
    BY <1>1, <1>4 DEF Sweeps, Listed, WorkStates, Under
  <1>6. Fresh(new, after)
    <2>1. \A other \in new.todo : other \in now.todo /\ other.path \in File
                                   /\ other.path # candidate.path
      BY DEF Sweeps, Fresh, Candidate
    <2> QED
      BY <1>1, <2>1 DEF Sweeps, Fresh
  <1>7. ASSUME NEW file \in File, Paired(new, after, facts, file)
        PROVE  Awaits(new, file) \/ Settles(now.stage, after[file])
    <2>1. Paired(now, table, facts, file)
      BY <1>4, <1>7 DEF Paired, Ok
    <2>2. CASE file = candidate.path
      BY <1>7, <2>2 DEF Paired, Ok, Clear
    <2>3. CASE file # candidate.path
      BY <2>1, <2>3 DEF Sweeps, Hashes, Awaits
    <2> QED
      BY <2>2, <2>3
  <1>8. Hashes(new, after, facts)
    BY <1>1, <1>7 DEF Hashes
  <1> QED
    BY <1>1, <1>3, <1>5, <1>6, <1>8 DEF Sweeps, Walks, Finds, WalkStates

\* A read begins.
LEMMA ReadBegins ==
    ASSUME NEW now, NEW new, NEW table, NEW facts,
           Sweeps(now, table, facts), now.at = "hash",
           Same(new, now, { "at", "found" }), new.at = "reading"
    PROVE  Sweeps(new, table, facts)
  <1>1. /\ new.kind = now.kind /\ new.scope = now.scope /\ new.stage = now.stage
        /\ new.before = now.before /\ new.missed = now.missed /\ new.todo = now.todo
        /\ new.ignored = now.ignored /\ new.seq = now.seq /\ new.stack = now.stack
        /\ new.cut = now.cut
    BY DEF Same, RunFields
  <1>2. Shape(now)
    BY DEF Sweeps
  <1>3. Shape(new)
    BY <1>1, <1>2 DEF Same, Shape, WalkStates, WorkStates
  <1>4. Listed(new, table, facts)
    BY <1>1 DEF Sweeps, Listed, WorkStates, Clear, Right
  <1>5. \A file \in File : Paired(new, table, facts, file) => Paired(now, table, facts, file)
    BY <1>1 DEF Paired, Ok, Clear, Right
  <1>6. Hashes(new, table, facts)
    BY <1>1, <1>5 DEF Sweeps, Hashes, Awaits
  <1> QED
    BY <1>1, <1>3, <1>4, <1>6 DEF Sweeps, Walks, Finds, Fresh, WalkStates

\* Checksums that settle a candidate at a stage.
Enough(stage, candidate, sums) ==
    IF stage = "partial"
    THEN sums.partial # NoSum /\ (IsSmall(candidate.facts) => sums.full # NoSum)
    ELSE sums.full # NoSum

\* They settle its row.
LEMMA RecordSettles ==
    ASSUME NEW now, NEW table \in [File -> FileRow], NEW facts, NEW sums,
           Sweeps(now, table, facts), HeadsFirst(table),
           now.todo \subseteq Candidate, NEW candidate \in now.todo,
           Enough(now.stage, candidate, sums)
    PROVE  LET after == RecordChecksums(table, candidate.path, sums.partial, sums.full) IN
           /\ \A file \in File : file # candidate.path => after[file] = table[file]
           /\ after[candidate.path].seq = table[candidate.path].seq
           /\ after[candidate.path].failed = table[candidate.path].failed
           /\ after[candidate.path].facts = table[candidate.path].facts
           /\ Settles(now.stage, after[candidate.path])
           /\ HeadsFirst(after)
  <1> DEFINE path == candidate.path
             after == RecordChecksums(table, path, sums.partial, sums.full)
             row == [table[path] EXCEPT !.partial = Coalesce(sums.partial, @),
                                        !.full = Coalesce(sums.full, @), !.failed = FALSE]
  <1>1. /\ path \in File /\ table[path].seq # 0 /\ table[path].failed = FALSE
        /\ table[path].facts = candidate.facts
        /\ now.stage = "full" => table[path].partial # NoSum
        /\ now.stage \in { "partial", "full" }
    BY DEF Sweeps, Fresh, Shape, Candidate, FileRow
  <1>2. after = [table EXCEPT ![path] = row]
    BY <1>1 DEF RecordChecksums
  <1>3. /\ row.seq = table[path].seq /\ row.facts = table[path].facts /\ row.failed = FALSE
        /\ row.partial = Coalesce(sums.partial, table[path].partial)
        /\ row.full = Coalesce(sums.full, table[path].full)
    BY <1>1 DEF FileRow
  <1> HIDE DEF row, after
  <1>4. after[path] = row /\ \A file \in File : file # path => after[file] = table[file]
    BY <1>1, <1>2
  <1>5. Settles(now.stage, row)
    BY <1>1, <1>3 DEF Enough, Settles, Coalesce
  <1>6. row.partial # NoSum
    BY <1>1, <1>3 DEF Enough, Coalesce
  <1>7. HeadsFirst(after)
    BY <1>4, <1>6 DEF HeadsFirst
  <1> QED
    BY <1>1, <1>3, <1>4, <1>5, <1>7 DEF after

\* What the scans and the comparison know, if it is anything, is enough.
LEMMA KnownIsEnough ==
    ASSUME NEW stage \in { "partial", "full" }, NEW candidate \in Candidate, NEW hit,
           KnownSums(stage, candidate, hit) # NothingKnown
    PROVE  Enough(stage, candidate, KnownSums(stage, candidate, hit))
  <1> DEFINE cached == Cached(candidate.facts, hit)
             partial == Coalesce(candidate.partial, cached.partial)
  <1>1. HeadOf[candidate.facts.content] # NoSum
    BY ContentAssumption DEF Candidate, RealFacts
  <1>2. cached.full # NoSum => cached.partial # NoSum
    BY <1>1 DEF Cached, Sums
  <1>3. KnownSums(stage, candidate, hit) =
          IF stage = "full" THEN Sums(NoSum, cached.full)
          ELSE IF cached.full # NoSum THEN cached
          ELSE PartialSums(candidate.facts, partial)
    BY DEF KnownSums
  <1> HIDE DEF cached, partial
  <1>4. CASE stage = "full"
    BY <1>3, <1>4 DEF Enough, Sums, NothingKnown
  <1>5. CASE stage = "partial" /\ cached.full # NoSum
    BY <1>2, <1>3, <1>5 DEF Enough
  <1>6. CASE stage = "partial" /\ cached.full = NoSum
    BY <1>3, <1>6 DEF Enough, PartialSums, Sums, NothingKnown
  <1> QED
    BY <1>4, <1>5, <1>6

\* So is what a read tells.
LEMMA ReadIsEnough ==
    ASSUME NEW stage \in { "partial", "full" }, NEW candidate, NEW content \in Content
    PROVE  Enough(stage, candidate, IF stage = "full" THEN Sums(NoSum, content)
                                    ELSE PartialSums(candidate.facts, HeadOf[content]))
  <1>1. content # NoSum /\ HeadOf[content] # NoSum
    BY ContentAssumption
  <1> QED
    BY <1>1 DEF Enough, Sums, PartialSums

\* A listing keeps or drops both checksums of a file.
LEMMA UpsertHeadsFirst ==
    ASSUME NEW table, NEW entries, NEW seq, HeadsFirst(table)
    PROVE  HeadsFirst(UpsertFileFacts(table, entries, seq))
  BY DEF HeadsFirst, UpsertFileFacts

-----------------------------------------------------------------------------
(* The invariant *)

\* Nothing is deleted while a run is under way, or about to be.
NoDeletion == (Live # { } \/ starts # << >>) => deletions = { }

\* What is there is in directories that are there.
Whole ==
    \A place \in Place :
        (place \in dirs \/ (place \in File /\ Exists(place)))
            => Lineage(place) \cap Dir \subseteq dirs

Covered ==
    /\ NoDeletion
    /\ Whole
    /\ HeadsFirst(files)
    /\ \A run \in Live : Sweeps(runs[run], files, disk)

\* The steps of a run, as long as it lists.
LEMMA WalkCovers ==
    ASSUME Covered, Truth, NEW run \in Live,
           \/ ListNext(run) \/ LookAt(run) \/ ListDirectory(run) \/ RestatFile(run)
           \/ ForgetVanished(run)
    PROVE  /\ runs'[run].at # "off" => Sweeps(runs'[run], files', disk')
           /\ HeadsFirst(files')
  <1> DEFINE now == runs[run]
             new == runs'[run]
  <1> USE DEF Goes
  <1>0. /\ run \in RunId /\ runs = [o \in RunId |-> runs[o]]
        /\ Sweeps(now, files, disk) /\ DOMAIN now = RunFields /\ HeadsFirst(files)
        /\ RunTyped(now) /\ disk' = disk
        /\ disk \in [File -> Facts] /\ dirs \in SUBSET Dir
    BY DEF Live, Truth, Typed, RunsTyped, DiskTyped, Covered, Sweeps, Shape,
           ListNext, LookAt, ListDirectory, RestatFile, ForgetVanished, RunUnchanged, diskVars
  <1>1. CASE ListNext(run)
    <2>0. files' = files /\ now.at = "list"
      BY <1>1 DEF ListNext, tables
    <2>1. CASE \E state : Finish(run, state)
      BY <1>0, <2>0, <2>1 DEF Finish, NoRun
    <2>2. CASE runs' = [runs EXCEPT ![run].at = "clear", ![run].cut = TRUE]
      <3>1. new = [now EXCEPT !.at = "clear", !.cut = TRUE]
        BY <1>0, <2>2
      <3>2. /\ Same(new, now, { "at", "cut", "found", "todo" })
            /\ new.at = "clear" /\ new.cut = TRUE /\ new.todo = now.todo
        BY <1>0, <3>1 DEF Same, RunFields
      <3>3. now.todo = { }
        BY <1>0, <2>0 DEF Sweeps, Shape
      <3> QED
        BY <1>0, <2>0, <3>2, <3>3, SweepCut
    <2>3. CASE /\ now.stack = << >>
               /\ runs' = [runs EXCEPT ![run].at = IF now.kind = "scan" THEN "query" ELSE "forget"]
      <3>1. new = [now EXCEPT !.at = IF now.kind = "scan" THEN "query" ELSE "forget"]
        BY <1>0, <2>3
      <3>2. /\ Same(new, now, { "at" })
            /\ new.at = IF now.kind = "scan" THEN "query" ELSE "forget"
        BY <1>0, <3>1 DEF Same, RunFields
      <3> QED
        BY <1>0, <2>0, <2>3, <3>2, WalkEnds
    <2>4. CASE /\ now.stack # << >>
               /\ runs' = [runs EXCEPT
                    ![run].at = "listing",
                    ![run].path = now.stack[Len(now.stack)],
                    ![run].stack = SubSeq(@, 1, Len(@) - 1)]
      <3> DEFINE last == now.stack[Len(now.stack)]
                 rest == SubSeq(now.stack, 1, Len(now.stack) - 1)
      <3>1. new = [now EXCEPT !.at = "listing", !.path = last, !.stack = rest]
        BY <1>0, <2>4
      <3> HIDE DEF last, rest
      <3>2. /\ Same(new, now, { "at", "path", "stack" })
            /\ new.at = "listing" /\ new.path = last /\ new.stack = rest
        BY <1>0, <3>1 DEF Same, RunFields
      <3> QED
        BY <1>0, <2>0, <2>4, <3>2, WalkPops DEF last, rest
    <2> QED
      BY <1>1, <2>1, <2>2, <2>3, <2>4 DEF ListNext, ListingEnds
  <1>2. CASE LookAt(run)
    <2>0. files' = files /\ now.at = "listing"
      BY <1>2 DEF LookAt, tables
    <2> DEFINE kids == Children(now.path)
               inner == Inner(now.path)
    <2>1. ASSUME now.path \in dirs, NEW bad \in SUBSET kids,
                 runs' = [runs EXCEPT
                     ![run].at = "listed",
                     ![run].found = Listing(kids \ bad, inner, bad # {}),
                     ![run].missed = @ \cup { entry.path : entry \in bad }]
          PROVE  Sweeps(new, files, disk)
      <3> DEFINE found == Listing(kids \ bad, inner, bad # {})
                 missed == now.missed \cup { entry.path : entry \in bad }
      <3>1. new = [now EXCEPT !.at = "listed", !.found = found, !.missed = missed]
        BY <1>0, <2>1
      <3>2. /\ kids = { [path |-> file, facts |-> disk[file]] :
                          file \in { f \in File : /\ ParentPath(f) = now.path
                                                  /\ disk[f].content # NoSum } }
            /\ inner = { dir \in dirs : ParentPath(dir) = now.path }
        BY DEF Children, Inner, Exists
      <3>3. found.files = kids \ bad /\ found.dirs = inner
        BY DEF Listing
      <3> HIDE DEF kids, inner, found, missed
      <3>4. /\ Same(new, now, { "at", "found", "missed" })
            /\ new.at = "listed" /\ new.found = found /\ new.missed = missed
        BY <1>0, <3>1 DEF Same, RunFields
      <3>5. \A file \in File : disk[file].content # NoSum => Lineage(file) \cap Dir \subseteq dirs
        BY DEF Covered, Whole, Exists, Place
      <3>6. /\ new.found.files = kids \ bad
            /\ new.found.dirs = { dir \in dirs : ParentPath(dir) = now.path }
            /\ new.missed = now.missed \cup { entry.path : entry \in bad }
        BY <3>2, <3>3, <3>4 DEF missed
      <3>7. /\ Sweeps(now, files, disk) /\ now.at = "listing" /\ now.path \in dirs
            /\ disk \in [File -> Facts] /\ dirs \in SUBSET Dir /\ bad \in SUBSET kids
        BY <1>0, <2>0, <2>1
      <3> HIDE DEF now, new
      <3> QED
        BY <3>2, <3>4, <3>5, <3>6, <3>7, LookFinds
    <2>2. CASE runs' = [runs EXCEPT ![run].at = "listed",
                     ![run].found = Listing({}, {}, TRUE),
                     ![run].missed = @ \cup Under(now.path) \cup { now.path }]
      <3> DEFINE found == Listing({}, {}, TRUE)
                 missed == now.missed \cup Under(now.path) \cup { now.path }
      <3>1. new = [now EXCEPT !.at = "listed", !.found = found, !.missed = missed]
        BY <1>0, <2>2
      <3>2. found.files = { } /\ found.dirs = { }
        BY DEF Listing
      <3> HIDE DEF found, missed
      <3>3. /\ Same(new, now, { "at", "found", "missed" })
            /\ new.at = "listed" /\ new.found = found /\ new.missed = missed
        BY <1>0, <3>1 DEF Same, RunFields
      <3>4. Sweeps(new, files, disk)
        BY <1>0, <2>0, <3>2, <3>3, LookMisses DEF missed
      <3> QED
        BY <1>0, <2>0, <3>4
    <2> QED
      BY <1>0, <1>2, <2>0, <2>1, <2>2 DEF LookAt
  <1>3. CASE ListDirectory(run)
    <2> DEFINE entries == { entry \in now.found.files : ~IsIgnored(entry.path, now.ignored) }
               inner == { dir \in now.found.dirs : ~IsIgnored(dir, now.ignored) }
    <2>0. /\ now.at = "listed" /\ now.scope \notin now.before
          /\ files' = UpsertFileFacts(files, entries, now.seq)
      BY <1>3 DEF ListDirectory
    <2>1. PICK order \in Orderings(inner) :
            runs' = [runs EXCEPT
               ![run].at = "list", ![run].found = { },
               ![run].stack = @ \o order,
               ![run].seen = IF now.kind = "scan" THEN {}
                             ELSE @ \cup { entry.path : entry \in entries }]
      BY <1>3 DEF ListDirectory
    <2> DEFINE stack == now.stack \o order
               seen == IF now.kind = "scan" THEN {}
                       ELSE now.seen \cup { entry.path : entry \in entries }
    <2>2. entries = { entry \in now.found.files : ~IsIgnored(entry.path, now.ignored) }
      OBVIOUS
    <2>3. inner = { dir \in now.found.dirs : ~IsIgnored(dir, now.ignored) }
      OBVIOUS
    <2> HIDE DEF entries, inner
    <2>4. new = [now EXCEPT !.at = "list", !.found = { }, !.stack = stack, !.seen = seen]
      BY <1>0, <2>1
    <2> HIDE DEF stack, seen
    <2>5. /\ Same(new, now, { "at", "found", "stack", "seen" })
          /\ new.at = "list" /\ new.stack = stack /\ new.seen = seen
      BY <1>0, <2>4 DEF Same, RunFields
    <2>6. Sweeps(new, UpsertFileFacts(files, entries, now.seq), disk)
      BY <1>0, <2>0, <2>2, <2>3, <2>5, WalkLists DEF stack, seen
    <2>7. HeadsFirst(UpsertFileFacts(files, entries, now.seq))
      BY <1>0, UpsertHeadsFirst
    <2> QED
      BY <1>0, <2>0, <2>6, <2>7
  <1>4. CASE RestatFile(run)
    <2> DEFINE entries == { entry \in now.found.files :
                              entry.path = now.scope /\ ~IsIgnored(entry.path, now.ignored) }
               seen == { entry.path : entry \in entries }
    <2>0. /\ now.at = "listed" /\ now.scope \in now.before
          /\ files' = UpsertFileFacts(files, entries, now.seq)
          /\ runs' = [runs EXCEPT ![run].at = "forget", ![run].found = { }, ![run].seen = seen]
      BY <1>4 DEF RestatFile
    <2>2. entries = { entry \in now.found.files :
                        entry.path = now.scope /\ ~IsIgnored(entry.path, now.ignored) }
      OBVIOUS
    <2> HIDE DEF entries, seen
    <2>4. new = [now EXCEPT !.at = "forget", !.found = { }, !.seen = seen]
      BY <1>0, <2>0
    <2>5. /\ Same(new, now, { "at", "found", "seen" })
          /\ new.at = "forget" /\ new.seen = seen
      BY <1>0, <2>4 DEF Same, RunFields
    <2>6. Sweeps(new, UpsertFileFacts(files, entries, now.seq), disk)
      BY <1>0, <2>0, <2>2, <2>5, WalkRestats DEF seen
    <2>7. HeadsFirst(UpsertFileFacts(files, entries, now.seq))
      BY <1>0, UpsertHeadsFirst
    <2> QED
      BY <1>0, <2>0, <2>6, <2>7
  <1>5. CASE ForgetVanished(run)
    <2>0. /\ now.at = "forget"
          /\ files' = [file \in File |->
                IF file \in now.before \ now.seen THEN NoFile ELSE files[file]]
          /\ runs' = [runs EXCEPT ![run].at = "query"]
      BY <1>5 DEF ForgetVanished
    <2>1. new = [now EXCEPT !.at = "query"]
      BY <1>0, <2>0
    <2>2. Same(new, now, { "at" }) /\ new.at = "query"
      BY <1>0, <2>1 DEF Same, RunFields
    <2>3. Sweeps(new, files', disk)
      BY <1>0, <2>0, <2>2, WalkForgets
    <2>4. HeadsFirst(files')
      BY <1>0, <2>0 DEF HeadsFirst, NoFile
    <2> QED
      BY <1>0, <2>3, <2>4
  <1> QED
    BY <1>1, <1>2, <1>3, <1>4, <1>5

\* The steps of a run from its hashing on.
LEMMA HashCovers ==
    ASSUME Covered, Truth, NEW run \in Live,
           \/ Query(run) \/ HashingEnds(run) \/ HashingStops(run) \/ HashNext(run)
           \/ ReadFile(run) \/ ReadFails(run) \/ ClearResults(run)
    PROVE  Sweeps(runs'[run], files', disk') /\ HeadsFirst(files')
  <1> DEFINE now == runs[run]
             new == runs'[run]
  <1> USE DEF Goes
  <1>0. /\ run \in RunId /\ runs = [o \in RunId |-> runs[o]]
        /\ Sweeps(now, files, disk) /\ DOMAIN now = RunFields /\ HeadsFirst(files)
        /\ RunTyped(now) /\ RunHolds(now) /\ disk' = disk /\ now.stage \in { "partial", "full" }
        /\ disk \in [File -> Facts] /\ files \in [File -> FileRow] /\ RowsTrue(files, disk)
    BY DEF Live, Truth, Typed, RunsTyped, DiskTyped, TablesTyped, Covered, Sweeps, Shape,
           RunsHold, RowsHold, RowsTrue,
           Query, HashingEnds, HashingStops, HashNext, ReadFile, ReadFails, ClearResults,
           RunUnchanged, diskVars
  <1>t. now.todo \subseteq Candidate /\ now.seq # 0
    BY <1>0 DEF RunTyped
  <1>1. CASE Query(run)
    <2> DEFINE chosen == Candidates(run)
               todo == { [path |-> file, facts |-> files[file].facts,
                          partial |-> files[file].partial,
                          full |-> files[file].full] : file \in chosen }
    <2>0. files' = files /\ now.at = "query"
          /\ runs' = [runs EXCEPT ![run].at = "hash", ![run].todo = todo]
      BY <1>1 DEF Query, tables
    <2>1. chosen = { file \in IF now.stage = "partial"
                               THEN FindSharedSizeCandidates(files, now.seq)
                               ELSE FindSharedPartialCandidates(files, now.seq) :
                        ~IsIgnored(file, now.ignored) }
      BY DEF Candidates
    <2> HIDE DEF chosen, todo
    <2>2. new = [now EXCEPT !.at = "hash", !.todo = todo]
      BY <1>0, <2>0
    <2>3. Same(new, now, { "at", "todo" }) /\ new.at = "hash" /\ new.todo = todo
      BY <1>0, <2>2 DEF Same, RunFields
    <2> HIDE DEF now, new
    <2>4. Sweeps(new, files, disk)
      BY <1>0, <1>t, <2>0, <2>1, <2>3, QueryCovers DEF todo
    <2> QED
      BY <1>0, <2>0, <2>4 DEF new
  <1>2. CASE HashingEnds(run)
    <2>0. /\ files' = files /\ now.at = "hash" /\ now.todo = { }
          /\ runs' = IF now.stage = "partial"
                     THEN [runs EXCEPT ![run].at = "query", ![run].stage = "full"]
                     ELSE [runs EXCEPT ![run].at = "clear"]
      BY <1>2 DEF HashingEnds, tables
    <2>1. CASE now.stage = "partial"
      <3>1. new = [now EXCEPT !.at = "query", !.stage = "full"]
        BY <1>0, <2>0, <2>1
      <3>2. Same(new, now, { "at", "stage" }) /\ new.at = "query" /\ new.stage = "full"
        BY <1>0, <3>1 DEF Same, RunFields
      <3> HIDE DEF now, new
      <3> QED
        BY <1>0, <2>0, <2>1, <3>2, StageEnds DEF new
    <2>2. CASE now.stage = "full"
      <3>1. new = [now EXCEPT !.at = "clear"]
        BY <1>0, <2>0, <2>2
      <3>2. Same(new, now, { "at", "stage" }) /\ new.at = "clear" /\ new.stage = "full"
        BY <1>0, <2>2, <3>1 DEF Same, RunFields
      <3> HIDE DEF now, new
      <3> QED
        BY <1>0, <2>0, <2>2, <3>2, StageEnds DEF new
    <2> QED
      BY <1>0, <2>1, <2>2
  <1>3. CASE HashingStops(run)
    <2>0. /\ files' = files
          /\ runs' = [runs EXCEPT ![run].at = "clear", ![run].cut = TRUE, ![run].todo = { }]
      BY <1>3 DEF HashingStops, tables
    <2>1. new = [now EXCEPT !.at = "clear", !.cut = TRUE, !.todo = { }]
      BY <1>0, <2>0
    <2>2. /\ Same(new, now, { "at", "cut", "found", "todo" })
          /\ new.at = "clear" /\ new.cut = TRUE /\ new.todo = { }
      BY <1>0, <2>1 DEF Same, RunFields
    <2> QED
      BY <1>0, <2>0, <2>2, SweepCut
  <1>4. CASE HashNext(run)
    <2>0. now.at = "hash"
      BY <1>4 DEF HashNext
    <2>1. PICK candidate \in now.todo, hit \in CacheHits :
        LET sums == KnownSums(now.stage, candidate, hit)
            settled == [runs EXCEPT ![run].todo = @ \ { candidate }]
        IN
        \/ /\ candidate.full # NoSum
           /\ runs' = settled
           /\ UNCHANGED << files, thread >>
        \/ /\ candidate.full = NoSum /\ sums # NothingKnown
           /\ files' = Record(candidate, sums)
           /\ runs' = settled
           /\ thread' = thread
        \/ /\ candidate.full = NoSum /\ sums = NothingKnown
           /\ runs' = [runs EXCEPT ![run].at = "reading", ![run].found = candidate]
           /\ thread' = 0
           /\ files' = files
      BY <1>4 DEF HashNext
    <2> DEFINE sums == KnownSums(now.stage, candidate, hit)
               less == now.todo \ { candidate }
    <2>2. candidate \in Candidate /\ candidate.path \in File
      BY <1>t DEF Candidate
    <2>3. ASSUME runs' = [runs EXCEPT ![run].todo = @ \ { candidate }]
          PROVE  /\ Same(new, now, { "at", "found", "todo", "missed" })
                 /\ new.at = "hash" /\ new.todo = now.todo \ { candidate }
                 /\ now.missed \subseteq new.missed
      <3>1. new = [now EXCEPT !.todo = less]
        BY <1>0, <2>3
      <3> HIDE DEF less
      <3>2. /\ Same(new, now, { "at", "found", "todo", "missed" })
            /\ new.at = now.at /\ new.todo = less /\ new.missed = now.missed
        BY <1>0, <3>1 DEF Same, RunFields
      <3> QED
        BY <2>0, <3>2 DEF less
    <2>4. CASE /\ candidate.full # NoSum /\ files' = files
               /\ runs' = [runs EXCEPT ![run].todo = @ \ { candidate }]
      <3>1. Settles(now.stage, files[candidate.path])
        BY <1>0, <2>2, <2>4 DEF Sweeps, Fresh, HeadsFirst, Settles
      <3> HIDE DEF now, new
      <3>2. Sweeps(new, files, disk)
        BY <1>0, <1>t, <2>0, <2>3, <2>4, <3>1, CandidateSettles
      <3> QED
        BY <1>0, <2>4, <3>2 DEF new
    <2>5. CASE /\ sums # NothingKnown /\ files' = Record(candidate, sums)
               /\ runs' = [runs EXCEPT ![run].todo = @ \ { candidate }]
      <3>1. Enough(now.stage, candidate, sums)
        BY <1>0, <2>2, <2>5, KnownIsEnough
      <3> HIDE DEF now, new, sums
      <3>2. files' = RecordChecksums(files, candidate.path, sums.partial, sums.full)
        BY <2>5 DEF Record
      <3>3. /\ \A file \in File : file # candidate.path => files'[file] = files[file]
            /\ files'[candidate.path].seq = files[candidate.path].seq
            /\ files'[candidate.path].failed = files[candidate.path].failed
            /\ files'[candidate.path].facts = files[candidate.path].facts
            /\ Settles(now.stage, files'[candidate.path])
            /\ HeadsFirst(files')
        BY <1>0, <1>t, <2>2, <3>1, <3>2, RecordSettles
      <3>4. Sweeps(new, files', disk)
        BY <1>0, <1>t, <2>0, <2>3, <2>5, <3>3, CandidateSettles
      <3> QED
        BY <1>0, <3>3, <3>4 DEF new
    <2>6. CASE /\ files' = files
               /\ runs' = [runs EXCEPT ![run].at = "reading", ![run].found = candidate]
      <3>1. new = [now EXCEPT !.at = "reading", !.found = candidate]
        BY <1>0, <2>6
      <3>2. Same(new, now, { "at", "found" }) /\ new.at = "reading"
        BY <1>0, <3>1 DEF Same, RunFields
      <3> HIDE DEF now, new
      <3> QED
        BY <1>0, <2>0, <2>6, <3>2, ReadBegins DEF new
    <2> HIDE DEF now, new
    <2> QED
      BY <2>1, <2>4, <2>5, <2>6
  <1>5. CASE ReadFile(run)
    <2> DEFINE candidate == now.found
               content == disk[candidate.path].content
               sums == IF now.stage = "full" THEN Sums(NoSum, content)
                       ELSE PartialSums(candidate.facts, HeadOf[content])
               less == now.todo \ { candidate }
    <2>0. /\ now.at = "reading" /\ content # NoSum /\ files' = Record(candidate, sums)
          /\ runs' = [runs EXCEPT ![run].at = "hash", ![run].found = { },
                                  ![run].todo = @ \ { candidate }]
      BY <1>5 DEF ReadFile, Exists
    <2>1. candidate \in now.todo /\ candidate \in Candidate /\ candidate.path \in File
      BY <1>0, <1>t, <2>0 DEF RunTyped, Candidate
    <2>2. content \in Content
      BY <1>0, <2>0, <2>1 DEF Facts
    <2>3. Enough(now.stage, candidate, sums)
      BY <1>0, <2>2, ReadIsEnough
    <2>4. new = [now EXCEPT !.at = "hash", !.found = { }, !.todo = less]
      BY <1>0, <2>0
    <2> HIDE DEF less, sums, candidate
    <2>5. /\ Same(new, now, { "at", "found", "todo", "missed" })
          /\ new.at = "hash" /\ new.todo = less /\ now.missed \subseteq new.missed
      BY <1>0, <2>4 DEF Same, RunFields
    <2> HIDE DEF now, new
    <2>6. files' = RecordChecksums(files, candidate.path, sums.partial, sums.full)
      BY <2>0 DEF Record
    <2>7. /\ \A file \in File : file # candidate.path => files'[file] = files[file]
          /\ files'[candidate.path].seq = files[candidate.path].seq
          /\ files'[candidate.path].failed = files[candidate.path].failed
          /\ files'[candidate.path].facts = files[candidate.path].facts
          /\ Settles(now.stage, files'[candidate.path])
          /\ HeadsFirst(files')
      BY <1>0, <1>t, <2>1, <2>3, <2>6, RecordSettles
    <2>8. Sweeps(new, files', disk)
      BY <1>0, <1>t, <2>0, <2>1, <2>5, <2>7, CandidateSettles DEF less
    <2> QED
      BY <1>0, <2>7, <2>8 DEF new
  <1>6. CASE ReadFails(run)
    <2> DEFINE candidate == now.found
               less == now.todo \ { candidate }
               missed == now.missed \cup { candidate.path }
    <2>0. now.at = "reading"
      BY <1>6 DEF ReadFails
    <2>1. candidate \in now.todo /\ candidate \in Candidate /\ candidate.path \in File
      BY <1>0, <1>t, <2>0 DEF RunTyped, Candidate
    <2>2. CASE /\ runs' = [runs EXCEPT ![run].at = "clear", ![run].cut = TRUE,
                                       ![run].found = { }, ![run].todo = { }]
               /\ files' = files
      <3>1. new = [now EXCEPT !.at = "clear", !.cut = TRUE, !.found = { }, !.todo = { }]
        BY <1>0, <2>2
      <3>2. /\ Same(new, now, { "at", "cut", "found", "todo" })
            /\ new.at = "clear" /\ new.cut = TRUE /\ new.todo = { }
        BY <1>0, <3>1 DEF Same, RunFields
      <3> QED
        BY <1>0, <2>2, <3>2, SweepCut
    <2>3. CASE /\ runs' = [runs EXCEPT ![run].at = "hash", ![run].found = { },
                                       ![run].todo = @ \ { candidate },
                                       ![run].missed = @ \cup { candidate.path }]
               /\ files' = RecordReadError(files, candidate.path)
      <3>1. new = [now EXCEPT !.at = "hash", !.found = { }, !.todo = less, !.missed = missed]
        BY <1>0, <2>3
      <3>2. /\ \A file \in File : file # candidate.path => files'[file] = files[file]
            /\ \A file \in File : /\ files'[file].partial = files[file].partial
                                  /\ files'[file].full = files[file].full
        <4> HIDE DEF candidate
        <4>1. CASE files[candidate.path].seq = 0
          BY <2>3, <4>1 DEF RecordReadError
        <4>2. CASE files[candidate.path].seq # 0
          <5> DEFINE row == [files[candidate.path] EXCEPT !.failed = TRUE]
          <5>1. files' = [files EXCEPT ![candidate.path] = row]
            BY <2>3, <4>2 DEF RecordReadError
          <5>2. /\ row.partial = files[candidate.path].partial
                /\ row.full = files[candidate.path].full
            BY <1>0, <2>1 DEF FileRow
          <5> HIDE DEF row
          <5> QED
            BY <1>0, <2>1, <5>1, <5>2
        <4> QED
          BY <4>1, <4>2
      <3>3. HeadsFirst(files')
        BY <1>0, <3>2 DEF HeadsFirst
      <3> HIDE DEF less, missed, candidate
      <3>4. /\ Same(new, now, { "at", "found", "todo", "missed" })
            /\ new.at = "hash" /\ new.todo = less /\ new.missed = missed
        BY <1>0, <3>1 DEF Same, RunFields
      <3> HIDE DEF now, new
      <3>5. now.missed \subseteq new.missed /\ candidate.path \in new.missed
        BY <3>4 DEF missed
      <3>6. Sweeps(new, files', disk)
        BY <1>0, <1>t, <2>0, <2>1, <3>2, <3>4, <3>5, CandidateSettles DEF less
      <3> QED
        BY <1>0, <3>3, <3>6 DEF new
    <2> QED
      BY <1>6, <2>2, <2>3 DEF ReadFails
  <1>7. CASE ClearResults(run)
    <2>0. files' = files /\ now.at = "clear" /\ runs' = [runs EXCEPT ![run].at = "save"]
      BY <1>7 DEF ClearResults, tables
    <2>1. new = [now EXCEPT !.at = "save"]
      BY <1>0, <2>0
    <2>2. Same(new, now, { "at" }) /\ new.at = "save"
      BY <1>0, <2>1 DEF Same, RunFields
    <2> HIDE DEF now, new
    <2> QED
      BY <1>0, <2>0, <2>2, ClearCovers DEF new
  <1> QED
    BY <1>1, <1>2, <1>3, <1>4, <1>5, <1>6, <1>7

\* A step of a run keeps what it covers; a run that ends covers nothing more.
LEMMA RunStepCovers ==
    ASSUME Covered, Truth, IInv, NEW run \in Live, RunStepOf(run)
    PROVE  HeadsFirst(files') /\ \A other \in Live' : Sweeps(runs'[other], files', disk')
  <1>0. run \in RunId /\ Live = { run }
    BY DEF IInv, OneSlot, Live
  <1>1. Moves(run) \/ Ends(run)
    BY <1>0, RunStepCases DEF RunStepOf, IInv
  <1>2. Live' \subseteq { run } /\ (Ends(run) => Live' = { })
    BY <1>0, <1>1, MovesKeepsSlot, EndsKeepsSlot DEF IInv
  <1>3. \A other \in Live' : other = run /\ runs'[run].at # "off"
    BY <1>2 DEF Live
  <1>4. CASE \/ ListNext(run) \/ LookAt(run) \/ ListDirectory(run) \/ RestatFile(run)
             \/ ForgetVanished(run)
    BY <1>3, <1>4, WalkCovers
  <1>5. CASE \/ Query(run) \/ HashingEnds(run) \/ HashingStops(run) \/ HashNext(run)
             \/ ReadFile(run) \/ ReadFails(run) \/ ClearResults(run)
    BY <1>3, <1>5, HashCovers
  <1>6. CASE ListRejects(run) \/ SaveGroups(run)
    <2>1. Ends(run) /\ files' = files
      BY <1>6 DEF ListRejects, SaveGroups, Outcome, Ends, tables
    <2> QED
      BY <1>2, <2>1 DEF Covered
  <1> QED
    BY <1>4, <1>5, <1>6 DEF RunStepOf

\* A run that begins has everything to list.
LEMMA BegunCovers ==
    ASSUME NEW kind \in { "scan", "refresh" }, NEW scope \in Place, NEW seq, NEW includeFolders,
           NEW S, NEW before \in SUBSET Under(scope), kind = "scan" => before = { },
           NEW table, NEW facts, NEW now,
           now = [at |-> IF scope \in before THEN "listing" ELSE "list",
                  path |-> IF scope \in before THEN ParentPath(scope) ELSE scope,
                  kind |-> kind, scope |-> scope, seq |-> seq,
                  folders |-> includeFolders, ignored |-> S,
                  aborted |-> FALSE, cut |-> FALSE, stack |-> << scope >>,
                  found |-> { }, before |-> before, seen |-> { },
                  stage |-> "partial", todo |-> { }, missed |-> { }]
    PROVE  Sweeps(now, table, facts)
  <1>1. /\ DOMAIN now = RunFields /\ now.kind = kind /\ now.scope = scope /\ now.before = before
        /\ now.at = (IF scope \in before THEN "listing" ELSE "list")
        /\ now.path = (IF scope \in before THEN ParentPath(scope) ELSE scope)
        /\ now.stack = << scope >> /\ now.stage = "partial" /\ now.todo = { }
    BY DEF RunFields
  <1>2. now.at \in { "list", "listing" } /\ (now.at = "listing" <=> scope \in before)
    BY <1>1
  <1>3. << scope >> \in Seq(Place) /\ DOMAIN << scope >> = { 1 } /\ << scope >>[1] = scope
    OBVIOUS
  <1>4. Shape(now)
    BY <1>1, <1>2, <1>3 DEF Shape, WalkStates
  <1>5. Walks(now, table, facts)
    BY <1>1, <1>2, <1>3 DEF Walks, Ahead, Under
  <1> QED
    BY <1>1, <1>2, <1>4, <1>5 DEF Sweeps, Finds, Listed, Fresh, Hashes, WorkStates

\* The run that begins is the only one.
LEMMA BeginCovers ==
    ASSUME OneSlot, Live = { }, NEW kind \in { "scan", "refresh" }, NEW scope \in Place, NEW seq,
           NEW includeFolders, NEW before \in SUBSET Under(scope), kind = "scan" => before = { },
           Begin(kind, scope, seq, includeFolders, before)
    PROVE  \A run \in Live' : Sweeps(runs'[run], files', disk')
  <1>1. PICK new \in RunId \ Live :
           runs' = [runs EXCEPT ![new] =
              [at |-> IF scope \in before THEN "listing" ELSE "list",
               path |-> IF scope \in before THEN ParentPath(scope) ELSE scope,
               kind |-> kind, scope |-> scope, seq |-> seq,
               folders |-> includeFolders, ignored |-> ignored,
               aborted |-> FALSE, cut |-> FALSE, stack |-> << scope >>,
               found |-> { }, before |-> before, seen |-> { },
               stage |-> "partial", todo |-> { }, missed |-> { }]]
    BY DEF Begin
  <1> DEFINE fresh ==
              [at |-> IF scope \in before THEN "listing" ELSE "list",
               path |-> IF scope \in before THEN ParentPath(scope) ELSE scope,
               kind |-> kind, scope |-> scope, seq |-> seq,
               folders |-> includeFolders, ignored |-> ignored,
               aborted |-> FALSE, cut |-> FALSE, stack |-> << scope >>,
               found |-> { }, before |-> before, seen |-> { },
               stage |-> "partial", todo |-> { }, missed |-> { }]
  <1>2. runs' = [runs EXCEPT ![new] = fresh]
    BY <1>1
  <1>3. \A table, facts : Sweeps(fresh, table, facts)
    BY BegunCovers
  <1> HIDE DEF fresh
  <1>4. \A run \in RunId : run # new => runs'[run].at = "off"
    BY <1>2 DEF OneSlot, Live
  <1>5. runs'[new] = fresh
    BY <1>2 DEF OneSlot
  <1> QED
    BY <1>3, <1>4, <1>5 DEF Live

\* Runs that others only mark, or tell what they touched.
LEMMA OthersCover ==
    ASSUME Covered, RunsTyped, files' = files,
           \A run \in Live' :
              /\ run \in Live /\ DOMAIN runs'[run] = DOMAIN runs[run]
              /\ \A field \in RunFields \ { "aborted", "missed" } :
                    runs'[run][field] = runs[run][field]
              /\ runs[run].missed \subseteq runs'[run].missed
              /\ \A file \in File \ runs'[run].missed : disk'[file] = disk[file]
    PROVE  \A run \in Live' : Sweeps(runs'[run], files', disk')
  <1> SUFFICES ASSUME NEW run \in Live' PROVE Sweeps(runs'[run], files', disk')
    OBVIOUS
  <1> DEFINE now == runs[run]
             new == runs'[run]
  <1>1. Sweeps(now, files, disk) /\ now.todo \subseteq Candidate
    BY DEF Covered, RunsTyped, RunTyped
  <1>2. DOMAIN new = RunFields
    BY <1>1 DEF Sweeps, Shape
  <1>3. /\ \A field \in RunFields \ { "aborted", "missed" } : new[field] = now[field]
        /\ now.missed \subseteq new.missed
        /\ \A file \in File \ new.missed : disk'[file] = disk[file]
    OBVIOUS
  <1> HIDE DEF now, new
  <1>4. Sweeps(new, files, disk')
    BY <1>1, <1>2, <1>3, SweepStays
  <1> QED
    BY <1>4 DEF new

\* What changes on the disk is told to every run.
LEMMA TouchTells ==
    ASSUME Covered, RunsTyped, NEW changed, Touch(changed)
    PROVE  /\ Live' = Live
           /\ \A run \in Live :
                 /\ DOMAIN runs'[run] = DOMAIN runs[run]
                 /\ \A field \in RunFields \ { "aborted", "missed" } :
                       runs'[run][field] = runs[run][field]
                 /\ runs'[run].missed = runs[run].missed \cup changed
           /\ deletions = { } => deletions' = { }
  <1>1. ASSUME NEW run \in Live
        PROVE  /\ DOMAIN runs'[run] = DOMAIN runs[run] /\ DOMAIN runs[run] = RunFields
               /\ \A field \in RunFields \ { "missed" } : runs'[run][field] = runs[run][field]
               /\ runs'[run].missed = runs[run].missed \cup changed
    <2>1. run \in RunId /\ DOMAIN runs[run] = RunFields
      BY DEF Live, Covered, Sweeps, Shape
    <2>2. runs'[run] = [runs[run] EXCEPT !.missed = runs[run].missed \cup changed]
      BY <2>1 DEF Touch
    <2> QED
      BY <2>1, <2>2 DEF RunFields
  <1>2. \A run \in RunId \ Live : runs'[run] = runs[run]
    BY DEF Touch
  <1>3. Live' = Live
    BY <1>1, <1>2 DEF Live, RunFields
  <1> QED
    BY <1>1, <1>3 DEF Touch

\* Stop only marks the run.
LEMMA StopTells ==
    ASSUME Covered, RunsTyped, RequestStop
    PROVE  /\ Live' = Live
           /\ \A run \in Live :
                 /\ DOMAIN runs'[run] = DOMAIN runs[run]
                 /\ \A field \in RunFields \ { "aborted" } : runs'[run][field] = runs[run][field]
  <1>1. controller \in Live /\ runs' = [runs EXCEPT ![controller].aborted = TRUE]
    BY DEF RequestStop, RunsTyped
  <1>2. controller \in RunId /\ DOMAIN runs[controller] = RunFields
    BY <1>1 DEF Live, Covered, Sweeps, Shape
  <1>3. runs'[controller] = [runs[controller] EXCEPT !.aborted = TRUE]
    BY <1>1, <1>2 DEF RunsTyped
  <1>4. \A run \in RunId \ { controller } : runs'[run] = runs[run]
    BY <1>1 DEF RunsTyped
  <1>5. \A field \in RunFields \ { "aborted" } : runs'[controller][field] = runs[controller][field]
    BY <1>2, <1>3 DEF RunFields
  <1>6. Live' = Live
    BY <1>1, <1>2, <1>4, <1>5 DEF Live, RunFields
  <1>7. DOMAIN runs'[controller] = DOMAIN runs[controller]
    BY <1>3
  <1> QED
    BY <1>4, <1>5, <1>6, <1>7 DEF Live

\* A request waits, or a run is under way, only if no deletion is.
LEMMA NoDeletionStays ==
    ASSUME Covered, RunsTyped, IInv, Overlap = FALSE, [Next]_vars
    PROVE  NoDeletion'
  <1>0. NoDeletion
    BY DEF Covered
  <1>1. ASSUME UNCHANGED << runs, starts >>, deletions # { } \/ deletions' = deletions
        PROVE  NoDeletion'
    <2>1. Live' = Live
      BY <1>1 DEF Live
    <2> QED
      BY <1>0, <1>1, <2>1 DEF NoDeletion
  <1>2. CASE RunStep
    <2>1. PICK run \in RunId : RunStepOf(run)
      BY <1>2 DEF RunStep, RunStepOf
    <2>2. run \in Live
      BY <2>1, RunStepIsOfLive
    <2>3. Live' \subseteq Live
      BY <2>1, RunStepCases, MovesKeepsSlot, EndsKeepsSlot DEF RunStepOf, IInv
    <2>4. UNCHANGED << starts, deletions >>
      BY <2>1 DEF RunStepOf, ListNext, LookAt, ListRejects, ListDirectory, RestatFile,
         ForgetVanished, Query, HashingEnds, HashingStops, HashNext, ReadFile, ReadFails,
         ClearResults, SaveGroups, RunUnchanged, requestVars
    <2> QED
      BY <1>0, <2>2, <2>3, <2>4 DEF NoDeletion
  <1>3. CASE RequestStop
    <2>1. UNCHANGED << starts, deletions >>
      BY <1>3 DEF RequestStop
    <2> QED
      BY <1>0, <1>3, <2>1, StopTells DEF NoDeletion
  <1>4. CASE \E root \in ScanRoots, includeFolders \in FolderModes :
                RequestScan(root, includeFolders)
    BY <1>4 DEF RequestScan, Undisturbed, NoDeletion
  <1>5. CASE \E index \in DOMAIN starts : Inspected(index)
    <2>1. starts # << >> /\ deletions' = deletions
      BY <1>5 DEF Inspected
    <2> QED
      BY <1>0, <2>1 DEF NoDeletion
  <1>6. CASE \E scope \in Refreshable : RequestRefresh(scope)
    BY <1>6 DEF RequestRefresh, Undisturbed, NoDeletion
  <1>7. CASE \E path \in Deletable : RequestDelete(path)
    <2>1. Live = { } /\ starts = << >> /\ UNCHANGED << runs, starts >>
      BY <1>7 DEF RequestDelete, Undisturbed, IInv, OneSlot
    <2>2. Live' = { }
      BY <2>1 DEF Live
    <2> QED
      BY <2>1, <2>2 DEF NoDeletion
  <1>8. CASE \E deletion \in deletions :
                Described(deletion) \/ MoveToTrash(deletion) \/ RemoveDeleted(deletion)
    BY <1>1, <1>8 DEF Described, MoveToTrash, RemoveDeleted
  <1>9. CASE \E path \in Ignorable : SetIgnored(path) \/ ClearIgnored(path)
    BY <1>1, <1>9 DEF SetIgnored, ClearIgnored
  <1>10. ASSUME NEW changed, Touch(changed), starts' = starts
         PROVE  NoDeletion'
    BY <1>0, <1>10, TouchTells DEF NoDeletion
  <1>11. CASE Restart
    BY <1>11 DEF Restart, NoDeletion
  <1>12. CASE UNCHANGED vars
    BY <1>1, <1>12 DEF vars, requestVars
  <1> QED
    BY <1>2, <1>3, <1>4, <1>5, <1>6, <1>7, <1>8, <1>9, <1>10, <1>11, <1>12
    DEF Next, Edit, RemoveDir

\* What is above a place is above its parent.
LEMMA AboveItsParent ==
    ASSUME NEW place \in Place
    PROVE  Lineage(place) \subseteq Lineage(ParentPath(place)) \cup { place }
  <1>1. place \in Seq(STRING) /\ Len(place) \in Nat /\ Len(place) > 0
    BY ContentAssumption, LenProperties, EmptySeq DEF Root
  <1> SUFFICES ASSUME NEW k \in 0..Len(place), k # Len(place)
               PROVE  SubSeq(place, 1, k) \in Lineage(ParentPath(place))
    <2>1. SubSeq(place, 1, Len(place)) = place
      BY <1>1
    <2> QED
      BY <2>1 DEF Lineage
  <1> DEFINE last == Len(place) - 1
  <1>2. k \in 0..last /\ last \in 0..Len(place)
    BY <1>1
  <1> HIDE DEF last
  <1>3. /\ Len(SubSeq(place, 1, last)) = last
        /\ SubSeq(SubSeq(place, 1, last), 1, k) = SubSeq(place, 1, k)
    <2>1. ASSUME NEW n \in 0..Len(place), NEW j \in 0..n
          PROVE  /\ Len(SubSeq(place, 1, n)) = n
                 /\ SubSeq(SubSeq(place, 1, n), 1, j) = SubSeq(place, 1, j)
      BY <1>1
    <2> QED
      BY <1>2, <2>1
  <1>4. SubSeq(place, 1, k) \in Lineage(SubSeq(place, 1, last))
    <2> DEFINE parent == SubSeq(place, 1, last)
    <2>1. k \in 0..Len(parent) /\ SubSeq(place, 1, k) = SubSeq(parent, 1, k)
      BY <1>2, <1>3
    <2> HIDE DEF parent
    <2>2. SubSeq(parent, 1, k) \in Lineage(parent)
      BY <2>1 DEF Lineage
    <2> QED
      BY <2>1, <2>2 DEF parent
  <1> QED
    BY <1>4 DEF ParentPath, last

\* A directory goes with all that is in it.
LEMMA RemovalIsWhole ==
    ASSUME Whole, DiskTyped, NEW path,
           dirs' = { dir \in dirs : ~IsWithinSubtree(dir, path) },
           \A file \in File : Exists(file)' => Exists(file) /\ ~IsWithinSubtree(file, path)
    PROVE  Whole'
  <1> SUFFICES ASSUME NEW place \in Place, place \in dirs' \/ (place \in File /\ Exists(place)'),
                      NEW above \in Lineage(place) \cap Dir
               PROVE  above \in dirs'
    BY DEF Whole, Exists
  <1>1. place \in dirs \/ (place \in File /\ Exists(place))
    OBVIOUS
  <1>2. above \in dirs /\ ~IsWithinSubtree(place, path)
    BY <1>1 DEF Whole
  <1>3. ~IsWithinSubtree(above, path)
    BY <1>2, PathFacts DEF IsWithinSubtree
  <1> QED
    BY <1>2, <1>3

\* No step leaves anything without the directories above it.
LEMMA WholeStays ==
    ASSUME Whole, DiskTyped, [Next]_vars
    PROVE  Whole'
  <1>0. disk = [file \in File |-> disk[file]] /\ \A file \in File : disk[file] \in Facts
    BY DEF DiskTyped
  <1>1. CASE UNCHANGED diskVars
    BY <1>1 DEF diskVars, Whole, Exists
  <1>2. ASSUME NEW deletion, MoveToTrash(deletion), ~ UNCHANGED diskVars
        PROVE  Whole'
    <2> DEFINE path == deletion.path
    <2>1. /\ disk' = [file \in File |->
               IF file \in Under(path) THEN [disk[file] EXCEPT !.content = NoSum]
                                       ELSE disk[file]]
          /\ dirs' = { dir \in dirs : ~IsWithinSubtree(dir, path) }
      BY <1>2 DEF MoveToTrash
    <2>2. \A file \in File : Exists(file)' => Exists(file) /\ ~IsWithinSubtree(file, path)
      <3> SUFFICES ASSUME NEW file \in File, Exists(file)'
                   PROVE  Exists(file) /\ ~IsWithinSubtree(file, path)
        OBVIOUS
      <3>1. CASE file \in Under(path)
        <4>1. disk'[file] = [disk[file] EXCEPT !.content = NoSum]
          BY <2>1, <3>1
        <4>2. disk'[file].content = NoSum
          BY <1>0, <4>1 DEF Facts
        <4> QED
          BY <4>2 DEF Exists
      <3>2. CASE file \notin Under(path)
        BY <2>1, <3>2 DEF Exists, Under
      <3> QED
        BY <3>1, <3>2
    <2> QED
      BY <2>1, <2>2, RemovalIsWhole
  <1>3. ASSUME NEW path, RemoveDir(path)
        PROVE  Whole'
    <2>1. /\ dirs' = { dir \in dirs : ~IsWithinSubtree(dir, path) }
          /\ disk' = [file \in File |->
               IF file \in Under(path) /\ Exists(file)
               THEN [content |-> NoSum, mtime |-> disk[file].mtime + 1]
               ELSE disk[file]]
      BY <1>3 DEF RemoveDir
    <2>2. \A file \in File : Exists(file)' => Exists(file) /\ ~IsWithinSubtree(file, path)
      BY <2>1 DEF Exists, Under
    <2> QED
      BY <2>1, <2>2, RemovalIsWhole
  <1>4. ASSUME NEW edit \in Edits, Edit(edit[1], edit[2])
        PROVE  Whole'
    <2> DEFINE file == edit[1]
    <2>1. /\ file \in File /\ ParentPath(file) \in dirs /\ dirs' = dirs /\ dirs \subseteq Dir
          /\ \A other \in File : other # file => disk'[other] = disk[other]
      BY <1>0, <1>4, ScanAssumption DEF Edit, DiskTyped
    <2>2. file \in Place /\ ParentPath(file) \in Place /\ file \notin Dir
      BY <2>1, ContentAssumption DEF Place
    <2>3. Lineage(file) \cap Dir \subseteq dirs
      BY <2>1, <2>2, AboveItsParent DEF Whole
    <2> HIDE DEF file
    <2> SUFFICES ASSUME NEW place \in Place,
                        place \in dirs \/ (place \in File /\ Exists(place)')
                 PROVE  Lineage(place) \cap Dir \subseteq dirs
      BY <2>1 DEF Whole, Exists
    <2>4. CASE place = file
      BY <2>3, <2>4
    <2>5. CASE place # file
      <3>1. place \in dirs \/ (place \in File /\ Exists(place))
        BY <2>1, <2>5 DEF Exists
      <3> QED
        BY <3>1 DEF Whole
    <2> QED
      BY <2>4, <2>5
  <1>5. UNCHANGED diskVars \/ (\E deletion : MoveToTrash(deletion))
        \/ (\E path : RemoveDir(path)) \/ (\E edit \in Edits : Edit(edit[1], edit[2]))
    BY DEF Next, RunStep, RequestStop, RequestScan, Inspected, RequestRefresh, RequestDelete,
       Described, RemoveDeleted, SetIgnored, ClearIgnored, Restart, vars, ListNext, LookAt,
       ListRejects, ListDirectory, RestatFile, ForgetVanished, Query, HashingEnds,
       HashingStops, HashNext, ReadFile, ReadFails, ClearResults, SaveGroups, RunUnchanged
  <1> QED
    BY <1>1, <1>2, <1>3, <1>4, <1>5

\* At first nothing runs and every directory is there.
LEMMA InitCovered == Init => Covered
  <1> SUFFICES ASSUME Init PROVE Covered
    OBVIOUS
  <1>1. Live = { } /\ deletions = { } /\ dirs = Dir
    BY DEF Init, Live, NoRun
  <1>2. HeadsFirst(files)
    BY DEF Init, HeadsFirst, NoFile
  <1> QED
    BY <1>1, <1>2 DEF Covered, NoDeletion, Whole

\* The steps that are not a run's keep what it covers.
LEMMA OutsideCovers ==
    ASSUME Covered, Truth, IInv, Overlap = FALSE, [Next]_vars, ~RunStep
    PROVE  HeadsFirst(files') /\ \A run \in Live' : Sweeps(runs'[run], files', disk')
  <1>0. RunsTyped /\ DiskTyped /\ StatusTyped /\ HeadsFirst(files)
        /\ NoDeletion /\ OneSlot /\ OneStart /\ files \in [File -> FileRow]
        /\ \A run \in Live : Sweeps(runs[run], files, disk)
    BY DEF Truth, Typed, TablesTyped, IInv, Covered
  <1>1. CASE UNCHANGED << runs, files, disk >>
    <2>1. Live' = Live
      BY <1>1 DEF Live
    <2> QED
      BY <1>0, <1>1, <2>1
  <1>2. CASE RequestStop
    <2>1. UNCHANGED << files, disk >>
      BY <1>2 DEF RequestStop, tables, diskVars
    <2>2. /\ Live' = Live
          /\ \A run \in Live :
                /\ DOMAIN runs'[run] = DOMAIN runs[run]
                /\ \A field \in RunFields \ { "aborted" } : runs'[run][field] = runs[run][field]
      BY <1>0, <1>2, StopTells
    <2>3. \A run \in Live : runs'[run].missed = runs[run].missed
      BY <2>2 DEF RunFields
    <2> QED
      BY <1>0, <2>1, <2>2, <2>3, OthersCover
  <1>3. CASE \E root \in ScanRoots, includeFolders \in FolderModes :
                RequestScan(root, includeFolders)
    BY <1>1, <1>3 DEF RequestScan, tables, diskVars
  <1>4. ASSUME NEW index \in DOMAIN starts, Inspected(index)
        PROVE  HeadsFirst(files') /\ \A run \in Live' : Sweeps(runs'[run], files', disk')
    <2>1. starts # << >> /\ starts[index] \in Start /\ UNCHANGED << files, disk >>
      BY <1>0, <1>4 DEF Inspected, StatusTyped, tables, diskVars
    <2>2. Live = { } /\ starts[index].root \in Place
      BY <1>0, <2>1 DEF OneStart, Start, Place
    <2>3. CASE UNCHANGED runs
      BY <1>1, <2>1, <2>3
    <2>4. CASE Begin("scan", starts[index].root, status.seq + 1, starts[index].folders, {})
      BY <1>0, <2>1, <2>2, <2>4, BeginCovers
    <2> QED
      BY <1>4, <2>3, <2>4 DEF Inspected
  <1>5. ASSUME NEW scope \in Refreshable, RequestRefresh(scope)
        PROVE  HeadsFirst(files') /\ \A run \in Live' : Sweeps(runs'[run], files', disk')
    <2>1. /\ Live = { } /\ UNCHANGED << files, disk >> /\ scope \in Place
          /\ Begin("refresh", scope, status.seq, status.folders, RecordedUnder(scope))
          /\ RecordedUnder(scope) \in SUBSET Under(scope)
      BY <1>0, <1>5, ScanAssumption DEF RequestRefresh, OneSlot, tables, diskVars, RecordedUnder
    <2> QED
      BY <1>0, <2>1, BeginCovers
  <1>6. CASE \E path \in Deletable : RequestDelete(path)
    BY <1>1, <1>6 DEF RequestDelete, tables, diskVars
  <1>7. ASSUME NEW deletion \in deletions,
               Described(deletion) \/ MoveToTrash(deletion) \/ RemoveDeleted(deletion)
        PROVE  HeadsFirst(files') /\ \A run \in Live' : Sweeps(runs'[run], files', disk')
    <2>1. Live = { } /\ UNCHANGED runs
      BY <1>0, <1>7 DEF NoDeletion, Described, MoveToTrash, RemoveDeleted
    <2>2. Live' = { }
      BY <2>1 DEF Live
    <2>3. CASE files' = files
      BY <1>0, <2>2, <2>3
    <2>4. CASE RemoveDeleted(deletion)
      <3>1. \A file \in File : files'[file] = NoFile \/ files'[file] = files[file]
        BY <1>0, <2>4 DEF RemoveDeleted
      <3>2. HeadsFirst(files')
        BY <1>0, <3>1 DEF HeadsFirst, NoFile
      <3> QED
        BY <2>2, <3>2
    <2> QED
      BY <1>7, <2>3, <2>4 DEF Described, MoveToTrash, tables
  <1>8. CASE \E path \in Ignorable : SetIgnored(path) \/ ClearIgnored(path)
    BY <1>1, <1>8 DEF SetIgnored, ClearIgnored, tables, diskVars
  <1>9. ASSUME NEW changed, Touch(changed), files' = files,
               \A file \in File \ changed : disk'[file] = disk[file]
        PROVE  HeadsFirst(files') /\ \A run \in Live' : Sweeps(runs'[run], files', disk')
    BY <1>0, <1>9, TouchTells, OthersCover
  <1>10. ASSUME NEW edit \in Edits, Edit(edit[1], edit[2])
         PROVE  HeadsFirst(files') /\ \A run \in Live' : Sweeps(runs'[run], files', disk')
    <2>1. /\ Touch({ edit[1] }) /\ files' = files
          /\ \A file \in File \ { edit[1] } : disk'[file] = disk[file]
      BY <1>0, <1>10 DEF Edit, tables, DiskTyped
    <2> QED
      BY <1>9, <2>1
  <1>11. ASSUME NEW path \in Removable, RemoveDir(path)
         PROVE  HeadsFirst(files') /\ \A run \in Live' : Sweeps(runs'[run], files', disk')
    <2> DEFINE changed == Under(path) \cup { path, ParentPath(path) }
    <2>1. /\ Touch(changed) /\ files' = files
          /\ \A file \in File \ changed : disk'[file] = disk[file]
      BY <1>11 DEF RemoveDir, tables
    <2> QED
      BY <1>9, <2>1
  <1>12. CASE Restart
    <2>1. Live' = { } /\ files' = files
      BY <1>12 DEF Restart, Live, NoRun, tables
    <2> QED
      BY <1>0, <2>1
  <1>13. CASE UNCHANGED vars
    BY <1>1, <1>13 DEF vars, tables, diskVars
  <1> QED
    BY <1>2, <1>3, <1>4, <1>5, <1>6, <1>7, <1>8, <1>10, <1>11, <1>12, <1>13 DEF Next

\* Every step keeps what the runs cover.
LEMMA NextKeepsCovered ==
    ASSUME Covered, Truth, IInv, Overlap = FALSE, [Next]_vars
    PROVE  Covered'
  <1>1. RunsTyped /\ DiskTyped
    BY DEF Truth, Typed
  <1>2. NoDeletion'
    BY <1>1, NoDeletionStays
  <1>3. Whole'
    BY <1>1, WholeStays DEF Covered
  <1>4. HeadsFirst(files') /\ \A run \in Live' : Sweeps(runs'[run], files', disk')
    <2>1. CASE RunStep
      <3>1. PICK run \in RunId : RunStepOf(run)
        BY <2>1 DEF RunStep, RunStepOf
      <3> QED
        BY <1>1, <3>1, RunStepIsOfLive, RunStepCovers
    <2> QED
      BY <2>1, OutsideCovers
  <1> QED
    BY <1>2, <1>3, <1>4 DEF Covered

-----------------------------------------------------------------------------
(* What a finished run reports *)

\* What is strictly above a path is shorter.
LEMMA AboveIsShorter ==
    ASSUME NEW path \in Seq(STRING), NEW above \in Lineage(path), above # path
    PROVE  Len(path) \in Nat /\ Len(above) \in Nat /\ Len(above) < Len(path)
  <1>1. PICK k \in 0..Len(path) : above = SubSeq(path, 1, k)
    BY DEF Lineage
  <1>2. Len(path) \in Nat /\ SubSeq(path, 1, Len(path)) = path
    OBVIOUS
  <1>3. k # Len(path)
    BY <1>1, <1>2
  <1>a. Len(above) = k
    BY <1>1
  <1> DEFINE n == Len(path)
             m == Len(above)
  <1>4. n \in Nat /\ k \in 0..n /\ k # n /\ m = k
    BY <1>2, <1>3, <1>a
  <1> HIDE DEF n, m
  <1>5. n \in Nat /\ m \in Nat /\ m < n
    BY <1>4
  <1> QED
    BY <1>5 DEF n, m

\* Groups that reach two files, by one of their folders or by themselves.
Reaches(group, one, other) == \A path \in { one, other } : Lineage(path) \cap group.paths # { }

\* Of the groups of folders that hold two files, one is explained by no other.
LEMMA SomeGroupStands ==
    ASSUME NEW one \in File, NEW other \in File, NEW folderGroups,
           NEW first \in folderGroups, Reaches(first, one, other)
    PROVE  \E group \in folderGroups :
              Reaches(group, one, other) /\ ~ExplainedByOne(group.paths, folderGroups)
  <1> DEFINE Depths == { n \in Nat : \E group \in folderGroups :
                            /\ Reaches(group, one, other)
                            /\ \E path \in Lineage(one) \cap group.paths : Len(path) = n }
  <1>0. one \in Place /\ other \in Place
    BY DEF Place
  <1>1. \A path \in Lineage(one) : Len(path) \in Nat
    BY <1>0, PathFacts, LenProperties
  <1>2. ASSUME NEW group \in folderGroups, Reaches(group, one, other),
               NEW path \in Lineage(one) \cap group.paths
        PROVE  Len(path) \in Depths
    BY <1>1, <1>2
  <1>3. Depths # { }
    <2>1. PICK path \in Lineage(one) \cap first.paths : TRUE
      BY DEF Reaches
    <2> QED
      BY <1>2, <2>1
  <1>4. PICK n \in Depths : \A m \in Depths : n <= m
    <2>1. Depths \in SUBSET Nat
      OBVIOUS
    <2> HIDE DEF Depths
    <2> QED
      BY <1>3, <2>1, LeastNatural
  <1>5. PICK group \in folderGroups, path \in Lineage(one) :
           path \in group.paths /\ Reaches(group, one, other) /\ Len(path) = n
    BY <1>4
  <1> HIDE DEF Depths
  <1>6. ASSUME ExplainedByOne(group.paths, folderGroups)
        PROVE  FALSE
    <2>1. PICK higher \in folderGroups :
             \A p \in group.paths : (Lineage(p) \ { p }) \cap higher.paths # { }
      BY <1>6 DEF ExplainedByOne
    <2>2. PICK above \in Lineage(path) : above # path /\ above \in higher.paths
      BY <1>5, <2>1
    <2>3. above \in Lineage(one) /\ path \in Seq(STRING)
      BY <1>0, <1>5, <2>2, PathFacts
    <2>4. Reaches(higher, one, other)
      <3>1. PICK there \in Lineage(other) : there \in group.paths
        BY <1>5 DEF Reaches
      <3>2. PICK over \in Lineage(there) : over \in higher.paths
        BY <2>1, <3>1
      <3>3. over \in Lineage(other)
        BY <1>0, <3>1, <3>2, PathFacts
      <3> QED
        BY <2>2, <2>3, <3>2, <3>3 DEF Reaches
    <2>5. Len(above) \in Depths
      BY <1>2, <2>2, <2>3, <2>4
    <2>6. n <= Len(above) /\ Len(above) \in Nat /\ n \in Nat /\ Len(above) < n
      BY <1>4, <1>5, <2>2, <2>3, <2>5, AboveIsShorter
    <2> DEFINE m == Len(above)
    <2>7. n <= m /\ m \in Nat /\ n \in Nat /\ m < n
      BY <2>6
    <2> HIDE DEF m
    <2> QED
      BY <2>7
  <1> QED
    BY <1>5, <1>6

\* Two files with the same full checksum are reported together.
LEMMA CopiesAreGrouped ==
    ASSUME NEW table, NEW dirTable, NEW S, NEW seq, NEW includeFolders,
           NEW one \in Hashed(table, seq), NEW other \in Hashed(table, seq),
           one # other, table[one].full = table[other].full,
           ~IsIgnored(one, S), ~IsIgnored(other, S)
    PROVE  Together(one, other, BuildGroups(table, dirTable, S, seq, includeFolders))
  <1> DEFINE tree == DeriveFolders(table, dirTable, S, seq)
             found == FindDuplicateFileGroups(table, seq)
             folderGroups == IF includeFolders
                             THEN WithoutIgnored(FindDuplicateDirectoryGroups(tree), S)
                             ELSE {}
             copies == { file \in Hashed(table, seq) : table[file].full = table[one].full }
             whole == Group("file", { << << >>, table[one].full >> }, copies)
             kept == { path \in copies : ~IsIgnored(path, S) }
             group == [whole EXCEPT !.paths = { path \in @ : ~IsIgnored(path, S) }]
  <1>1. /\ one \in File /\ other \in File /\ copies \subseteq File
        /\ one \in kept /\ other \in kept /\ kept \subseteq File
    BY DEF Hashed, Readable
  <1>2. whole \in found
    BY DEF FindDuplicateFileGroups, FindSharedContentPaths
  <1>3. group.paths = kept
    BY DEF Group
  <1>4. AreMany(group)
    <2>1. IsFiniteSet(kept)
      BY <1>1, ContentAssumption, FS_Subset DEF Place
    <2>2. Cardinality({ one, other }) = 2 /\ Cardinality({ one, other }) <= Cardinality(kept)
          /\ Cardinality(kept) \in Nat
      <3>1. { one, other } \subseteq kept
        BY <1>1
      <3>2. Cardinality({ one, other }) = 2
        <4>1. IsFiniteSet({ one }) /\ Cardinality({ one }) = 1
          BY FS_Singleton
        <4>2. Cardinality({ one } \cup { other }) = 1 + 1
          BY <4>1, FS_AddElement
        <4>3. { one } \cup { other } = { one, other }
          OBVIOUS
        <4> QED
          BY <4>2, <4>3
      <3> QED
        BY <2>1, <3>1, <3>2, FS_Subset, FS_CardinalityType
    <2> HIDE DEF group, kept
    <2> QED
      BY <1>3, <2>2 DEF AreMany
  <1>5. group \in WithoutIgnored(found, S)
    BY <1>2, <1>4 DEF WithoutIgnored
  <1>6. one \in Lineage(one) /\ other \in Lineage(other)
    BY <1>1, PathFacts DEF Place
  <1>7. Reaches(group, one, other)
    BY <1>1, <1>3, <1>6 DEF Reaches
  <1>8. BuildGroups(table, dirTable, S, seq, includeFolders)
           = { g \in folderGroups \cup WithoutIgnored(found, S) :
                 ~ExplainedByOne(g.paths, folderGroups) }
    BY DEF BuildGroups
  <1> HIDE DEF folderGroups, found, group
  <1>9. CASE ~ExplainedByOne(group.paths, folderGroups)
    BY <1>5, <1>7, <1>8, <1>9 DEF Together, Reaches
  <1>10. CASE ExplainedByOne(group.paths, folderGroups)
    <2>1. PICK first \in folderGroups : Reaches(first, one, other)
      BY <1>1, <1>3, <1>10 DEF ExplainedByOne, Reaches
    <2>2. PICK g \in folderGroups :
             Reaches(g, one, other) /\ ~ExplainedByOne(g.paths, folderGroups)
      BY <1>1, <2>1, SomeGroupStands
    <2> QED
      BY <1>8, <2>2 DEF Together, Reaches
  <1> QED
    BY <1>9, <1>10

\* A run that was not cut short reports all the copies it knows of.
LEMMA SavedFindsAll ==
    ASSUME Covered, Truth, NEW run \in Live, SaveGroups(run), ~runs[run].cut,
           NEW one \in Known(run), NEW other \in Known(run), one # other,
           disk[one].content = disk[other].content
    PROVE  Together(one, other, results'.groups)
  <1> DEFINE now == runs[run]
  <1>1. /\ Sweeps(now, files, disk) /\ now.at = "save" /\ ~now.cut
        /\ now.seq # 0 /\ one \in File /\ other \in File
    BY DEF Covered, SaveGroups, Truth, Typed, RunsTyped, RunTyped, Known
  <1>2. ASSUME NEW file \in Known(run)
        PROVE  file \in File /\ Ok(now, files, disk, file)
    <2>1. file \in File /\ Clear(now, disk, file)
      BY DEF Known, Clear, Exists
    <2>2. CASE IsWithinSubtree(file, now.scope)
      BY <1>1, <2>1, <2>2 DEF Sweeps, Listed, Under, WorkStates, Ok
    <2>3. CASE ~IsWithinSubtree(file, now.scope)
      BY <2>1, <2>3 DEF Known, Right, Ok
    <2> QED
      BY <2>1, <2>2, <2>3
  <1>3. Paired(now, files, disk, one) /\ Paired(now, files, disk, other)
    BY <1>2 DEF Paired
  <1>4. files[one].full # NoSum /\ files[other].full # NoSum
    BY <1>1, <1>3 DEF Sweeps, Hashes
  <1>5. ASSUME NEW file \in File, Ok(now, files, disk, file), files[file].full # NoSum
        PROVE  /\ file \in Hashed(files, now.seq) /\ ~IsIgnored(file, now.ignored)
               /\ files[file].full = disk[file].content
    <2>1. files[file].seq = now.seq /\ ~files[file].failed /\ files[file].facts = disk[file]
      BY <1>5 DEF Ok, Right
    <2>2. TrueSums(files[file], disk[file])
      BY <1>1, <2>1 DEF Truth, RowsHold
    <2> QED
      BY <1>5, <2>1, <2>2 DEF TrueSums, Ok, Clear, Hashed, Readable
  <1>6. /\ one \in Hashed(files, now.seq) /\ other \in Hashed(files, now.seq)
        /\ ~IsIgnored(one, now.ignored) /\ ~IsIgnored(other, now.ignored)
        /\ files[one].full = files[other].full
    BY <1>2, <1>4, <1>5
  <1>7. results'.groups = BuildGroups(files, folders, now.ignored, now.seq, FoldersDerived(run))
    BY DEF SaveGroups
  <1> HIDE DEF now
  <1> QED
    BY <1>6, <1>7, CopiesAreGrouped

\* A run finishes by saving its results, and was not cut short.
LEMMA FinishedIsSaved ==
    ASSUME Truth, IInv, [Next]_vars, NEW run \in Live, EndsFinished(run)
    PROVE  SaveGroups(run) /\ ~runs[run].cut
  <1>0. /\ Live = { run } /\ run \in RunId /\ status.state = "running" /\ starts = << >>
        /\ runs[run].at = "save" /\ status'.state = "finished"
    BY DEF IInv, OneSlot, OneStart, IsRunning, EndsFinished, Live
  <1>1. status' # status
    BY <1>0
  <1>2. CASE RunStep
    <2>1. PICK other \in RunId : RunStepOf(other)
      BY <1>2 DEF RunStep, RunStepOf
    <2>2. other = run
      BY <1>0, <2>1, RunStepIsOfLive DEF Truth, Typed
    <2>3. SaveGroups(run)
      BY <1>0, <2>1, <2>2 DEF RunStepOf, ListNext, LookAt, ListRejects, ListDirectory, RestatFile,
         ForgetVanished, Query, HashingEnds, HashingStops, HashNext, ReadFile, ReadFails,
         ClearResults
    <2>4. status' = [status EXCEPT !.state = Outcome(run)]
      BY <2>3 DEF SaveGroups, Finish
    <2>5. Outcome(run) = "finished"
      BY <1>0, <2>4 DEF IInv, OneSlot
    <2> QED
      BY <2>3, <2>5 DEF Outcome
  <1>3. CASE \E index \in DOMAIN starts : Inspected(index)
    BY <1>0, <1>3
  <1>4. CASE \E scope \in Refreshable : RequestRefresh(scope)
    BY <1>0, <1>4 DEF RequestRefresh, IsRunning
  <1>5. CASE Restart
    <2>1. status' = [status EXCEPT !.state = "stopped"]
      BY <1>0, <1>5 DEF Restart
    <2> QED
      BY <1>0, <2>1 DEF IInv, OneSlot
  <1> QED
    BY <1>1, <1>2, <1>3, <1>4, <1>5 DEF Next, RequestStop, RequestScan, RequestDelete, Described,
       MoveToTrash, RemoveDeleted, SetIgnored, ClearIgnored, Edit, RemoveDir, vars

\* FR-012, FR-015, FR-045: when a scan or a refresh finishes, two files it
\* knows of that hold the same content are in one group, or in the folders of
\* one group; whatever is edited, removed, ignored or recorded of earlier
\* scans meanwhile, as long as no request is made while another is checked.
THEOREM EveryDuplicateFound ==
    ASSUME Overlap = FALSE
    PROVE  Spec => FindsEveryDuplicate
  <1>1. Truth /\ IInv /\ [Next]_vars => Truth'
    BY NextKeepsTruth DEF IInv
  <1>2. Covered /\ Truth /\ IInv /\ [Next]_vars => Covered'
    BY NextKeepsCovered
  <1>3. ASSUME Covered, Truth, IInv, [Next]_vars
        PROVE  [ \A run \in Live :
                   EndsFinished(run) =>
                     \A one, other \in Known(run) :
                        (one # other /\ disk[one].content = disk[other].content)
                           => Together(one, other, results'.groups) ]_vars
    BY <1>3, FinishedIsSaved, SavedFindsAll
  <1> QED
    BY InitTruth, InitCovered, <1>1, <1>2, <1>3, Inductive, PTL DEF Spec, FindsEveryDuplicate
=============================================================================
