----------------------------- MODULE RenamePlan -----------------------------
(***************************************************************************)
(* build-rename-plan.ts: from the renames a checksum search found, the     *)
(* ordered steps that carry them out. The renames form chains and cycles;  *)
(* a chain is done from its end, a cycle is opened by a backup.            *)
(*                                                                         *)
(* A name is a number and localeCompare is their order. `renames` maps the *)
(* left name of each match to its right name.                              *)
(***************************************************************************)
EXTENDS Naturals, Sequences, FiniteSets, Functions

NoName == 0

\* As a sequence, each name after those before it.
InOrder(names) ==
    [i \in 1..Cardinality(names) |->
        CHOOSE name \in names : Cardinality({ other \in names : other < name }) = i - 1]

Earliest(names) == CHOOSE name \in names : \A other \in names : name <= other

Rename(from, to) == [from |-> from, back |-> 0, to |-> to, isBackup |-> FALSE]
Backup(name) == [from |-> name, back |-> 0, to |-> NoName, isBackup |-> TRUE]

\* The last step of a cycle: its source is what the step `back` steps before made.
RenameBackup(back, to) == [from |-> NoName, back |-> back, to |-> to, isBackup |-> FALSE]

\* The names met from `head` on, until one has no rename or leads back to it.
Trail(renames, head) ==
    LET next == [name \in DOMAIN renames \cup Range(renames) \cup { NoName } |->
                    IF name \in DOMAIN renames THEN renames[name] ELSE NoName]
        met[k \in 0..Cardinality(DOMAIN renames)] == IF k = 0 THEN head ELSE next[met[k - 1]]
    IN  [i \in 1..Cardinality(Range(met) \ { NoName }) |-> met[i - 1]]

TailFirst(trail) ==
    [i \in 1..(Len(trail) - 1) |->
        Rename(trail[Len(trail) - i], trail[Len(trail) - i + 1])]

ChainSteps(trail, existing) ==
    LET sink == trail[Len(trail)]
    IN  (IF sink \in existing THEN << Backup(sink) >> ELSE << >>) \o TailFirst(trail)

CycleSteps(trail) ==
    << Backup(trail[Len(trail)]) >> \o TailFirst(trail) \o << RenameBackup(Len(trail), trail[1]) >>

\* Nothing has to move out of the way of these first.
PureSources(renames) == DOMAIN renames \ Range(renames)

\* Mutant of CycleHeads: only chains are looked for.
NoCycles(renames) == {}

\* The first name of each cycle.
CycleHeads(renames) ==
    { name \in DOMAIN renames :
        LET trail == Trail(renames, name)
            last == trail[Len(trail)]
        IN  /\ last \in DOMAIN renames /\ renames[last] = name
            /\ name = Earliest(Range(trail)) }

\* The chains in order, then the cycles.
BuildRenamePlan(renames, existing) ==
    LET heads == InOrder(PureSources(renames)) \o InOrder(CycleHeads(renames))
        plan[i \in 0..Len(heads)] ==
          IF i = 0 THEN << >>
          ELSE plan[i - 1] \o (IF heads[i] \in PureSources(renames)
                                 THEN ChainSteps(Trail(renames, heads[i]), existing)
                                 ELSE CycleSteps(Trail(renames, heads[i])))
    IN  plan[Len(heads)]
=============================================================================
