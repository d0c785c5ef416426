----------------------------- MODULE ScanEngine -----------------------------
(***************************************************************************)
(* infrastructure/scanning/scan-engine.ts: the worker shared by the tools  *)
(* that walk a directory tree. One entry at a time is in flight; the rest  *)
(* wait on a LIFO stack; a Stop drops the queued entries of a subtree and  *)
(* leaves a mark that the loop consults when the entry in flight returns.  *)
(*                                                                         *)
(* The engine is a passive object: every method runs to completion inside  *)
(* the handler that calls it, and the loop runs between two awaits of the  *)
(* per-node step its feature supplies. So the module gives one operator    *)
(* per method and per stretch of the loop, and each feature's module       *)
(* conjoins them with what its own handler does.                           *)
(*                                                                         *)
(* `running` is true exactly while activePath is set (both change in the   *)
(* same synchronous stretch), so one variable stands for the two.          *)
(***************************************************************************)
EXTENDS ScanPaths

VARIABLES
    stack,        \* ScanStack.items: a sequence of entries, popped at its end
    active,       \* the entry in flight, or Idle
    stoppedRoots  \* roots of the Stops seen since the loop last ended

engineVars == << stack, active, stoppedRoots >>

(***************************************************************************)
(* An entry carries its path and the done-set of the incremental scan it   *)
(* belongs to. Mode "full" carries none, and an incremental entry with an  *)
(* empty done-set behaves as a full one, so done = {} stands for both.     *)
(***************************************************************************)
Entry(path, done) == [path |-> path, done |-> done]

\* No directory has an empty name.
Idle == [path |-> << "" >>, done |-> {}]

EntryOf(paths) == [path : paths, done : SUBSET paths]

EngineRunning == active # Idle

QueuedPaths == { stack[i].path : i \in DOMAIN stack }

EngineInit ==
    /\ stack = << >>
    /\ active = Idle
    /\ stoppedRoots = {}

\* enqueue() of each entry in turn: push, then runLoop(), which returns at
\* once when the loop is already running and otherwise pops what was pushed.
EngineEnqueueAll(entries) ==
    /\ IF EngineRunning
          THEN /\ stack' = stack \o entries
               /\ active' = active
          ELSE /\ stack' = stack \o Tail(entries)
               /\ active' = Head(entries)
    /\ stoppedRoots' = stoppedRoots

EngineEnqueue(entry) == EngineEnqueueAll(<< entry >>)

\* Mutant of EngineRequestStops: the queue is left as it is.
StopKeepsQueue(roots) ==
    /\ stoppedRoots' = stoppedRoots \cup roots
    /\ UNCHANGED << stack, active >>

\* requestStop() of each root in turn: remember the root, keep the other
\* entries in their order.
EngineRequestStops(roots) ==
    /\ stoppedRoots' = stoppedRoots \cup roots
    /\ LET kept == { i \in DOMAIN stack :
                       \A root \in roots : ~IsInSubtree(stack[i].path, root) }
       IN  \E position \in Orderings(kept) :
              /\ \A i, j \in DOMAIN position : i < j => position[i] < position[j]
              /\ stack' = [i \in DOMAIN position |-> stack[position[i]]]
    /\ active' = active

EngineRequestStop(root) == EngineRequestStops({ root })

\* The loop's test of the path that has just been processed.
StoppedInFlight ==
    \E root \in stoppedRoots : IsInSubtree(active.path, root)

\* One turn of the loop, from the return of processDirectory to the next
\* await: push the children unless the path was stopped, pop the next entry;
\* an empty stack ends the loop, whose `finally` forgets the stops.
EngineReturn(childPaths) ==
    \E order \in Orderings(IF StoppedInFlight THEN {} ELSE childPaths) :
       LET pushed == stack \o [i \in DOMAIN order |-> Entry(order[i], active.done)]
       IN  IF pushed = << >>
             THEN /\ stack' = << >>
                  /\ active' = Idle
                  /\ stoppedRoots' = {}
             ELSE /\ stack' = SubSeq(pushed, 1, Len(pushed) - 1)
                  /\ active' = pushed[Len(pushed)]
                  /\ stoppedRoots' = stoppedRoots

\* Mutant of CutChildren: the children of a stopped path are only dropped.
ForgetCutChildren(childPaths) == {}

\* The rows the loop marks stopped itself when that path was stopped.
CutChildren(childPaths) == IF StoppedInFlight THEN childPaths ELSE {}

\* processDirectory rejects: only the `finally` runs, the stack is kept.
EngineThrow ==
    /\ EngineRunning
    /\ stack' = stack
    /\ active' = Idle
    /\ stoppedRoots' = {}

\* The process ends: the engine's state is memory only.
EngineLost ==
    /\ stack' = << >>
    /\ active' = Idle
    /\ stoppedRoots' = {}
=============================================================================
