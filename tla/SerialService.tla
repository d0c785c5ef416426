---------------------------- MODULE SerialService ----------------------------
(***************************************************************************)
(* What a serial queue of long-running jobs promises: requests are taken   *)
(* one at a time, in the order they came, and each of them gets its turn.  *)
(* A restart forgets the requests; it is the only way to lose one.         *)
(***************************************************************************)
EXTENDS Sequences

CONSTANTS
    Request,   \* what can be asked for
    Nobody     \* no request is being served; never a member of Request

VARIABLES
    waiting,   \* the requests accepted and not yet taken up
    served     \* the request being served, or Nobody

vars == << waiting, served >>

Init == waiting = << >> /\ served = Nobody

Ask(request) ==
    \/ /\ served = Nobody
       /\ served' = request
       /\ waiting' = waiting
    \/ /\ served # Nobody
       /\ waiting' = Append(waiting, request)
       /\ served' = served

\* The request served is over; the next one, if any, begins at once.
Finish ==
    /\ served # Nobody
    /\ IF waiting = << >>
          THEN served' = Nobody /\ waiting' = waiting
          ELSE served' = Head(waiting) /\ waiting' = Tail(waiting)

Forget == waiting' = << >> /\ served' = Nobody

Next == Finish \/ Forget \/ \E request \in Request : Ask(request)

Spec == Init /\ [][Next]_vars

FairSpec == Spec /\ WF_vars(Finish)
=============================================================================
