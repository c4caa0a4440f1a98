----------------------------- MODULE SerialQueue -----------------------------
(***************************************************************************)
(* What dovi-manager's job table promises: jobs are numbered as they are   *)
(* submitted, at most one runs, the one started is the oldest that waits,  *)
(* and a job that ran or was withdrawn never comes back.                   *)
(***************************************************************************)
EXTENDS Naturals

VARIABLES
    submitted,   \* number of jobs ever submitted; job ids are 1 .. submitted
    waiting,     \* jobs not started yet
    active,      \* the running job, if any
    over         \* jobs that ended or were withdrawn

vars == <<submitted, waiting, active, over>>

Init ==
    /\ submitted = 0
    /\ waiting = {}
    /\ active = {}
    /\ over = {}

Submit ==
    /\ submitted' = submitted + 1
    /\ waiting' = waiting \cup {submitted + 1}
    /\ UNCHANGED <<active, over>>

Withdraw(i) ==
    /\ waiting' = waiting \ {i}
    /\ over' = over \cup {i}
    /\ UNCHANGED <<submitted, active>>

Begin(i) ==
    /\ active = {}
    /\ \A j \in waiting : i <= j
    /\ waiting' = waiting \ {i}
    /\ active' = {i}
    /\ UNCHANGED <<submitted, over>>

Settle(i) ==
    /\ active' = active \ {i}
    /\ over' = over \cup {i}
    /\ UNCHANGED <<submitted, waiting>>

Next ==
    \/ Submit
    \/ \E i \in waiting : Withdraw(i) \/ Begin(i)
    \/ \E i \in active : Settle(i)

Spec == Init /\ [][Next]_vars

=============================================================================
