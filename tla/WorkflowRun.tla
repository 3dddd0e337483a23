---------------------------- MODULE WorkflowRun ----------------------------
(***************************************************************************)
(* What one run of a workflow promises, with no goroutine, channel or      *)
(* counter in sight: a step is released by its gate or as the fallback of  *)
(* a failed step, runs, and ends in exactly one of SUCCEEDED, FAILED and   *)
(* SKIPPED; what is still PENDING is given up only when nothing is READY   *)
(* or RUNNING.  Scheduler implements this specification.                   *)
(***************************************************************************)
EXTENDS WorkflowGraph

CONSTANTS
    SeedCompleted,  \* the steps a resumed run takes as already succeeded
    SeedBranches    \* and the branch each of them took

VARIABLES
    status,    \* the status of each step
    branch     \* the branch label of each step that has succeeded

vars == <<status, branch>>

Final == {"SUCCEEDED", "FAILED", "SKIPPED"}

Init ==
    /\ status = [s \in Step |-> IF s \in Roots THEN "READY" ELSE "PENDING"]
    /\ branch = [s \in Step |-> NoBranch]

(* A resumed run starts from the successes of the prior run. *)
Resume ==
    /\ \A s \in Step : status[s] \in {"READY", "PENDING"}
    /\ status' = [s \in Step |-> IF s \in SeedCompleted THEN "SUCCEEDED" ELSE status[s]]
    /\ branch' = [s \in Step |-> IF s \in SeedCompleted THEN SeedBranches[s] ELSE branch[s]]

Release(t) ==
    /\ status[t] = "PENDING"
    /\ GateOpen(status, branch, t) \/ FallbackDue(status, t)
    /\ status' = [status EXCEPT ![t] = "READY"]
    /\ UNCHANGED branch

Start(s) ==
    /\ status[s] = "READY"
    /\ status' = [status EXCEPT ![s] = "RUNNING"]
    /\ UNCHANGED branch

Succeed(s) ==
    /\ status[s] = "RUNNING"
    /\ status' = [status EXCEPT ![s] = "SUCCEEDED"]
    /\ \E b \in BranchName : branch' = [branch EXCEPT ![s] = b]

(* A step that ran may fail, be skipped by its expression or run again. *)
Settle(s, outcome) ==
    /\ status[s] = "RUNNING"
    /\ status' = [status EXCEPT ![s] = outcome]
    /\ UNCHANGED branch

GiveUpPending ==
    /\ \A s \in Step : status[s] \notin {"READY", "RUNNING"}
    /\ status' = [s \in Step |-> IF status[s] = "PENDING" THEN "SKIPPED" ELSE status[s]]
    /\ UNCHANGED branch

StepNext(s) ==
    \/ Release(s)
    \/ Start(s)
    \/ Succeed(s)
    \/ \E outcome \in {"FAILED", "SKIPPED", "READY"} : Settle(s, outcome)

Next == Resume \/ GiveUpPending \/ \E s \in Step : StepNext(s)

Spec == Init /\ [][Next]_vars

-----------------------------------------------------------------------------
(* What these steps come to.                                               *)

(* A step that is READY or has been executed is a root, a seed, or has had *)
(* a reason that still holds: neither a later success or failure nor the   *)
(* giving up of others takes it back (scheduler.go 271-298, 322-334).      *)
Reason(t) ==
    \/ t \in Roots \cup SeedCompleted
    \/ GateOpen(status, branch, t) \/ FallbackDue(status, t)

ReleasedForReason ==
    \A t \in Step : status[t] \in {"READY", "RUNNING", "SUCCEEDED", "FAILED"} => Reason(t)

(* A step that has ended has ended for good, with its branch.              *)
EndsAreFinal ==
    [][\A s \in Step : status[s] \in Final => status'[s] = status[s] /\ branch'[s] = branch[s]]_vars
=============================================================================
