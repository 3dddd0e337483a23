----------------------------- MODULE Scheduler -----------------------------
(***************************************************************************)
(* Scheduler.Run (src/internal/engine/scheduler.go): the main loop that    *)
(* takes steps from readyCh, one goroutine per started step, and the state *)
(* they share.  An action is a region between two points where another     *)
(* goroutine can be seen: a region under mu, one channel operation, one    *)
(* access to the map inboundSatisfied, which no lock protects.             *)
(*                                                                         *)
(* pc[s] is the control point of the call that works for step s:           *)
(*   start    goroutine launched              (106-125)                    *)
(*   skip     skip expression is true         (117-122)                    *)
(*   exec     input and action                (127-157)                    *)
(*   finish   success, to be recorded         (159-163)                    *)
(*   edge, bump, gate, enqueue                scheduleOutbound             *)
(*   failing, backoff, resend, fallback       handleFailure                *)
(* A goroutine whose call has returned still owes the deferred release of  *)
(* its slot and wg.Done: leaving counts those.                             *)
(***************************************************************************)
EXTENDS WorkflowGraph, Integers

CONSTANTS
    MaxParallel,    \* Engine.MaxParallel, the capacity of sem
    MaxRetries,     \* the MaxRetries that DetermineRetry finds for each step
    Outcomes,       \* what executing each step may come to
    Branches,       \* the branch labels a success of each step may return
    SeedCompleted,  \* Engine.SeedCompleted
    SeedBranches,   \* Engine.SeedBranches
    NoStep          \* the value of stepName when Run is not launching one

OutcomeKind == {"skip", "badInput", "error", "success", "unencodable"}

ASSUME ParallelAssumption == MaxParallel \in Nat \ {0}
ASSUME RetriesAssumption == MaxRetries \in [Step -> Nat]
ASSUME OutcomesAssumption == Outcomes \in [Step -> SUBSET OutcomeKind]
ASSUME BranchesAssumption == Branches \in [Step -> SUBSET BranchName]
ASSUME SeedAssumption == SeedCompleted \subseteq Name /\ SeedBranches \in [Step -> BranchName]
ASSUME NoStepAssumption == NoStep \notin Step

VARIABLES
    status,            \* status[s]: the map all goroutines share under mu
    readyCh,           \* the buffered channel of steps to start
    inboundSatisfied,  \* satisfied inbound edges counted so far, unprotected
    completed,         \* succeeded and skipped steps
    failed,            \* failed steps
    context,           \* Engine.Context: what each step left in it
    main,              \* control point of Run
    stepName,          \* the step Run is about to launch
    seeded,            \* seeded steps whose edges are still to be followed
    slots,             \* len(sem)
    leaving,           \* goroutines that only owe their deferred calls
    pc,                \* control point of the call for each step
    branch,            \* branch label of each success
    todo,              \* outbound edges scheduleOutbound still has to count
    edge,              \* the edge it is at
    seen,              \* the count it read for that edge
    retries            \* the count of retries that state.json holds for each step

loopVars == <<main, stepName, seeded>>
goVars == <<slots, leaving>>
tallyVars == <<completed, failed>>
callVars == <<branch, todo, edge, seen>>
vars == <<status, readyCh, inboundSatisfied, tallyVars, context, loopVars,
          goVars, pc, callVars, retries>>

Final == {"SUCCEEDED", "FAILED", "SKIPPED"}
Alive == main # "crashed"
Seeds == SeedCompleted \cap Step
Total == Cardinality(Step)
WithStatus(values) == {s \in Step : status[s] \in values}

-----------------------------------------------------------------------------
(* Lines 26-66: the roots are READY and already in the channel, in the     *)
(* order in which Go happened to iterate over the graph's map.             *)
Init ==
    /\ status = [s \in Step |-> IF s \in Roots THEN "READY" ELSE "PENDING"]
    /\ readyCh \in [1..Cardinality(Roots) -> Roots]
    /\ \A i, j \in DOMAIN readyCh : readyCh[i] = readyCh[j] => i = j
    /\ inboundSatisfied = [t \in Step |-> 0]
    /\ completed = 0 /\ failed = 0
    /\ context = [s \in Step |-> IF s \in Seeds THEN "success" ELSE "none"]
    /\ main = "seed" /\ stepName = NoStep /\ seeded = {}
    /\ slots = 0 /\ leaving = 0
    /\ pc = [s \in Step |-> "none"]
    /\ branch = [s \in Step |-> NoBranch]
    /\ todo = [s \in Step |-> {}]
    /\ edge = [s \in Step |-> 0]
    /\ seen = [s \in Step |-> 0]
    /\ retries = [s \in Step |-> 0]

(* The goroutine of s returns: its deferred calls are still to run. *)
Return(s) ==
    /\ pc' = [pc EXCEPT ![s] = "none"]
    /\ leaving' = leaving + 1
    /\ UNCHANGED slots

Goto(s, label) == pc' = [pc EXCEPT ![s] = label] /\ UNCHANGED goVars

(* Under mu: a PENDING step becomes READY and is sent, any other is left. *)
MarkReady(t) ==
    IF status[t] = "PENDING"
    THEN /\ status' = [status EXCEPT ![t] = "READY"]
         /\ readyCh' = Append(readyCh, t)
    ELSE UNCHANGED <<status, readyCh>>

-----------------------------------------------------------------------------
(* Run: resume seeding (71-86).                                            *)
MarkSeeds ==
    /\ main = "seed"
    /\ status' = [s \in Step |-> IF s \in Seeds THEN "SUCCEEDED" ELSE status[s]]
    /\ branch' = [s \in Step |-> IF s \in Seeds THEN SeedBranches[s] ELSE branch[s]]
    /\ completed' = completed + Cardinality(Seeds)
    /\ seeded' = Seeds
    /\ main' = "seeding"
    /\ UNCHANGED <<readyCh, inboundSatisfied, failed, context, stepName,
                   goVars, pc, todo, edge, seen, retries>>

(* scheduleOutbound runs on Run's own goroutine, one seed at a time. *)
NextSeed ==
    /\ main = "seeding"
    /\ \A s \in Step : pc[s] = "none"
    /\ IF seeded = {}
       THEN /\ main' = "loop"
            /\ UNCHANGED <<seeded, todo, pc>>
       ELSE \E s \in seeded :
            /\ seeded' = seeded \ {s}
            /\ todo' = [todo EXCEPT ![s] = Taken(s, branch[s])]
            /\ pc' = [pc EXCEPT ![s] = "edge"]
            /\ UNCHANGED main
    /\ UNCHANGED <<status, readyCh, inboundSatisfied, tallyVars, context,
                   stepName, goVars, branch, edge, seen, retries>>

(* Run: the test of the main loop (88). *)
TestDone ==
    /\ main = "loop"
    /\ main' = IF completed + failed < Total THEN "select" ELSE "wait"
    /\ UNCHANGED <<status, readyCh, inboundSatisfied, tallyVars, context,
                   stepName, seeded, goVars, pc, callVars, retries>>

(* Run: the receive case (90-98).  Nobody else receives and only Run takes *)
(* a step out of READY, so the receive and the region are one step.        *)
ReceiveUnchecked ==
    /\ main = "select" /\ readyCh # <<>>
    /\ readyCh' = Tail(readyCh)
    /\ status' = [status EXCEPT ![Head(readyCh)] = "RUNNING"]
    /\ stepName' = Head(readyCh)
    /\ main' = "acquire"
    /\ UNCHANGED <<inboundSatisfied, tallyVars, context, seeded, goVars, pc,
                   callVars, retries>>

Receive ==
    /\ main = "select" /\ readyCh # <<>>
    /\ readyCh' = Tail(readyCh)
    /\ IF status[Head(readyCh)] = "READY"
       THEN /\ status' = [status EXCEPT ![Head(readyCh)] = "RUNNING"]
            /\ stepName' = Head(readyCh)
            /\ main' = "acquire"
       ELSE /\ main' = "loop"
            /\ UNCHANGED <<status, stepName>>
    /\ UNCHANGED <<inboundSatisfied, tallyVars, context, seeded, goVars, pc,
                   callVars, retries>>

(* Run: sem and the go statement (100-102). *)
AcquireUnbounded ==
    /\ main = "acquire"
    /\ slots' = slots + 1
    /\ pc' = [pc EXCEPT ![stepName] = "start"]
    /\ main' = "loop" /\ stepName' = NoStep
    /\ UNCHANGED <<status, readyCh, inboundSatisfied, tallyVars, context,
                   seeded, leaving, callVars, retries>>

Acquire ==
    /\ main = "acquire" /\ slots < MaxParallel
    /\ slots' = slots + 1
    /\ pc' = [pc EXCEPT ![stepName] = "start"]
    /\ main' = "loop" /\ stepName' = NoStep
    /\ UNCHANGED <<status, readyCh, inboundSatisfied, tallyVars, context,
                   seeded, leaving, callVars, retries>>

(* Run: the default case is chosen on an empty channel (168), and only     *)
(* later is the status map looked at (173).                                *)
ChooseDefault ==
    /\ main = "select" /\ readyCh = <<>>
    /\ main' = "default"
    /\ UNCHANGED <<status, readyCh, inboundSatisfied, tallyVars, context,
                   stepName, seeded, goVars, pc, callVars, retries>>

(* Run: the region of the default case (169-201); the sleep is no step.    *)
SkipPendingCountedOnce ==
    /\ main = "default"
    /\ main' = "loop"
    /\ IF WithStatus({"READY", "RUNNING"}) = {} /\ WithStatus({"PENDING"}) # {}
       THEN /\ status' = [s \in Step |-> IF status[s] = "PENDING" THEN "SKIPPED" ELSE status[s]]
            /\ completed' = completed + 1
       ELSE UNCHANGED <<status, completed>>
    /\ UNCHANGED <<readyCh, inboundSatisfied, failed, context, stepName,
                   seeded, goVars, pc, callVars, retries>>

SkipPending ==
    /\ main = "default"
    /\ main' = "loop"
    /\ IF WithStatus({"READY", "RUNNING"}) = {} /\ WithStatus({"PENDING"}) # {}
       THEN /\ status' = [s \in Step |-> IF status[s] = "PENDING" THEN "SKIPPED" ELSE status[s]]
            /\ completed' = completed + Cardinality(WithStatus({"PENDING"}))
       ELSE UNCHANGED <<status, completed>>
    /\ UNCHANGED <<readyCh, inboundSatisfied, failed, context, stepName,
                   seeded, goVars, pc, callVars, retries>>

(* Run: wg.Wait (205-206). *)
WaitNobody ==
    /\ main = "wait"
    /\ main' = "returned"
    /\ UNCHANGED <<status, readyCh, inboundSatisfied, tallyVars, context,
                   stepName, seeded, goVars, pc, callVars, retries>>

Wait ==
    /\ main = "wait"
    /\ leaving = 0 /\ \A s \in Step : pc[s] = "none"
    /\ main' = "returned"
    /\ UNCHANGED <<status, readyCh, inboundSatisfied, tallyVars, context,
                   stepName, seeded, goVars, pc, callVars, retries>>

MainStep ==
    \/ MarkSeeds \/ NextSeed
    \/ TestDone \/ Receive \/ Acquire \/ ChooseDefault \/ SkipPending \/ Wait

-----------------------------------------------------------------------------
(* The goroutine of s.  SnapshotContext marshals the whole context, so one *)
(* output that cannot be encoded fails every later snapshot; then the      *)
(* goroutine returns with the step still RUNNING (108-112).                *)
Snapshot(s) ==
    /\ pc[s] = "start"
    /\ IF \E p \in Step : context[p] = "unencodable"
       THEN Return(s)
       ELSE \E next \in {"exec"} \cup ({"skip"} \cap Outcomes[s]) : Goto(s, next)
    /\ UNCHANGED <<status, readyCh, inboundSatisfied, tallyVars, context,
                   loopVars, callVars, retries>>

Skip(s) ==
    /\ pc[s] = "skip"
    /\ status' = [status EXCEPT ![s] = "SKIPPED"]
    /\ completed' = completed + 1
    /\ Return(s)
    /\ UNCHANGED <<readyCh, inboundSatisfied, failed, context, loopVars,
                   callVars, retries>>

(* resolveInput fails: the step stays RUNNING (132-137). *)
BadInput(s) ==
    /\ pc[s] = "exec" /\ "badInput" \in Outcomes[s]
    /\ Return(s)
    /\ UNCHANGED <<status, readyCh, inboundSatisfied, tallyVars, context,
                   loopVars, callVars, retries>>

(* executeStep returns an error (140-144). *)
ExecuteError(s) ==
    /\ pc[s] = "exec" /\ "error" \in Outcomes[s]
    /\ Goto(s, "failing")
    /\ UNCHANGED <<status, readyCh, inboundSatisfied, tallyVars, context,
                   loopVars, callVars, retries>>

(* executeStep succeeds and UpdateContext publishes the output, all before *)
(* the success is recorded (140-157).                                      *)
ExecuteUnpublished(s) ==
    /\ pc[s] = "exec"
    /\ \E outcome \in Outcomes[s] \cap {"success", "unencodable"}, b \in Branches[s] :
          branch' = [branch EXCEPT ![s] = b]
    /\ Goto(s, "finish")
    /\ UNCHANGED <<status, readyCh, inboundSatisfied, tallyVars, context,
                   loopVars, todo, edge, seen, retries>>

Execute(s) ==
    /\ pc[s] = "exec"
    /\ \E outcome \in Outcomes[s] \cap {"success", "unencodable"}, b \in Branches[s] :
          /\ context' = [context EXCEPT ![s] = outcome]
          /\ branch' = [branch EXCEPT ![s] = b]
    /\ Goto(s, "finish")
    /\ UNCHANGED <<status, readyCh, inboundSatisfied, tallyVars, loopVars,
                   todo, edge, seen, retries>>

(* The success is recorded and scheduleOutbound called (159-165). *)
FinishAllEdges(s) ==
    /\ pc[s] = "finish"
    /\ status' = [status EXCEPT ![s] = "SUCCEEDED"]
    /\ completed' = completed + 1
    /\ todo' = [todo EXCEPT ![s] = OutEdges(s)]
    /\ Goto(s, "edge")
    /\ UNCHANGED <<readyCh, inboundSatisfied, failed, context, loopVars,
                   branch, edge, seen, retries>>

Finish(s) ==
    /\ pc[s] = "finish"
    /\ status' = [status EXCEPT ![s] = "SUCCEEDED"]
    /\ completed' = completed + 1
    /\ todo' = [todo EXCEPT ![s] = Taken(s, branch[s])]
    /\ Goto(s, "edge")
    /\ UNCHANGED <<readyCh, inboundSatisfied, failed, context, loopVars,
                   branch, edge, seen, retries>>

-----------------------------------------------------------------------------
(* scheduleOutbound (271-298), on a goroutine or, for a seed, on Run's.    *)
(* The increment inboundSatisfied[edge.To]++ finds the counter, reads it   *)
(* and writes it; only the lookup is guarded by the map's race detection.  *)
NextEdge(s) ==
    /\ pc[s] = "edge"
    /\ \E k \in todo[s] :
          /\ \A j \in todo[s] : k <= j
          /\ edge' = [edge EXCEPT ![s] = k]
          /\ seen' = [seen EXCEPT ![s] = inboundSatisfied[Target(s, k)]]
    /\ Goto(s, "bump")
    /\ UNCHANGED <<status, readyCh, inboundSatisfied, tallyVars, context,
                   loopVars, branch, todo, retries>>

Bump(s) ==
    /\ pc[s] = "bump"
    /\ inboundSatisfied' = [inboundSatisfied EXCEPT ![Target(s, edge[s])] = seen[s] + 1]
    /\ todo' = [todo EXCEPT ![s] = @ \ {edge[s]}]
    /\ Goto(s, "gate")
    /\ UNCHANGED <<status, readyCh, tallyVars, context, loopVars, branch,
                   edge, seen, retries>>

(* The gate of t as the counter shows it (279-280, 289). *)
GateTestOneLate(t) ==
    \/ StepReadinessThreshold(t) = "ANY" /\ inboundSatisfied[t] >= 1
    \/ inboundSatisfied[t] > inboundTotal[t]

GateTest(t) ==
    \/ StepReadinessThreshold(t) = "ANY" /\ inboundSatisfied[t] >= 1
    \/ inboundSatisfied[t] >= inboundTotal[t]

TestGate(s) ==
    /\ pc[s] = "gate"
    /\ Goto(s, IF GateTest(Target(s, edge[s])) THEN "enqueue" ELSE "edge")
    /\ UNCHANGED <<status, readyCh, inboundSatisfied, tallyVars, context,
                   loopVars, callVars, retries>>

Enqueue(s) ==
    /\ pc[s] = "enqueue"
    /\ MarkReady(Target(s, edge[s]))
    /\ Goto(s, "edge")
    /\ UNCHANGED <<inboundSatisfied, tallyVars, context, loopVars, callVars,
                   retries>>

(* scheduleOutbound returns; for a seed that is a return to Run's loop. *)
LeaveOutbound(s) ==
    /\ pc[s] = "edge" /\ todo[s] = {}
    /\ IF main = "seeding"
       THEN pc' = [pc EXCEPT ![s] = "none"] /\ UNCHANGED goVars
       ELSE Return(s)
    /\ edge' = [edge EXCEPT ![s] = 0]
    /\ seen' = [seen EXCEPT ![s] = 0]
    /\ UNCHANGED <<status, readyCh, inboundSatisfied, tallyVars, context,
                   loopVars, branch, todo, retries>>

-----------------------------------------------------------------------------
(* handleFailure (300-334) and DetermineRetry.  The count of retries lives *)
(* in state.json, which is loaded, incremented and saved without mu.  A    *)
(* step whose goroutine is in its call, or which Run is about to receive,  *)
(* may have loaded an older count and save it over the new one: the        *)
(* increment, and earlier ones with it, is lost (StateFile shows how).     *)
RetryAllowed(s, count) == count < MaxRetries[s]
InFlight(t) == status[t] = "READY" \/ pc[t] # "none"

RetryUncounted(s) ==
    /\ pc[s] = "failing" /\ RetryAllowed(s, retries[s])
    /\ Goto(s, "backoff")
    /\ UNCHANGED <<status, readyCh, inboundSatisfied, tallyVars, context,
                   loopVars, callVars, retries>>

Retry(s) ==
    /\ pc[s] = "failing" /\ RetryAllowed(s, retries[s])
    /\ \E count \in 0..retries[s] + 1 :
          /\ count <= retries[s] => \E t \in Step \ {s} : InFlight(t)
          /\ retries' = [retries EXCEPT ![s] = count]
    /\ Goto(s, "backoff")
    /\ UNCHANGED <<status, readyCh, inboundSatisfied, tallyVars, context,
                   loopVars, callVars>>

(* After the delay: READY under mu, and then the send without it (306-312).*)
ResendEarly(s) ==
    /\ pc[s] = "backoff"
    /\ status' = [status EXCEPT ![s] = "READY"]
    /\ readyCh' = Append(readyCh, s)
    /\ Goto(s, "resend")
    /\ UNCHANGED <<inboundSatisfied, tallyVars, context, loopVars, callVars,
                   retries>>

Backoff(s) ==
    /\ pc[s] = "backoff"
    /\ status' = [status EXCEPT ![s] = "READY"]
    /\ Goto(s, "resend")
    /\ UNCHANGED <<readyCh, inboundSatisfied, tallyVars, context, loopVars,
                   callVars, retries>>

ResendForgotten(s) ==
    /\ pc[s] = "resend"
    /\ Return(s)
    /\ UNCHANGED <<status, readyCh, inboundSatisfied, tallyVars, context,
                   loopVars, callVars, retries>>

Resend(s) ==
    /\ pc[s] = "resend"
    /\ readyCh' = Append(readyCh, s)
    /\ Return(s)
    /\ UNCHANGED <<status, inboundSatisfied, tallyVars, context, loopVars,
                   callVars, retries>>

GiveUp(s) ==
    /\ pc[s] = "failing"
    /\ ~RetryAllowed(s, retries[s])
    /\ status' = [status EXCEPT ![s] = "FAILED"]
    /\ failed' = failed + 1
    /\ Goto(s, "fallback")
    /\ UNCHANGED <<readyCh, inboundSatisfied, completed, context, loopVars,
                   callVars, retries>>

(* The fallback step, when it is a step of the workflow and PENDING. *)
Fallback(s) ==
    /\ pc[s] = "fallback"
    /\ IF FallbackStep[s] \in Step
       THEN MarkReady(FallbackStep[s])
       ELSE UNCHANGED <<status, readyCh>>
    /\ Return(s)
    /\ UNCHANGED <<inboundSatisfied, tallyVars, context, loopVars, callVars,
                   retries>>

Worker(s) ==
    \/ Snapshot(s) \/ Skip(s) \/ BadInput(s) \/ ExecuteError(s) \/ Execute(s)
    \/ Finish(s)
    \/ NextEdge(s) \/ Bump(s) \/ TestGate(s) \/ Enqueue(s) \/ LeaveOutbound(s)
    \/ Retry(s) \/ Backoff(s) \/ Resend(s) \/ GiveUp(s) \/ Fallback(s)

(* The deferred receive from sem and wg.Done (103-104). *)
LeaveUnguarded ==
    /\ leaving' = leaving - 1
    /\ slots' = slots - 1
    /\ UNCHANGED <<status, readyCh, inboundSatisfied, tallyVars, context,
                   loopVars, pc, callVars, retries>>

Leave ==
    /\ leaving > 0
    /\ leaving' = leaving - 1
    /\ slots' = slots - 1
    /\ UNCHANGED <<status, readyCh, inboundSatisfied, tallyVars, context,
                   loopVars, pc, callVars, retries>>

-----------------------------------------------------------------------------
(* What kills the process.  Two goroutines in an access to the unprotected *)
(* map, one of them assigning: Go's "fatal error: concurrent map writes".  *)
Crash ==
    /\ main' = "crashed"
    /\ UNCHANGED <<status, readyCh, inboundSatisfied, tallyVars, context,
                   stepName, seeded, goVars, pc, callVars, retries>>

ConcurrentMapAccess ==
    /\ \E s, t \in Step : /\ s # t
                          /\ pc[s] = "edge" /\ todo[s] # {}
                          /\ pc[t] = "gate" \/ (pc[t] = "edge" /\ todo[t] # {})
    /\ Crash

(* Another goroutine's writing of state.json has made LoadState return the *)
(* zero State, its error ignored: the increment of a nil map panics        *)
(* (301-304).  StateFile shows when that load fails.                       *)
PanicOnTornState(s) ==
    /\ pc[s] = "failing" /\ RetryAllowed(s, 0)
    /\ Step # {s}
    /\ Crash

(* Run has returned or the process is dead: nothing more happens. *)
Terminated == main \in {"returned", "crashed"} /\ UNCHANGED vars

Next ==
    \/ Alive /\ MainStep
    \/ Alive /\ \E s \in Step : Worker(s)
    \/ Alive /\ Leave
    \/ Alive /\ ConcurrentMapAccess
    \/ Alive /\ \E s \in Step : PanicOnTornState(s)
    \/ Terminated

Spec == Init /\ [][Next]_vars

(***************************************************************************)
(* Fairness: the Go runtime runs every goroutine that is not blocked, the  *)
(* sleeps of the poll and of the backoff end, and an action's execution    *)
(* ends (it answers, fails or times out).  Nothing makes a crash happen.   *)
(***************************************************************************)
Fairness ==
    /\ WF_vars(Alive /\ MainStep)
    /\ \A s \in Step : WF_vars(Alive /\ Worker(s))
    /\ WF_vars(Alive /\ Leave)

FairSpec == Spec /\ Fairness

-----------------------------------------------------------------------------
(* Properties.                                                             *)

CallLabel == {"none", "start", "skip", "exec", "finish", "edge", "bump", "gate",
              "enqueue", "failing", "backoff", "resend", "fallback"}
MainLabel == {"seed", "seeding", "loop", "select", "acquire", "default", "wait",
              "returned", "crashed"}
InOutbound(s) == pc[s] \in {"edge", "bump", "gate", "enqueue"}

(* Type correctness of the scheduler's shared maps, counters and channel   *)
(* and of the control points of Run and of its goroutines.                 *)
TypeOK ==
    /\ status \in [Step -> Final \cup {"PENDING", "READY", "RUNNING"}]
    /\ readyCh \in Seq(Step)
    /\ inboundSatisfied \in [Step -> Nat]
    /\ completed \in Nat /\ failed \in Nat
    /\ context \in [Step -> {"none", "success", "unencodable"}]
    /\ main \in MainLabel /\ stepName \in Step \cup {NoStep} /\ seeded \subseteq Step
    /\ slots \in Int /\ leaving \in Nat
    /\ pc \in [Step -> CallLabel]
    /\ branch \in [Step -> BranchName]
    /\ todo \in [Step -> SUBSET Nat] /\ edge \in [Step -> Nat] /\ seen \in [Step -> Nat]
    /\ retries \in [Step -> Nat]

(* Nothing is pushed past its capacity: readyCh holds at most len(steps)   *)
(* names (47), so no send blocks while it holds mu; sem at most            *)
(* MaxParallel tokens (54), every one of them owned by a goroutine that is *)
(* still in a call or about to return it.                                  *)
Limits ==
    /\ Len(readyCh) <= Total
    /\ slots <= MaxParallel
    /\ main # "seeding" => slots = leaving + Cardinality({s \in Step : pc[s] # "none"})

(* The two counters that end the main loop (88) agree with the statuses at *)
(* every point where mu is free: a step counted twice would end the run    *)
(* early, one not counted would keep it polling for ever.                  *)
Tally ==
    /\ completed = Cardinality(WithStatus({"SUCCEEDED", "SKIPPED"}))
    /\ failed = Cardinality(WithStatus({"FAILED"}))

(* A READY step is in readyCh exactly once or about to be sent by the      *)
(* goroutine that retries it; what else is in readyCh is a root that was   *)
(* seeded as SUCCEEDED after it was sent.  So no step is lost or run twice.*)
QueueSound ==
    /\ \A i, j \in DOMAIN readyCh : readyCh[i] = readyCh[j] => i = j
    /\ \A i \in DOMAIN readyCh : status[readyCh[i]] \in {"READY", "SUCCEEDED"}
    /\ \A s \in Step : status[s] = "READY" =>
          (pc[s] = "resend" <=> ~\E i \in DOMAIN readyCh : readyCh[i] = s)

(* When Run is about to start a goroutine for a step (96-102), no other    *)
(* call for that step is in progress, retries included.                    *)
OneCallPerStep == main = "acquire" => pc[stepName] = "none" /\ status[stepName] = "RUNNING"

(* A step that its gate released finds, in the snapshot it takes, the      *)
(* output of every source that satisfied the gate (108, 154 before 160).   *)
OutputsVisible ==
    \A t \in Step : pc[t] = "start" =>
        \A e \in SatisfiedEdges(status, branch, t) : context[e[1]] # "none"

(* A step with an open gate that is still PENDING is either about to be    *)
(* released, by a call still in scheduleOutbound, or an increment of its   *)
(* counter was lost.  These two races are the only ways in which the       *)
(* default case (190-197) can give up a step that should run.              *)
OpenGateHasReason ==
    \A t \in Step : status[t] = "PENDING" /\ GateOpen(status, branch, t) =>
        \/ \E s \in Step : /\ InOutbound(s)
                           /\ \/ \E k \in todo[s] : Target(s, k) = t
                              \/ pc[s] # "edge" /\ Target(s, edge[s]) = t
        \/ \E s \in seeded : \E k \in Taken(s, branch[s]) : Target(s, k) = t
        \/ inboundSatisfied[t] < Cardinality(SatisfiedEdges(status, branch, t))

(* When Run returns, every step has ended and no goroutine is left.        *)
ReturnedComplete ==
    main = "returned" =>
        /\ \A s \in Step : status[s] \in Final /\ pc[s] = "none"
        /\ slots = 0 /\ leaving = 0

(* Run implements the abstract run: a step becomes READY only when its     *)
(* gate is open or a step it is the fallback of has failed, an ended step  *)
(* never changes, and PENDING steps are given up only when nothing is      *)
(* READY or RUNNING.  The branch of a step counts from its success on.     *)
Promise == INSTANCE WorkflowRun WITH
    branch <- [s \in Step |-> IF status[s] = "SUCCEEDED" THEN branch[s] ELSE NoBranch]

Implements == Promise!Spec

(* Run returns, unless the process dies: no step is left READY or RUNNING  *)
(* and no goroutine blocks on sem, mu or readyCh.                          *)
Termination == <>(main \in {"returned", "crashed"})

(* What the two early returns of the goroutine do (109-112, 133-137), and  *)
(* what the lost counts of retries do (300-312): the only runs that never  *)
(* return are those in which a goroutine has gone and left its step        *)
(* RUNNING, and those in which steps that keep failing overwrite each      *)
(* other's counts and are retried for ever.  One step alone never is: what *)
(* it counts stays counted once the others are done.                       *)
Orphan(s) ==
    status[s] = "RUNNING" /\ pc[s] = "none" /\ ~(main = "acquire" /\ stepName = s)

RetriedForEver == \A s \in Step : []<>(\E t \in Step \ {s} : pc[t] = "backoff")

TerminationUnlessOrphaned ==
    (<>\E s \in Step : Orphan(s)) \/ RetriedForEver \/ Termination

(* A step taken over from the prior run is not executed again, although    *)
(* the roots among them are in readyCh before they are seeded (48-50, 92). *)
SeedsNotRerun == \A s \in Seeds : pc[s] \notin {"start", "skip", "exec", "failing", "backoff"}

SkippedByDefault(t) == main = "default" /\ status[t] = "PENDING" /\ status'[t] = "SKIPPED"

(* "steps are still pending because their dependencies can never be        *)
(* satisfied" (188-189): a step that the default case gives up has its     *)
(* gate closed and is not the fallback of a failed step.                   *)
OnlyUnsatisfiableSkipped ==
    [][\A t \in Step : SkippedByDefault(t) =>
           ~GateOpen(status, branch, t) /\ ~FallbackDue(status, t)]_vars
=============================================================================
