--------------------------- MODULE OutcomeProofs ---------------------------
(***************************************************************************)
(* Proofs of what a run of Scheduler comes to, for every workflow and      *)
(* every degree of parallelism: the two counters that end the main loop,   *)
(* the slots of sem, the steps taken over from a prior run, the outputs    *)
(* that a released step finds, the state in which Run returns, why a step  *)
(* with an open gate can still be PENDING, and what the refinement of      *)
(* WorkflowRun gives.                                                      *)
(***************************************************************************)
EXTENDS SchedulerProofs

Ended == {"SUCCEEDED", "SKIPPED"}

LEMMA WithStatusFinite ==
    ASSUME NEW values
    PROVE  /\ WithStatus(values) \subseteq Step /\ IsFiniteSet(WithStatus(values))
           /\ Cardinality(WithStatus(values)) \in Nat
<1>1. WithStatus(values) \in SUBSET Step
  BY DEF WithStatus
<1> QED
  BY <1>1, StepAssumption, FS_Subset, FS_CardinalityType

LEMMA DisjointCardinality ==
    ASSUME NEW S, NEW T, IsFiniteSet(S), IsFiniteSet(T), S \cap T = {}
    PROVE  Cardinality(S \cup T) = Cardinality(S) + Cardinality(T)
<1>1. Cardinality(S \cup T) = Cardinality(S) + Cardinality(T) - Cardinality(S \cap T)
  BY FS_Union
<1>2. Cardinality(S \cap T) = 0
  BY FS_EmptySet
<1>3. Cardinality(S) \in Nat /\ Cardinality(T) \in Nat
  BY FS_CardinalityType
<1> QED
  BY <1>1, <1>2, <1>3

(***************************************************************************)
(* Tally.  A step changes the counters exactly when it ends a step.        *)
(***************************************************************************)
LEMMA TallyKept ==
    ASSUME Tally, UNCHANGED tallyVars,
           \A r \in Step : status'[r] = status[r] \/ {status[r], status'[r]} \cap Final = {}
    PROVE  Tally'
<1>1. WithStatus(Ended)' = WithStatus(Ended) /\ WithStatus({"FAILED"})' = WithStatus({"FAILED"})
  BY DEF WithStatus, Ended, Final
<1> QED
  BY <1>1 DEF Tally, tallyVars, Ended

LEMMA TallySettle ==
    ASSUME Inv1, Tally, NEW s \in Step, NEW v \in Final, status[s] \notin Final,
           status' = [status EXCEPT ![s] = v],
           completed' = IF v = "FAILED" THEN completed ELSE completed + 1,
           failed' = IF v = "FAILED" THEN failed + 1 ELSE failed
    PROVE  Tally'
<1>1. status'[s] = v /\ \A r \in Step \ {s} : status'[r] = status[r]
  BY DEF Inv1, TypeOK
<1>2. ASSUME NEW values \in SUBSET Final, v \in values
      PROVE  Cardinality(WithStatus(values)') = Cardinality(WithStatus(values)) + 1
  <2>1. WithStatus(values)' = WithStatus(values) \cup {s}
    BY <1>1, <1>2 DEF WithStatus
  <2>2. s \notin WithStatus(values)
    BY DEF WithStatus
  <2> QED
    BY <2>1, <2>2, WithStatusFinite, FS_AddElement
<1>3. ASSUME NEW values \in SUBSET Final, v \notin values
      PROVE  WithStatus(values)' = WithStatus(values)
  BY <1>1, <1>3 DEF WithStatus
<1>4. Ended \in SUBSET Final /\ {"FAILED"} \in SUBSET Final
  BY DEF Ended, Final
<1>5. CASE v = "FAILED"
  <2>1. v \notin Ended
    BY <1>5 DEF Ended
  <2>2. Cardinality(WithStatus({"FAILED"})') = Cardinality(WithStatus({"FAILED"})) + 1
    BY <1>2, <1>4, <1>5
  <2>3. WithStatus(Ended)' = WithStatus(Ended)
    BY <1>3, <1>4, <2>1
  <2> QED
    BY <1>5, <2>2, <2>3 DEF Tally, Ended
<1>6. CASE v # "FAILED"
  <2>1. v \in Ended
    BY <1>6 DEF Ended, Final
  <2>2. Cardinality(WithStatus(Ended)') = Cardinality(WithStatus(Ended)) + 1
    BY <1>2, <1>4, <2>1
  <2>3. WithStatus({"FAILED"})' = WithStatus({"FAILED"})
    BY <1>3, <1>4, <1>6
  <2> QED
    BY <1>6, <2>2, <2>3 DEF Tally, Ended
<1> QED
  BY <1>5, <1>6

LEMMA TallyStep == Inv1 /\ Tally /\ [Next]_vars => Tally'
<1> SUFFICES ASSUME Inv1, Tally, [Next]_vars PROVE Tally'
  OBVIOUS
<1> DEFINE Same == /\ UNCHANGED tallyVars
                   /\ \A r \in Step : \/ status'[r] = status[r]
                                      \/ {status[r], status'[r]} \cap Final = {}
<1>0. ASSUME NEW t \in Step, MarkReady(t), UNCHANGED tallyVars PROVE Same
  BY <1>0 DEF MarkReady, Final, Inv1, TypeOK
<1>a. CASE MarkSeeds
  <2>1. \A s \in Step : status[s] \notin Final
    BY <1>a DEF MarkSeeds, Inv1, Control, MainControl, Final
  <2>2. WithStatus(Ended) = {} /\ WithStatus({"FAILED"}) = {}
    BY <2>1 DEF WithStatus, Ended, Final
  <2>3. WithStatus(Ended)' = Seeds /\ WithStatus({"FAILED"})' = {}
    BY <1>a, <2>1 DEF MarkSeeds, WithStatus, Ended, Final, Seeds
  <2>4. Seeds \in SUBSET Step
    BY DEF Seeds
  <2>5. Cardinality(Seeds) \in Nat
    BY <2>4, StepAssumption, FS_Subset, FS_CardinalityType
  <2>6. completed = 0 /\ failed = 0
    BY <2>2, FS_EmptySet DEF Tally, Ended
  <2>7. completed' = Cardinality(Seeds) /\ failed' = 0
    BY <1>a, <2>5, <2>6 DEF MarkSeeds
  <2>8. Cardinality(WithStatus({"FAILED"})') = 0
    BY <2>3, FS_EmptySet
  <2> QED
    BY <2>3, <2>7, <2>8 DEF Tally, Ended
<1>g. CASE SkipPending
  <2>1. CASE ~(WithStatus({"READY", "RUNNING"}) = {} /\ WithStatus({"PENDING"}) # {})
    <3>1. Same
      BY <1>g, <2>1 DEF SkipPending, tallyVars
    <3> QED
      BY <3>1, TallyKept
  <2>2. CASE WithStatus({"READY", "RUNNING"}) = {} /\ WithStatus({"PENDING"}) # {}
    <3>1. /\ status' = [s \in Step |-> IF status[s] = "PENDING" THEN "SKIPPED" ELSE status[s]]
          /\ completed' = completed + Cardinality(WithStatus({"PENDING"}))
          /\ failed' = failed
      BY <1>g, <2>2 DEF SkipPending
    <3>2. WithStatus({"FAILED"})' = WithStatus({"FAILED"})
      BY <3>1 DEF WithStatus
    <3>3. WithStatus(Ended)' = WithStatus(Ended) \cup WithStatus({"PENDING"})
      BY <3>1 DEF WithStatus, Ended
    <3>4. WithStatus(Ended) \cap WithStatus({"PENDING"}) = {}
      BY DEF WithStatus, Ended
    <3>5. Cardinality(WithStatus(Ended)')
            = Cardinality(WithStatus(Ended)) + Cardinality(WithStatus({"PENDING"}))
      BY <3>3, <3>4, WithStatusFinite, DisjointCardinality
    <3> QED
      BY <3>1, <3>2, <3>5 DEF Tally, Ended
  <2> QED
    BY <2>1, <2>2
<1>d. CASE Receive
  <2>1. Head(readyCh) \in Step
    BY <1>d, HeadTailProperties DEF Receive, Inv1, TypeOK
  <2>2. Same
    BY <1>d, <2>1 DEF Receive, tallyVars, Final, Inv1, TypeOK
  <2> QED
    BY <2>2, TallyKept
<1>j. ASSUME NEW s \in Step, Skip(s) PROVE Tally'
  <2>1. status[s] \notin Final
    BY <1>j DEF Skip, Inv1, Control, CallControl, Executing, Final
  <2> QED
    BY <1>j, <2>1, TallySettle DEF Skip, Final
<1>n. ASSUME NEW s \in Step, Finish(s) PROVE Tally'
  <2>1. status[s] \notin Final
    BY <1>n DEF Finish, Inv1, Control, CallControl, Executing, Final
  <2> QED
    BY <1>n, <2>1, TallySettle DEF Finish, Final
<1>w. ASSUME NEW s \in Step, GiveUp(s) PROVE Tally'
  <2>1. status[s] \notin Final
    BY <1>w DEF GiveUp, Inv1, Control, CallControl, Executing, Final
  <2> QED
    BY <1>w, <2>1, TallySettle DEF GiveUp, Final
<1>u. ASSUME NEW s \in Step, Backoff(s) PROVE Tally'
  <2>1. status[s] = "RUNNING" /\ \A r \in Step : status'[r] = status[r] \/ (r = s /\ status'[r] = "READY")
    BY <1>u DEF Backoff, Inv1, TypeOK, Control, CallControl, Executing
  <2>2. Same
    BY <1>u, <2>1 DEF Backoff, Final
  <2> QED
    BY <2>2, TallyKept
<1>r. ASSUME NEW s \in Step, Enqueue(s) PROVE Tally'
  <2>1. Target(s, edge[s]) \in Step
    BY <1>r, OutEdgesType DEF Enqueue, Inv1, Control, CallControl
  <2> QED
    BY <1>r, <1>0, <2>1, TallyKept DEF Enqueue
<1>x. ASSUME NEW s \in Step, Fallback(s) PROVE Tally'
  <2>1. CASE FallbackStep[s] \in Step
    BY <1>x, <1>0, <2>1, TallyKept DEF Fallback
  <2>2. CASE FallbackStep[s] \notin Step
    BY <1>x, <2>2, TallyKept DEF Fallback, tallyVars
  <2> QED
    BY <2>1, <2>2
<1>q. CASE UNCHANGED <<status, tallyVars>>
  BY <1>q, TallyKept DEF tallyVars
<1> QED
  BY <1>a, <1>d, <1>g, <1>j, <1>n, <1>q, <1>r, <1>u, <1>w, <1>x
  DEF Next, MainStep, Worker, ConcurrentMapAccess, PanicOnTornState, Terminated, vars, callVars,
      tallyVars, NextSeed, TestDone, Acquire, ChooseDefault, Wait, Snapshot, BadInput,
      ExecuteError, Execute, NextEdge, Bump, TestGate, LeaveOutbound, Retry, Resend, Leave, Crash

(* The two counters that end the main loop agree with the statuses, for    *)
(* every workflow.                                                         *)
THEOREM TallyIsExact == Spec => []Tally
<1>1. Init => Tally
  <2> SUFFICES ASSUME Init PROVE Tally
    OBVIOUS
  <2>1. WithStatus(Ended) = {} /\ WithStatus({"FAILED"}) = {}
    BY DEF Init, WithStatus, Ended
  <2> QED
    BY <2>1, FS_EmptySet DEF Init, Tally, Ended
<1> QED
  BY <1>1, TallyStep, Inv1Always, PTL DEF Spec

(***************************************************************************)
(* SeedControl: until Run enters its loop there is at most the one call of *)
(* scheduleOutbound that Run makes itself, and from MarkSeeds on the seeds *)
(* are successes.                                                          *)
(***************************************************************************)
Busy == {s \in Step : pc[s] # "none"}
Seeding == main \in {"seed", "seeding"}

SeedControl ==
    /\ Seeding => /\ leaving = 0 /\ slots = 0
                  /\ \A s \in Busy : InOutbound(s)
                  /\ \A s, t \in Busy : s = t
    /\ main # "seed" => \A s \in Seeds : status[s] = "SUCCEEDED"

(* What a call does outside scheduleOutbound, it does after the seeding. *)
LEMMA SeedCall ==
    ASSUME Inv1, SeedControl, NEW s \in Step, pc[s] # "none"
    PROVE  main # "seed" /\ (Seeding => InOutbound(s))
  BY DEF Inv1, Control, MainControl, SeedControl, Busy

(* A call that goes on, or one after the seeding that returns. *)
LEMMA SeedKept ==
    ASSUME Inv1, SeedControl, NEW s \in Step, pc[s] # "none", UNCHANGED main,
           \A r \in Step : status[r] = "SUCCEEDED" => status'[r] = "SUCCEEDED",
           \/ ~Seeding
           \/ UNCHANGED goVars /\ InOutbound(s)' /\ \A r \in Step \ {s} : pc'[r] = pc[r]
    PROVE  SeedControl'
<1>1. main # "seed"
  BY SeedCall
<1>2. CASE ~Seeding
  BY <1>1, <1>2 DEF SeedControl, Seeding, Seeds
<1>3. CASE Seeding /\ UNCHANGED goVars /\ InOutbound(s)' /\ \A r \in Step \ {s} : pc'[r] = pc[r]
  <2>1. Busy' = {s} /\ Busy = {s}
    BY <1>3 DEF SeedControl, Busy, InOutbound
  <2> QED
    BY <1>1, <1>3, <2>1 DEF SeedControl, Seeding, Seeds, goVars
<1> QED
  BY <1>2, <1>3

LEMMA SeedStep == Inv1 /\ SeedControl /\ [Next]_vars => SeedControl'
<1> SUFFICES ASSUME Inv1, SeedControl, [Next]_vars PROVE SeedControl'
  OBVIOUS
<1> DEFINE Grow == \A r \in Step : status[r] = "SUCCEEDED" => status'[r] = "SUCCEEDED"
<1>0. ASSUME NEW t \in Step, MarkReady(t) PROVE Grow
  BY <1>0 DEF MarkReady, Inv1, TypeOK
<1>a. CASE MarkSeeds
  <2>1. Busy' = {} /\ UNCHANGED goVars
    BY <1>a DEF MarkSeeds, Inv1, Control, MainControl, Busy
  <2> QED
    BY <1>a, <2>1 DEF MarkSeeds, SeedControl, Seeding, Seeds, goVars
<1>b. CASE NextSeed
  <2>1. Busy = {} /\ UNCHANGED <<goVars, status>> /\ main = "seeding"
    BY <1>b DEF NextSeed, Busy
  <2>2. CASE seeded = {}
    BY <1>b, <2>1, <2>2 DEF NextSeed, SeedControl, Seeding, Seeds
  <2>3. ASSUME NEW s \in seeded, pc' = [pc EXCEPT ![s] = "edge"], UNCHANGED main
        PROVE  SeedControl'
    <3>1. s \in Step /\ pc'[s] = "edge" /\ \A r \in Step \ {s} : pc'[r] = pc[r]
      BY <2>3 DEF Inv1, TypeOK
    <3>2. Busy' = {s} /\ InOutbound(s)'
      BY <2>1, <3>1 DEF Busy, InOutbound
    <3> QED
      BY <2>1, <2>3, <3>2 DEF SeedControl, Seeding, goVars, Seeds
  <2> QED
    BY <1>b, <2>2, <2>3 DEF NextSeed
<1>c. CASE ~Seeding /\ ~Seeding' /\ Grow
  BY <1>c DEF SeedControl, Seeding, Seeds
<1>d. CASE Receive
  <2>1. Head(readyCh) \in Step
    BY <1>d, HeadTailProperties DEF Receive, Inv1, TypeOK
  <2> QED
    BY <1>c, <1>d, <2>1 DEF Receive, Seeding, Inv1, TypeOK
<1>e. CASE TestDone \/ Acquire \/ ChooseDefault \/ SkipPending \/ Wait
  BY <1>c, <1>e DEF TestDone, Acquire, ChooseDefault, SkipPending, Wait, Seeding
<1>f. ASSUME NEW s \in Step,
             \/ Snapshot(s) \/ Skip(s) \/ BadInput(s) \/ ExecuteError(s) \/ Execute(s)
             \/ Retry(s) \/ Backoff(s) \/ Resend(s) \/ GiveUp(s)
      PROVE  SeedControl'
  <2>1. pc[s] # "none" /\ ~InOutbound(s) /\ UNCHANGED main
    BY <1>f DEF Snapshot, Skip, BadInput, ExecuteError, Execute, Retry, Backoff, Resend,
                GiveUp, InOutbound, loopVars
  <2>2. \/ UNCHANGED status
        \/ status[s] # "SUCCEEDED" /\ \E v \in Final \cup {"READY"} : status' = [status EXCEPT ![s] = v]
    BY <1>f, <2>1
    DEF Snapshot, Skip, BadInput, ExecuteError, Execute, Retry, Backoff, Resend, GiveUp,
        Final, Inv1, Control, CallControl, Executing
  <2>3. Grow
    BY <2>2 DEF Inv1, TypeOK
  <2> QED
    BY <2>1, <2>3, SeedCall, SeedKept
<1>g. ASSUME NEW s \in Step, Finish(s) PROVE SeedControl'
  <2>1. pc[s] # "none" /\ ~InOutbound(s) /\ UNCHANGED main
    BY <1>g DEF Finish, InOutbound, loopVars
  <2>2. Grow
    BY <1>g DEF Finish, Inv1, TypeOK
  <2> QED
    BY <2>1, <2>2, SeedCall, SeedKept
<1>h. ASSUME NEW s \in Step, Fallback(s) PROVE SeedControl'
  <2>1. pc[s] # "none" /\ ~InOutbound(s) /\ UNCHANGED main
    BY <1>h DEF Fallback, InOutbound, loopVars
  <2>2. Grow
    BY <1>h, <1>0 DEF Fallback
  <2> QED
    BY <2>1, <2>2, SeedCall, SeedKept
<1>i. ASSUME NEW s \in Step, NextEdge(s) \/ Bump(s) \/ TestGate(s) \/ Enqueue(s)
      PROVE  SeedControl'
  <2>1. pc[s] # "none" /\ UNCHANGED <<main, goVars>>
    BY <1>i DEF NextEdge, Bump, TestGate, Enqueue, Goto, loopVars
  <2>2. \E label \in {"edge", "bump", "gate", "enqueue"} : pc' = [pc EXCEPT ![s] = label]
    BY <1>i DEF NextEdge, Bump, TestGate, Enqueue, Goto
  <2>3. InOutbound(s)' /\ \A r \in Step \ {s} : pc'[r] = pc[r]
    BY <2>2 DEF InOutbound, Inv1, TypeOK
  <2>4. Grow
    <3>1. CASE Enqueue(s)
      <4>1. Target(s, edge[s]) \in Step
        BY <3>1, OutEdgesType DEF Enqueue, Inv1, Control, CallControl
      <4> QED
        BY <1>0, <3>1, <4>1 DEF Enqueue
    <3>2. CASE NextEdge(s) \/ Bump(s) \/ TestGate(s)
      BY <3>2 DEF NextEdge, Bump, TestGate
    <3> QED
      BY <1>i, <3>1, <3>2
  <2> QED
    BY <2>1, <2>3, <2>4, SeedKept
<1>j. ASSUME NEW s \in Step, LeaveOutbound(s) PROVE SeedControl'
  <2>1. pc[s] # "none" /\ UNCHANGED <<main, status>>
    BY <1>j DEF LeaveOutbound, loopVars
  <2>2. CASE main = "seeding"
    <3>1. UNCHANGED goVars /\ pc' = [pc EXCEPT ![s] = "none"]
      BY <1>j, <2>2 DEF LeaveOutbound
    <3>2. Busy' = {}
      BY <2>1, <2>2, <3>1 DEF SeedControl, Seeding, Busy, Inv1, TypeOK
    <3> QED
      BY <2>1, <2>2, <3>1, <3>2 DEF SeedControl, Seeding, Seeds, goVars
  <2>3. CASE main # "seeding"
    BY <2>1, <2>3, SeedCall, SeedKept DEF Seeding
  <2> QED
    BY <2>2, <2>3
<1>k. CASE Leave
  <2>1. ~Seeding /\ UNCHANGED <<main, status>>
    BY <1>k DEF Leave, SeedControl, Inv1, TypeOK, loopVars
  <2> QED
    BY <1>c, <2>1 DEF Seeding
<1>l. CASE Crash /\ \E s \in Step : pc[s] # "none"
  BY <1>l, SeedCall DEF Crash, SeedControl, Seeding, Seeds
<1>m. CASE UNCHANGED vars
  BY <1>m DEF vars, loopVars, goVars, SeedControl, Seeding, Busy, InOutbound, Seeds
<1> QED
  BY <1>a, <1>b, <1>d, <1>e, <1>f, <1>g, <1>h, <1>i, <1>j, <1>k, <1>l, <1>m
  DEF Next, MainStep, Worker, ConcurrentMapAccess, PanicOnTornState, Terminated

LEMMA SeedAlways == Spec => [](Inv1 /\ SeedControl)
<1>1. Init => SeedControl
  BY DEF Init, SeedControl, Busy
<1> QED
  BY <1>1, SeedStep, Inv1Always, PTL DEF Spec

(* A step that the prior run completed is never executed again, although   *)
(* the roots among them were sent to readyCh first.                        *)
THEOREM SeedsKept == Spec => []SeedsNotRerun
<1>1. Inv1 /\ SeedControl => SeedsNotRerun
  <2> SUFFICES ASSUME Inv1, SeedControl, NEW s \in Seeds,
                      pc[s] \in {"start", "skip", "exec", "failing", "backoff"}
               PROVE  FALSE
    BY DEF SeedsNotRerun
  <2>1. s \in Step /\ status[s] = "RUNNING"
    BY DEF Seeds, Inv1, Control, CallControl, Executing
  <2>2. main # "seed"
    BY <2>1, SeedCall
  <2> QED
    BY <2>1, <2>2 DEF SeedControl
<1> QED
  BY <1>1, SeedAlways, PTL

(***************************************************************************)
(* Slots: after the seeding every token in sem belongs to a goroutine in   *)
(* its call or to one that only owes its deferred calls.                   *)
(***************************************************************************)
Slots == ~Seeding => slots = leaving + Cardinality(Busy)

Inv3 == Inv1 /\ SeedControl /\ Slots /\ slots <= MaxParallel

LEMMA BusyFinite == IsFiniteSet(Busy) /\ Cardinality(Busy) \in Nat
<1>1. Busy \in SUBSET Step
  BY DEF Busy
<1> QED
  BY <1>1, StepAssumption, FS_Subset, FS_CardinalityType

LEMMA SlotsGoto ==
    ASSUME Inv3, UNCHANGED <<main, goVars>>, NEW s \in Step, pc[s] # "none",
           NEW label \in CallLabel \ {"none"}, pc' = [pc EXCEPT ![s] = label]
    PROVE  (Slots /\ slots <= MaxParallel)'
<1>1. Busy' = Busy
  BY DEF Busy, Inv3, Inv1, TypeOK
<1> QED
  BY <1>1 DEF Inv3, Slots, Seeding, goVars

LEMMA SlotsReturn ==
    ASSUME Inv3, UNCHANGED main, NEW s \in Step, pc[s] # "none", Return(s)
    PROVE  (Slots /\ slots <= MaxParallel)'
<1>1. Busy' = Busy \ {s} /\ s \in Busy
  BY DEF Busy, Return, Inv3, Inv1, TypeOK
<1>2. Cardinality(Busy') = Cardinality(Busy) - 1
  BY <1>1, BusyFinite, FS_RemoveElement
<1> QED
  BY <1>2, BusyFinite DEF Inv3, Inv1, TypeOK, Slots, Seeding, Return

LEMMA SlotsStep == Inv3 /\ [Next]_vars => (Slots /\ slots <= MaxParallel)'
<1> SUFFICES ASSUME Inv3, [Next]_vars PROVE (Slots /\ slots <= MaxParallel)'
  OBVIOUS
<1>a. CASE MarkSeeds
  BY <1>a DEF MarkSeeds, Inv3, Slots, Seeding, goVars
<1>b. CASE NextSeed
  <2>1. Busy = {} /\ UNCHANGED goVars /\ main = "seeding"
    BY <1>b DEF NextSeed, Busy
  <2>2. CASE seeded = {}
    <3>1. Cardinality(Busy') = 0
      BY <1>b, <2>1, <2>2, FS_EmptySet DEF NextSeed, Busy
    <3> QED
      BY <2>1, <3>1 DEF Inv3, SeedControl, Slots, Seeding, goVars
  <2>3. CASE seeded # {}
    BY <1>b, <2>1, <2>3 DEF NextSeed, Inv3, Slots, Seeding, goVars
  <2> QED
    BY <2>2, <2>3
<1>c. CASE UNCHANGED <<goVars, pc>> /\ (Seeding' <=> Seeding)
  BY <1>c DEF Inv3, Slots, Busy, goVars
<1>d. CASE TestDone \/ Receive \/ ChooseDefault \/ SkipPending \/ Wait
  BY <1>c, <1>d DEF TestDone, Receive, ChooseDefault, SkipPending, Wait, Seeding
<1>e. CASE Acquire
  <2>1. stepName \in Step /\ pc[stepName] = "none"
    BY <1>e DEF Acquire, Inv3, Inv1, Control, MainControl
  <2>2. Busy' = Busy \cup {stepName} /\ stepName \notin Busy
    BY <1>e, <2>1 DEF Acquire, Busy, Inv3, Inv1, TypeOK
  <2>3. Cardinality(Busy') = Cardinality(Busy) + 1
    BY <2>2, BusyFinite, FS_AddElement
  <2> QED
    BY <1>e, <2>3, BusyFinite, ParallelAssumption
    DEF Acquire, Inv3, Inv1, TypeOK, Slots, Seeding
<1>f. ASSUME NEW s \in Step,
             \/ ExecuteError(s) \/ Execute(s) \/ Finish(s) \/ NextEdge(s) \/ Bump(s)
             \/ TestGate(s) \/ Enqueue(s) \/ Retry(s) \/ Backoff(s) \/ GiveUp(s)
      PROVE  (Slots /\ slots <= MaxParallel)'
  <2>1. pc[s] # "none" /\ UNCHANGED <<main, goVars>>
    BY <1>f DEF ExecuteError, Execute, Finish, NextEdge, Bump, TestGate, Enqueue, Retry,
                Backoff, GiveUp, Goto, loopVars
  <2>2. \E label \in CallLabel \ {"none"} : pc' = [pc EXCEPT ![s] = label]
    BY <1>f DEF ExecuteError, Execute, Finish, NextEdge, Bump, TestGate, Enqueue, Retry,
                Backoff, GiveUp, Goto, CallLabel
  <2> QED
    BY <2>1, <2>2, SlotsGoto
<1>g. ASSUME NEW s \in Step, Skip(s) \/ BadInput(s) \/ Resend(s) \/ Fallback(s)
      PROVE  (Slots /\ slots <= MaxParallel)'
  <2>1. pc[s] # "none" /\ Return(s) /\ UNCHANGED main
    BY <1>g DEF Skip, BadInput, Resend, Fallback, loopVars
  <2> QED
    BY <2>1, SlotsReturn
<1>h. ASSUME NEW s \in Step, Snapshot(s) PROVE (Slots /\ slots <= MaxParallel)'
  <2>1. pc[s] # "none" /\ UNCHANGED main
    BY <1>h DEF Snapshot, loopVars
  <2>2. CASE Return(s)
    BY <2>1, <2>2, SlotsReturn
  <2>3. CASE \E label \in {"exec", "skip"} : Goto(s, label)
    BY <2>1, <2>3, SlotsGoto DEF Goto, CallLabel
  <2> QED
    BY <1>h, <2>2, <2>3 DEF Snapshot
<1>i. ASSUME NEW s \in Step, LeaveOutbound(s) PROVE (Slots /\ slots <= MaxParallel)'
  <2>1. pc[s] # "none" /\ UNCHANGED main
    BY <1>i DEF LeaveOutbound, loopVars
  <2>2. CASE main = "seeding"
    BY <1>i, <2>1, <2>2 DEF LeaveOutbound, Inv3, Slots, Seeding, goVars
  <2>3. CASE main # "seeding"
    BY <1>i, <2>1, <2>3, SlotsReturn DEF LeaveOutbound
  <2> QED
    BY <2>2, <2>3
<1>j. CASE Leave
  <2>1. Busy' = Busy /\ UNCHANGED main
    BY <1>j DEF Leave, Busy, loopVars
  <2>2. leaving' = leaving - 1 /\ slots' = slots - 1 /\ leaving \in Nat /\ slots \in Int
    BY <1>j DEF Leave, Inv3, Inv1, TypeOK
  <2>3. Slots'
    BY <2>1, <2>2, BusyFinite DEF Inv3, Slots, Seeding
  <2>4. slots' <= MaxParallel
    BY <2>2, ParallelAssumption DEF Inv3
  <2> QED
    BY <2>3, <2>4
<1>k. CASE Crash /\ \E s \in Step : pc[s] # "none" /\ (~InOutbound(s) \/ \E t \in Step \ {s} : pc[t] # "none")
  <2>1. ~Seeding
    BY <1>k, SeedCall DEF Inv3, SeedControl, Busy
  <2> QED
    BY <1>c, <1>k, <2>1 DEF Crash, Seeding
<1>l. CASE UNCHANGED vars
  BY <1>c, <1>l DEF vars, loopVars, goVars, Seeding
<1>m. CASE ConcurrentMapAccess
  <2>1. \E s \in Step : pc[s] # "none" /\ \E t \in Step \ {s} : pc[t] # "none"
    BY <1>m DEF ConcurrentMapAccess
  <2> QED
    BY <1>k, <1>m, <2>1 DEF ConcurrentMapAccess
<1>n. ASSUME NEW s \in Step, PanicOnTornState(s) PROVE (Slots /\ slots <= MaxParallel)'
  BY <1>k, <1>n DEF PanicOnTornState, InOutbound
<1> QED
  BY <1>a, <1>b, <1>d, <1>e, <1>f, <1>g, <1>h, <1>i, <1>j, <1>l, <1>m, <1>n
  DEF Next, MainStep, Worker, Terminated

LEMMA Inv3Always == Spec => []Inv3
<1>1. Init => Slots /\ slots <= MaxParallel
  BY ParallelAssumption DEF Init, Slots, Seeding
<1>2. Inv1 /\ SeedControl /\ Slots /\ slots <= MaxParallel <=> Inv3
  BY DEF Inv3
<1> QED
  BY <1>1, <1>2, SlotsStep, SeedAlways, PTL DEF Spec

(* No channel is pushed past its capacity: readyCh holds no more names     *)
(* than the workflow has steps, and sem no more tokens than MaxParallel,   *)
(* each with a goroutine that will take it out.                            *)
THEOREM LimitsHold == Spec => []Limits
<1>1. Inv3 => Limits
  <2> SUFFICES ASSUME Inv3 PROVE Limits
    OBVIOUS
  <2>1. Len(readyCh) <= Total
    <3>1. readyCh \in Seq(Step) /\ Len(readyCh) \in Nat /\ DOMAIN readyCh = 1..Len(readyCh)
      BY LenProperties DEF Inv3, Inv1, TypeOK
    <3>2. readyCh \in Injection(1..Len(readyCh), Step)
      BY <3>1 DEF Injection, IsInjective, Inv3, Inv1, QueueSound
    <3>3. Cardinality(1..Len(readyCh)) <= Cardinality(Step)
      BY <3>2, StepAssumption, FS_Injection
    <3>4. Cardinality(1..Len(readyCh)) = Len(readyCh)
      BY <3>1, FS_Interval
    <3> QED
      BY <3>3, <3>4 DEF Total
  <2>2. main = "seed" => slots = leaving + Cardinality(Busy)
    <3>1. main = "seed" => Busy = {}
      BY DEF Inv3, Inv1, Control, MainControl, Busy
    <3> QED
      BY <3>1, FS_EmptySet DEF Inv3, SeedControl, Seeding
  <2> QED
    BY <2>1, <2>2 DEF Limits, Inv3, Slots, Seeding, Busy
<1> QED
  BY <1>1, Inv3Always, PTL

(***************************************************************************)
(* Complete: once the counters have ended the loop every step has ended,   *)
(* and ended steps change no more; after wg.Wait nobody is left.           *)
(***************************************************************************)
Complete ==
    /\ main \in {"wait", "returned"} => \A s \in Step : status[s] \in Final
    /\ main = "returned" => leaving = 0 /\ \A s \in Step : pc[s] = "none"

LEMMA AllEnded ==
    ASSUME Tally, completed + failed >= Total
    PROVE  \A s \in Step : status[s] \in Final
<1>1. WithStatus(Ended) \cap WithStatus({"FAILED"}) = {}
  BY DEF WithStatus, Ended
<1>2. WithStatus(Ended) \cup WithStatus({"FAILED"}) = WithStatus(Final)
  BY DEF WithStatus, Ended, Final
<1>3. Cardinality(WithStatus(Final)) = completed + failed
  BY <1>1, <1>2, WithStatusFinite, DisjointCardinality DEF Tally, Ended
<1>4. WithStatus(Final) \in SUBSET Step
  BY DEF WithStatus
<1>5. Cardinality(WithStatus(Final)) = Cardinality(Step)
  BY <1>3, <1>4, StepAssumption, FS_Subset, FS_CardinalityType DEF Total
<1>6. WithStatus(Final) = Step
  BY <1>4, <1>5, StepAssumption, FS_Subset
<1> QED
  BY <1>6 DEF WithStatus

LEMMA CompleteStep == Inv1 /\ Tally /\ Complete /\ [Next]_vars => Complete'
<1> SUFFICES ASSUME Inv1, Tally, Complete, [Next]_vars PROVE Complete'
  OBVIOUS
<1>1. ASSUME main' \notin {"wait", "returned"} PROVE Complete'
  BY <1>1 DEF Complete
<1>a. CASE MarkSeeds \/ Receive \/ Acquire \/ ChooseDefault \/ SkipPending \/ Crash
  BY <1>1, <1>a DEF MarkSeeds, Receive, Acquire, ChooseDefault, SkipPending, Crash
<1>b. CASE NextSeed
  BY <1>1, <1>b DEF NextSeed
<1>c. CASE TestDone
  <2>1. CASE completed + failed < Total
    BY <1>1, <1>c, <2>1 DEF TestDone
  <2>2. CASE ~(completed + failed < Total)
    <3>1. completed + failed >= Total
      BY <2>2, StepAssumption, FS_CardinalityType DEF Total, Inv1, TypeOK
    <3>2. \A s \in Step : status[s] \in Final
      BY <3>1, AllEnded
    <3> QED
      BY <1>c, <2>2, <3>2 DEF TestDone, Complete
  <2> QED
    BY <2>1, <2>2
<1>d. CASE Wait
  BY <1>d DEF Wait, Complete, goVars
<1>e. ASSUME NEW s \in Step, Worker(s), main \in {"wait", "returned"} PROVE Complete'
  <2>1. pc[s] # "none" /\ UNCHANGED main
    BY <1>e DEF Worker, Snapshot, Skip, BadInput, ExecuteError, Execute, Finish, NextEdge,
                Bump, TestGate, Enqueue, LeaveOutbound, Retry, Backoff, Resend, GiveUp,
                Fallback, loopVars
  <2>2. \A t \in Step : status[t] \in Final
    BY <1>e DEF Complete
  <2>3. pc[s] \notin {"start", "skip", "exec", "finish", "failing", "backoff", "resend"}
    BY <2>2 DEF Inv1, Control, CallControl, Executing, Final
  <2>4. ASSUME NEW t \in Step, MarkReady(t) PROVE UNCHANGED status
    BY <2>2, <2>4 DEF MarkReady, Final
  <2>5. UNCHANGED status
    <3>1. CASE Enqueue(s)
      <4>1. Target(s, edge[s]) \in Step
        BY <3>1, OutEdgesType DEF Enqueue, Inv1, Control, CallControl
      <4> QED
        BY <2>4, <3>1, <4>1 DEF Enqueue
    <3>2. CASE Fallback(s)
      BY <2>4, <3>2 DEF Fallback
    <3> QED
      BY <1>e, <2>3, <3>1, <3>2
      DEF Worker, Snapshot, Skip, BadInput, ExecuteError, Execute, Finish, NextEdge, Bump,
          TestGate, LeaveOutbound, Retry, Backoff, Resend, GiveUp
  <2>6. main # "returned"
    BY <2>1 DEF Complete
  <2> QED
    BY <2>1, <2>2, <2>5, <2>6 DEF Complete
<1>f. ASSUME NEW s \in Step, Worker(s), main \notin {"wait", "returned"} PROVE Complete'
  <2>1. UNCHANGED main
    BY <1>f DEF Worker, Snapshot, Skip, BadInput, ExecuteError, Execute, Finish, NextEdge,
                Bump, TestGate, Enqueue, LeaveOutbound, Retry, Backoff, Resend, GiveUp,
                Fallback, loopVars
  <2> QED
    BY <1>1, <1>f, <2>1
<1>g. CASE Leave
  BY <1>g DEF Leave, Complete, loopVars
<1>h. CASE UNCHANGED vars
  BY <1>h DEF vars, loopVars, goVars, Complete
<1>i. ASSUME NEW s \in Step, Worker(s) PROVE Complete'
  BY <1>e, <1>f, <1>i
<1>j. CASE ConcurrentMapAccess \/ \E s \in Step : PanicOnTornState(s)
  BY <1>a, <1>j DEF ConcurrentMapAccess, PanicOnTornState
<1> QED
  BY <1>a, <1>b, <1>c, <1>d, <1>g, <1>h, <1>i, <1>j DEF Next, MainStep, Terminated

(* Run returns only when every step has ended and no goroutine is left.    *)
THEOREM ReturnsComplete == Spec => []ReturnedComplete
<1>1. Init => Complete
  BY DEF Init, Complete
<1>2. Inv3 /\ Complete => ReturnedComplete
  <2> SUFFICES ASSUME Inv3, Complete, main = "returned"
               PROVE  slots = 0 /\ leaving = 0 /\ \A s \in Step : status[s] \in Final /\ pc[s] = "none"
    BY DEF ReturnedComplete
  <2>1. Busy = {}
    BY DEF Complete, Busy
  <2>2. slots = leaving + 0
    BY <2>1, FS_EmptySet DEF Inv3, Slots, Seeding
  <2> QED
    BY <2>2 DEF Complete
<1> QED
  BY <1>1, <1>2, CompleteStep, TallyIsExact, Inv1Always, Inv3Always, PTL DEF Spec

(***************************************************************************)
(* Published: a step has its output in the context before its success is   *)
(* recorded; a seed has it from the start.                                 *)
(***************************************************************************)
Published ==
    \A s \in Step : pc[s] = "finish" \/ status[s] = "SUCCEEDED" \/ s \in Seeds => context[s] # "none"

LEMMA PublishedStep == Inv1 /\ Published /\ [Next]_vars => Published'
<1> SUFFICES ASSUME Inv1, Published, [Next]_vars PROVE Published'
  OBVIOUS
<1>1. ASSUME UNCHANGED context,
             \A r \in Step : pc'[r] = "finish" => pc[r] = "finish",
             \A r \in Step : status'[r] = "SUCCEEDED" => status[r] = "SUCCEEDED" \/ pc[r] = "finish" \/ r \in Seeds
      PROVE  Published'
  BY <1>1 DEF Published, Seeds
<1>2. ASSUME NEW t \in Step, MarkReady(t), NEW r \in Step, status'[r] = "SUCCEEDED"
      PROVE  status[r] = "SUCCEEDED"
  BY <1>2 DEF MarkReady, Inv1, TypeOK
<1>a. CASE MarkSeeds
  BY <1>1, <1>a DEF MarkSeeds
<1>b. CASE NextSeed
  <2>1. \A r \in Step : pc'[r] = "finish" => pc[r] = "finish"
    BY <1>b DEF NextSeed, Inv1, TypeOK
  <2> QED
    BY <1>1, <1>b, <2>1 DEF NextSeed
<1>c. CASE Receive
  <2>1. Head(readyCh) \in Step
    BY <1>c, HeadTailProperties DEF Receive, Inv1, TypeOK
  <2> QED
    BY <1>1, <1>c, <2>1 DEF Receive, Inv1, TypeOK
<1>d. CASE Acquire
  <2>1. \A r \in Step : pc'[r] = "finish" => pc[r] = "finish"
    BY <1>d DEF Acquire, Inv1, TypeOK, Control, MainControl
  <2> QED
    BY <1>1, <1>d, <2>1 DEF Acquire
<1>e. CASE TestDone \/ ChooseDefault \/ SkipPending \/ Wait \/ Leave \/ Crash
  BY <1>1, <1>e DEF TestDone, ChooseDefault, SkipPending, Wait, Leave, Crash
<1>f. ASSUME NEW s \in Step,
             \/ Snapshot(s) \/ Skip(s) \/ BadInput(s) \/ ExecuteError(s) \/ Finish(s)
             \/ NextEdge(s) \/ Bump(s) \/ TestGate(s) \/ LeaveOutbound(s)
             \/ Retry(s) \/ Backoff(s) \/ Resend(s) \/ GiveUp(s)
      PROVE  Published'
  <2>1. UNCHANGED context
    BY <1>f DEF Snapshot, Skip, BadInput, ExecuteError, Finish, NextEdge, Bump, TestGate,
                LeaveOutbound, Retry, Backoff, Resend, GiveUp
  <2>2. \E label \in CallLabel \ {"finish"} : pc' = [pc EXCEPT ![s] = label]
    BY <1>f DEF Snapshot, Skip, BadInput, ExecuteError, Finish, NextEdge, Bump, TestGate,
                LeaveOutbound, Retry, Backoff, Resend, GiveUp, Goto, Return, CallLabel
  <2>3. \A r \in Step : pc'[r] = "finish" => pc[r] = "finish"
    BY <2>2 DEF Inv1, TypeOK
  <2>4. \/ UNCHANGED status
        \/ pc[s] = "finish" /\ status' = [status EXCEPT ![s] = "SUCCEEDED"]
        \/ \E v \in {"SKIPPED", "READY", "FAILED"} : status' = [status EXCEPT ![s] = v]
    BY <1>f DEF Snapshot, Skip, BadInput, ExecuteError, Finish, NextEdge, Bump, TestGate,
                LeaveOutbound, Retry, Backoff, Resend, GiveUp
  <2>5. \A r \in Step : status'[r] = "SUCCEEDED" => status[r] = "SUCCEEDED" \/ pc[r] = "finish"
    BY <2>4 DEF Inv1, TypeOK
  <2> QED
    BY <1>1, <2>1, <2>3, <2>5
<1>g. ASSUME NEW s \in Step, Execute(s) PROVE Published'
  <2>1. context'[s] # "none" /\ \A r \in Step \ {s} : context'[r] = context[r]
    BY <1>g DEF Execute, Inv1, TypeOK
  <2>2. UNCHANGED status /\ \A r \in Step \ {s} : pc'[r] = pc[r]
    BY <1>g DEF Execute, Goto, Inv1, TypeOK
  <2> QED
    BY <2>1, <2>2 DEF Published, Seeds
<1>h. ASSUME NEW s \in Step, Enqueue(s) PROVE Published'
  <2>1. Target(s, edge[s]) \in Step
    BY <1>h, OutEdgesType DEF Enqueue, Inv1, Control, CallControl
  <2>2. \A r \in Step : pc'[r] = "finish" => pc[r] = "finish"
    BY <1>h DEF Enqueue, Goto, Inv1, TypeOK
  <2> QED
    BY <1>1, <1>2, <1>h, <2>1, <2>2 DEF Enqueue
<1>i. ASSUME NEW s \in Step, Fallback(s) PROVE Published'
  <2>1. \A r \in Step : pc'[r] = "finish" => pc[r] = "finish"
    BY <1>i DEF Fallback, Return, Inv1, TypeOK
  <2> QED
    BY <1>1, <1>2, <1>i, <2>1 DEF Fallback
<1>j. CASE UNCHANGED vars
  BY <1>1, <1>j DEF vars
<1> QED
  BY <1>a, <1>b, <1>c, <1>d, <1>e, <1>f, <1>g, <1>h, <1>i, <1>j
  DEF Next, MainStep, Worker, ConcurrentMapAccess, PanicOnTornState, Terminated

(* A step that is released finds the output of every step that satisfied   *)
(* its gate.                                                               *)
THEOREM OutputsAreVisible == Spec => []OutputsVisible
<1>1. Init => Published
  BY DEF Init, Published, Seeds
<1>2. Published => OutputsVisible
  <2> SUFFICES ASSUME Published, NEW t \in Step, NEW e \in SatisfiedEdges(status, branch, t)
               PROVE  context[e[1]] # "none"
    BY DEF OutputsVisible
  <2>1. e[1] \in Step /\ status[e[1]] = "SUCCEEDED"
    BY InEdgesSource DEF SatisfiedEdges
  <2> QED
    BY <2>1 DEF Published
<1> QED
  BY <1>1, <1>2, PublishedStep, Inv1Always, PTL DEF Spec

(***************************************************************************)
(* GateFollowed: a counter that opens the gate of a PENDING step was       *)
(* brought there by an increment whose own test or release is still to     *)
(* come.  An open gate that nobody is at therefore shows in no counter.    *)
(***************************************************************************)
AtGate(s, t) == pc[s] \in {"gate", "enqueue"} /\ Target(s, edge[s]) = t

GateFollowed ==
    \A t \in Step : status[t] = "PENDING" /\ GateTest(t) => \E s \in Step : AtGate(s, t)

LEMMA GateFollowedStep == Inv1 /\ GateFollowed /\ [Next]_vars => GateFollowed'
<1> SUFFICES ASSUME Inv1, GateFollowed, [Next]_vars,
                    NEW t \in Step, (status[t] = "PENDING" /\ GateTest(t))'
             PROVE  (\E s \in Step : AtGate(s, t))'
  BY DEF GateFollowed
<1>1. ASSUME NEW s \in Step, status[t] = "PENDING", inboundSatisfied'[t] = inboundSatisfied[t],
             \A r \in Step \ {s} : pc'[r] = pc[r] /\ edge'[r] = edge[r],
             ~AtGate(s, t) \/ AtGate(s, t)'
      PROVE  (\E r \in Step : AtGate(r, t))'
  <2>1. GateTest(t)
    BY <1>1 DEF GateTest
  <2>2. PICK r \in Step : AtGate(r, t)
    BY <1>1, <2>1 DEF GateFollowed
  <2> QED
    BY <1>1, <2>2 DEF AtGate, Target
<1>2. ASSUME UNCHANGED <<inboundSatisfied, pc, edge>>, status[t] = "PENDING"
      PROVE  (\E r \in Step : AtGate(r, t))'
  BY <1>1, <1>2 DEF AtGate, Target
<1>a. CASE MarkSeeds
  BY <1>2, <1>a DEF MarkSeeds
<1>b. CASE NextSeed
  <2>1. UNCHANGED <<status, inboundSatisfied, edge>>
    BY <1>b DEF NextSeed
  <2>2. CASE seeded = {}
    BY <1>2, <1>b, <2>1, <2>2 DEF NextSeed
  <2>3. ASSUME NEW s \in seeded, pc' = [pc EXCEPT ![s] = "edge"]
        PROVE  (\E r \in Step : AtGate(r, t))'
    <3>1. s \in Step /\ pc[s] = "none" /\ \A r \in Step \ {s} : pc'[r] = pc[r]
      BY <2>3 DEF Inv1, TypeOK, Control, MainControl
    <3> QED
      BY <1>1, <2>1, <3>1 DEF AtGate
  <2> QED
    BY <1>b, <2>2, <2>3 DEF NextSeed
<1>c. CASE Receive
  <2>1. Head(readyCh) \in Step
    BY <1>c, HeadTailProperties DEF Receive, Inv1, TypeOK
  <2>2. status[t] = "PENDING"
    BY <1>c, <2>1 DEF Receive, Inv1, TypeOK
  <2> QED
    BY <1>2, <1>c, <2>2 DEF Receive, callVars
<1>d. CASE Acquire
  <2>1. stepName \in Step /\ pc[stepName] = "none" /\ \A r \in Step \ {stepName} : pc'[r] = pc[r]
    BY <1>d DEF Acquire, Inv1, TypeOK, Control, MainControl
  <2> QED
    BY <1>1, <1>d, <2>1 DEF Acquire, callVars, AtGate
<1>e. CASE TestDone \/ ChooseDefault \/ SkipPending \/ Wait \/ Leave \/ Crash
  BY <1>2, <1>e DEF TestDone, ChooseDefault, SkipPending, Wait, Leave, Crash, callVars
<1>f. ASSUME NEW s \in Step,
             \/ Snapshot(s) \/ Skip(s) \/ BadInput(s) \/ ExecuteError(s) \/ Execute(s)
             \/ Finish(s) \/ NextEdge(s) \/ LeaveOutbound(s)
             \/ Retry(s) \/ Backoff(s) \/ Resend(s) \/ GiveUp(s)
      PROVE  (\E r \in Step : AtGate(r, t))'
  <2>1. pc[s] \notin {"gate", "enqueue"} /\ UNCHANGED inboundSatisfied
    BY <1>f DEF Snapshot, Skip, BadInput, ExecuteError, Execute, Finish, NextEdge,
                LeaveOutbound, Retry, Backoff, Resend, GiveUp
  <2>2. \E label \in CallLabel : pc' = [pc EXCEPT ![s] = label]
    BY <1>f DEF Snapshot, Skip, BadInput, ExecuteError, Execute, Finish, NextEdge,
                LeaveOutbound, Retry, Backoff, Resend, GiveUp, Goto, Return, CallLabel
  <2>3. UNCHANGED edge \/ \E k : edge' = [edge EXCEPT ![s] = k]
    BY <1>f DEF Snapshot, Skip, BadInput, ExecuteError, Execute, Finish, NextEdge,
                LeaveOutbound, Retry, Backoff, Resend, GiveUp, callVars
  <2>4. \A r \in Step \ {s} : pc'[r] = pc[r] /\ edge'[r] = edge[r]
    BY <2>2, <2>3 DEF Inv1, TypeOK
  <2>5. status' = status \/ \E v \in Final \cup {"READY"} : status' = [status EXCEPT ![s] = v]
    BY <1>f DEF Snapshot, Skip, BadInput, ExecuteError, Execute, Finish, NextEdge,
                LeaveOutbound, Retry, Backoff, Resend, GiveUp, Final
  <2>6. status[t] = "PENDING"
    BY <2>5 DEF Final, Inv1, TypeOK
  <2> QED
    BY <1>1, <2>1, <2>4, <2>6 DEF AtGate
<1>g. ASSUME NEW s \in Step, Bump(s) PROVE (\E r \in Step : AtGate(r, t))'
  <2>1. /\ UNCHANGED <<status, edge>> /\ pc[s] = "bump" /\ pc'[s] = "gate"
        /\ \A r \in Step \ {s} : pc'[r] = pc[r]
    BY <1>g DEF Bump, Goto, Inv1, TypeOK
  <2>2. CASE Target(s, edge[s]) = t
    BY <2>1, <2>2 DEF AtGate, Target
  <2>3. CASE Target(s, edge[s]) # t
    <3>1. inboundSatisfied'[t] = inboundSatisfied[t]
      BY <1>g, <2>3 DEF Bump, Inv1, TypeOK
    <3> QED
      BY <1>1, <2>1, <3>1 DEF AtGate
  <2> QED
    BY <2>2, <2>3
<1>h. ASSUME NEW s \in Step, TestGate(s) PROVE (\E r \in Step : AtGate(r, t))'
  <2>1. /\ UNCHANGED <<status, edge, inboundSatisfied>>
        /\ pc'[s] = IF GateTest(Target(s, edge[s])) THEN "enqueue" ELSE "edge"
        /\ \A r \in Step \ {s} : pc'[r] = pc[r]
    BY <1>h DEF TestGate, Goto, callVars, Inv1, TypeOK
  <2>2. AtGate(s, t) => AtGate(s, t)'
    <3>1. GateTest(t)
      BY <2>1 DEF GateTest
    <3> QED
      BY <2>1, <3>1 DEF AtGate, Target
  <2> QED
    BY <1>1, <2>1, <2>2
<1>i. ASSUME NEW s \in Step, Enqueue(s) PROVE (\E r \in Step : AtGate(r, t))'
  <2>1. /\ UNCHANGED <<edge, inboundSatisfied>>
        /\ \A r \in Step \ {s} : pc'[r] = pc[r]
    BY <1>i DEF Enqueue, Goto, callVars, Inv1, TypeOK
  <2>2. Target(s, edge[s]) # t /\ status[t] = "PENDING"
    BY <1>i DEF Enqueue, MarkReady, Inv1, TypeOK
  <2> QED
    BY <1>1, <2>1, <2>2 DEF AtGate
<1>j. ASSUME NEW s \in Step, Fallback(s) PROVE (\E r \in Step : AtGate(r, t))'
  <2>1. /\ UNCHANGED <<edge, inboundSatisfied>> /\ pc[s] = "fallback"
        /\ \A r \in Step \ {s} : pc'[r] = pc[r]
    BY <1>j DEF Fallback, Return, callVars, Inv1, TypeOK
  <2>2. status[t] = "PENDING"
    BY <1>j DEF Fallback, MarkReady, Inv1, TypeOK
  <2> QED
    BY <1>1, <2>1, <2>2 DEF AtGate
<1>k. CASE UNCHANGED vars
  BY <1>2, <1>k DEF vars, callVars
<1> QED
  BY <1>a, <1>b, <1>c, <1>d, <1>e, <1>f, <1>g, <1>h, <1>i, <1>j, <1>k
  DEF Next, MainStep, Worker, ConcurrentMapAccess, PanicOnTornState, Terminated

(* A PENDING step with an open gate is about to be released, or increments *)
(* of its counter were lost or are still to come: there is no third way in *)
(* which the default case gives up a step that should run.                 *)
THEOREM OpenGatesExplained == Spec => []OpenGateHasReason
<1>1. Init => GateFollowed
  <2> SUFFICES ASSUME Init, NEW t \in Step, status[t] = "PENDING", GateTest(t) PROVE FALSE
    BY DEF GateFollowed
  <2>1. InEdges(t) # {} /\ inboundSatisfied[t] = 0
    BY DEF Init, Roots
  <2>2. inboundTotal[t] = Cardinality(InEdges(t)) /\ Cardinality(InEdges(t)) \in Nat \ {0}
    BY <2>1, InEdgesFinite, FS_CardinalityType, FS_EmptySet DEF inboundTotal, InboundCount
  <2> QED
    BY <2>1, <2>2 DEF GateTest
<1>2. Inv2 /\ GateFollowed => OpenGateHasReason
  <2> SUFFICES ASSUME Inv2, GateFollowed, NEW t \in Step, status[t] = "PENDING",
                      GateOpen(status, branch, t),
                      ~(inboundSatisfied[t] < Cardinality(SatisfiedEdges(status, branch, t)))
               PROVE  \E s \in Step : InOutbound(s) /\ pc[s] # "edge" /\ Target(s, edge[s]) = t
    BY DEF OpenGateHasReason
  <2> DEFINE Sat == SatisfiedEdges(status, branch, t)
  <2>1. IsFiniteSet(InEdges(t)) /\ Sat \subseteq InEdges(t)
    BY InEdgesFinite DEF SatisfiedEdges
  <2>2. IsFiniteSet(Sat) /\ Cardinality(Sat) \in Nat /\ Cardinality(InEdges(t)) \in Nat
    BY <2>1, FS_Subset, FS_CardinalityType
  <2>3. inboundSatisfied[t] \in Nat /\ inboundSatisfied[t] >= Cardinality(Sat)
    BY <2>2 DEF Inv2, Inv1, TypeOK
  <2>4. inboundTotal[t] = Cardinality(InEdges(t))
    BY DEF inboundTotal, InboundCount
  <2>5. GateTest(t)
    <3>1. CASE StepReadinessThreshold(t) = "ANY"
      <4>1. Sat # {}
        BY <3>1 DEF GateOpen
      <4>2. Cardinality(Sat) # 0
        BY <2>2, <4>1, FS_EmptySet
      <4> QED
        BY <2>2, <2>3, <3>1, <4>2 DEF GateTest
    <3>2. CASE StepReadinessThreshold(t) # "ANY"
      <4>1. Sat = InEdges(t)
        BY <3>2 DEF GateOpen
      <4> QED
        BY <2>3, <2>4, <4>1 DEF GateTest
    <3> QED
      BY <3>1, <3>2
  <2>6. PICK s \in Step : AtGate(s, t)
    BY <2>5 DEF GateFollowed
  <2> QED
    BY <2>6 DEF AtGate, InOutbound
<1>3. Inv2 => Inv1
  BY DEF Inv2
<1> QED
  BY <1>1, <1>2, <1>3, GateFollowedStep, Inv2Always, PTL DEF Spec

-----------------------------------------------------------------------------
(***************************************************************************)
(* What WorkflowRun promises, Scheduler keeps: its steps are those of      *)
(* WorkflowRun, and what holds of them there holds here.                   *)
(***************************************************************************)
PromiseGrows ==
    \A s \in Step :
        /\ status[s] = "SUCCEEDED" => status'[s] = "SUCCEEDED" /\ bar'[s] = bar[s]
        /\ status[s] = "FAILED" => status'[s] = "FAILED"

PromiseReason(t) ==
    t \in Promise!Roots \cup SeedCompleted \/ Promise!GateOpen(status, bar, t) \/ Promise!FallbackDue(status, t)

LEMMA ReasonRemains ==
    ASSUME PromiseGrows, NEW t, PromiseReason(t)
    PROVE  PromiseReason(t)'
<1>1. \A e \in Promise!InEdges(t) : e[1] \in Step
  BY DEF Promise!InEdges, Promise!AllEdges
<1>2. Promise!SatisfiedEdges(status, bar, t) \subseteq Promise!SatisfiedEdges(status', bar', t)
  BY <1>1 DEF Promise!SatisfiedEdges, PromiseGrows
<1>3. Promise!SatisfiedEdges(status', bar', t) \subseteq Promise!InEdges(t)
  BY DEF Promise!SatisfiedEdges
<1>4. Promise!GateOpen(status, bar, t) => Promise!GateOpen(status', bar', t)
  BY <1>2, <1>3 DEF Promise!GateOpen
<1>5. Promise!FallbackDue(status, t) => Promise!FallbackDue(status', t)
  BY DEF Promise!FallbackDue, PromiseGrows
<1> QED
  BY <1>4, <1>5 DEF PromiseReason

(* Before anything has succeeded or failed there is no reason but the      *)
(* graph's.                                                                *)
LEMMA NoReasonYet ==
    ASSUME \A s \in Step : status[s] \in {"READY", "PENDING"}, NEW t, PromiseReason(t)
    PROVE  t \in Promise!Roots \cup SeedCompleted
<1>1. \A e \in Promise!InEdges(t) : e[1] \in Step
  BY DEF Promise!InEdges, Promise!AllEdges
<1>2. Promise!SatisfiedEdges(status, bar, t) = {}
  BY <1>1 DEF Promise!SatisfiedEdges
<1>3. ~Promise!GateOpen(status, bar, t)
  BY <1>2 DEF Promise!GateOpen
<1>4. ~Promise!FallbackDue(status, t)
  BY DEF Promise!FallbackDue
<1> QED
  BY <1>3, <1>4 DEF PromiseReason

(* A step of WorkflowRun keeps each end.                                   *)
LEMMA PromiseKeepsEnds ==
    ASSUME TypeOK, Promise!Next
    PROVE  \A s \in Step : status[s] \in {"SUCCEEDED", "FAILED", "SKIPPED"} =>
               status'[s] = status[s] /\ bar'[s] = bar[s]
<1>0. \A s \in Step : bar[s] = IF status[s] = "SUCCEEDED" THEN branch[s] ELSE NoBranch
  BY DEF bar
<1>1. CASE Promise!Resume
  BY <1>1 DEF Promise!Resume
<1>2. CASE Promise!GiveUpPending
  BY <1>2 DEF Promise!GiveUpPending, bar, TypeOK
<1>3. ASSUME NEW r \in Step, Promise!StepNext(r)
      PROVE  \A s \in Step : status[s] \in {"SUCCEEDED", "FAILED", "SKIPPED"} =>
                 status'[s] = status[s] /\ bar'[s] = bar[s]
  <2>1. CASE Promise!Release(r)
    BY <2>1 DEF Promise!Release, bar, TypeOK
  <2>2. CASE Promise!Start(r)
    BY <2>2 DEF Promise!Start, bar, TypeOK
  <2>3. CASE Promise!Succeed(r)
    BY <2>3 DEF Promise!Succeed, bar, TypeOK
  <2>4. ASSUME NEW outcome \in {"FAILED", "SKIPPED", "READY"}, Promise!Settle(r, outcome)
        PROVE  \A s \in Step : status[s] \in {"SUCCEEDED", "FAILED", "SKIPPED"} =>
                   status'[s] = status[s] /\ bar'[s] = bar[s]
    BY <2>4 DEF Promise!Settle, bar, TypeOK
  <2> QED
    BY <1>3, <2>1, <2>2, <2>3, <2>4 DEF Promise!StepNext
<1> QED
  BY <1>1, <1>2, <1>3 DEF Promise!Next

LEMMA ReasonStep ==
    ASSUME TypeOK, Promise!ReleasedForReason, Promise!Next
    PROVE  Promise!ReleasedForReason'
<1> DEFINE Active == {"READY", "RUNNING", "SUCCEEDED", "FAILED"}
<1>1. \A t \in Step : status[t] \in Active => PromiseReason(t)
  BY DEF Promise!ReleasedForReason, Promise!Reason, PromiseReason, bar
<1>2. PromiseGrows
  BY PromiseKeepsEnds DEF PromiseGrows
<1> SUFFICES ASSUME NEW t \in Step, status'[t] \in Active PROVE PromiseReason(t)'
  BY DEF Promise!ReleasedForReason, Promise!Reason, PromiseReason, bar
<1>3. CASE status[t] \in Active
  BY <1>1, <1>2, <1>3, ReasonRemains
<1>4. CASE status[t] \notin Active
  <2>1. CASE Promise!Resume
    BY <1>4, <2>1 DEF Promise!Resume, PromiseReason
  <2>2. CASE Promise!GiveUpPending
    BY <1>4, <2>2 DEF Promise!GiveUpPending, TypeOK
  <2>3. ASSUME NEW r \in Step, Promise!StepNext(r) PROVE PromiseReason(t)'
    <3>1. CASE Promise!Release(r)
      <4>1. r = t
        BY <1>4, <3>1 DEF Promise!Release, TypeOK
      <4>2. PromiseReason(t)
        BY <3>1, <4>1 DEF Promise!Release, PromiseReason, bar
      <4> QED
        BY <1>2, <4>2, ReasonRemains
    <3>2. CASE Promise!Start(r) \/ Promise!Succeed(r) \/ \E outcome : Promise!Settle(r, outcome)
      BY <1>4, <3>2 DEF Promise!Start, Promise!Succeed, Promise!Settle, TypeOK
    <3> QED
      BY <2>3, <3>1, <3>2 DEF Promise!StepNext
  <2> QED
    BY <2>1, <2>2, <2>3 DEF Promise!Next
<1> QED
  BY <1>3, <1>4

(* No step is released or executed but for a reason that WorkflowRun       *)
(* knows, and the reason holds from then on: no race, no retry, no lost    *)
(* increment and no step that is given up makes a step run too early.      *)
THEOREM ReleasesAreJustified == Spec => []Promise!ReleasedForReason
<1>1. Init => Promise!ReleasedForReason
  BY DEF Init, Promise!ReleasedForReason, Promise!Reason, Roots, Promise!Roots, InEdges,
     Promise!InEdges, AllEdges, Promise!AllEdges, OutEdges, Promise!OutEdges, Target, Promise!Target
<1>2. Inv2 /\ Promise!ReleasedForReason /\ [Next]_vars => Promise!ReleasedForReason'
  <2> SUFFICES ASSUME Inv2, Promise!ReleasedForReason, [Next]_vars
               PROVE  Promise!ReleasedForReason'
    OBVIOUS
  <2>1. CASE Promise!Next
    BY <2>1, ReasonStep DEF Inv2, Inv1
  <2>2. CASE UNCHANGED Promise!vars
    BY <2>2 DEF Promise!vars, Promise!ReleasedForReason, Promise!Reason
  <2> QED
    BY <2>1, <2>2, PromiseStep
<1> QED
  BY <1>1, <1>2, Inv2Always, PTL DEF Spec

(* What has ended stays as it ended, with the branch it took: retries put  *)
(* back only steps that have not.                                          *)
THEOREM EndsAreKept == Spec => Promise!EndsAreFinal
<1>1. Inv2 /\ [Next]_vars =>
        [\A s \in Step : status[s] \in {"SUCCEEDED", "FAILED", "SKIPPED"} =>
             status'[s] = status[s] /\ bar'[s] = bar[s]]_(Promise!vars)
  <2> SUFFICES ASSUME Inv2, [Next]_vars, Promise!Next
               PROVE  \A s \in Step : status[s] \in {"SUCCEEDED", "FAILED", "SKIPPED"} =>
                          status'[s] = status[s] /\ bar'[s] = bar[s]
    BY PromiseStep
  <2> QED
    BY PromiseKeepsEnds DEF Inv2, Inv1
<1> QED
  BY <1>1, Inv2Always, PTL DEF Spec, Promise!EndsAreFinal, Promise!Final, bar
=============================================================================
