-------------------------- MODULE SchedulerProofs --------------------------
(***************************************************************************)
(* Proofs about Scheduler, for every workflow and every degree of          *)
(* parallelism: types and control, the channel and the single call per     *)
(* step, the soundness of the racy counters, and the implementation of     *)
(* WorkflowRun.                                                            *)
(***************************************************************************)
EXTENDS Scheduler, FiniteSetTheorems, SequenceTheorems, TLAPS

(***************************************************************************)
(* Control: what the control point of a call says of its step, and what    *)
(* the control point of Run says of the calls.                             *)
(***************************************************************************)
Executing(s) == pc[s] \in {"start", "skip", "exec", "finish", "failing", "backoff"}

CallControl(s) ==
    /\ todo[s] \subseteq OutEdges(s)
    /\ pc[s] \in {"bump", "gate", "enqueue"} => edge[s] \in OutEdges(s)
    /\ Executing(s) => status[s] = "RUNNING"
    /\ InOutbound(s) => status[s] = "SUCCEEDED"
    /\ ~InOutbound(s) => todo[s] = {}
    /\ pc[s] = "resend" => status[s] = "READY"
    /\ pc[s] = "fallback" => status[s] = "FAILED"

MainControl ==
    /\ main = "acquire" => /\ stepName \in Step
                           /\ status[stepName] = "RUNNING"
                           /\ pc[stepName] = "none"
    /\ main = "seed" => \A s \in Step : pc[s] = "none" /\ status[s] \in {"READY", "PENDING"}
    /\ \A s \in seeded : status[s] = "SUCCEEDED" /\ pc[s] = "none"
    /\ seeded # {} => main \in {"seeding", "crashed"}

Control == MainControl /\ \A s \in Step : CallControl(s)

Inv1 == TypeOK /\ Control /\ QueueSound

(* An edge of the graph leads to a step. *)
LEMMA OutEdgesType ==
    ASSUME NEW s \in Step
    PROVE  /\ OutEdges(s) \in SUBSET Nat
           /\ \A k \in OutEdges(s) : Target(s, k) \in Step
           /\ \A b : Taken(s, b) \subseteq OutEdges(s)
<1>1. OutboundEdges[s] \in Seq(Edge)
  BY EdgesAssumption
<1>2. DOMAIN OutboundEdges[s] = 1..Len(OutboundEdges[s]) /\ Len(OutboundEdges[s]) \in Nat
  BY <1>1, LenProperties
<1> QED
  BY <1>2 DEF OutEdges, Target, Taken

LEMMA RootsFinite == Roots \subseteq Step /\ IsFiniteSet(Roots) /\ Cardinality(Roots) \in Nat
<1>1. Roots \in SUBSET Step
  BY DEF Roots
<1> QED
  BY <1>1, StepAssumption, FS_Subset, FS_CardinalityType

LEMMA InitInv1 == Init => Inv1
<1> SUFFICES ASSUME Init PROVE Inv1
  OBVIOUS
<1>1. readyCh \in Seq(Step) /\ Len(readyCh) = Cardinality(Roots)
  BY RootsFinite DEF Init
<1>2. TypeOK
  BY <1>1, BranchAssumption DEF Init, TypeOK, Final, MainLabel, CallLabel, Seeds
<1>3. Control
  BY DEF Init, Control, MainControl, CallControl, Executing, InOutbound
<1>4. QueueSound
  <2>1. readyCh \in Injection(1..Cardinality(Roots), Roots)
    BY RootsFinite DEF Init, Injection, IsInjective
  <2>2. Cardinality(1..Cardinality(Roots)) = Cardinality(Roots)
    BY RootsFinite, FS_Interval
  <2>3. readyCh \in Surjection(1..Cardinality(Roots), Roots)
    BY <2>1, <2>2, RootsFinite, FS_Injection
  <2>4. \A s \in Roots : \E i \in DOMAIN readyCh : readyCh[i] = s
    BY <2>3 DEF Surjection, Init
  <2> QED
    BY <2>4, RootsFinite DEF Init, QueueSound
<1> QED
  BY <1>2, <1>3, <1>4 DEF Inv1

LEMMA MarkReadyType ==
    ASSUME TypeOK, NEW t \in Step, MarkReady(t)
    PROVE  /\ status' \in [Step -> Final \cup {"PENDING", "READY", "RUNNING"}]
           /\ readyCh' \in Seq(Step)
<1>1. Append(readyCh, t) \in Seq(Step)
  BY AppendProperties DEF TypeOK
<1> QED
  BY <1>1 DEF MarkReady, TypeOK

LEMMA ReturnType ==
    ASSUME TypeOK, NEW s \in Step, Return(s)
    PROVE  pc' \in [Step -> CallLabel] /\ slots' \in Int /\ leaving' \in Nat
<1>1. leaving' \in Nat
  BY DEF Return, TypeOK
<1>2. pc' \in [Step -> CallLabel]
  BY DEF Return, TypeOK, CallLabel
<1> QED
  BY <1>1, <1>2 DEF Return, TypeOK

LEMMA GotoType ==
    ASSUME TypeOK, NEW s \in Step, NEW label \in CallLabel, Goto(s, label)
    PROVE  pc' \in [Step -> CallLabel] /\ slots' \in Int /\ leaving' \in Nat
  BY DEF Goto, goVars, TypeOK

LEMMA TypeStep == Inv1 /\ [Next]_vars => TypeOK'
<1> SUFFICES ASSUME Inv1, [Next]_vars PROVE TypeOK'
  OBVIOUS
<1> USE DEF Inv1, TypeOK
<1>a. CASE MarkSeeds
  <2>1. Cardinality(Seeds) \in Nat
    <3>1. Seeds \in SUBSET Step
      BY DEF Seeds
    <3> QED
      BY <3>1, StepAssumption, FS_Subset, FS_CardinalityType
  <2> QED
    BY <1>a, <2>1, SeedAssumption DEF MarkSeeds, Final, MainLabel, goVars, Seeds
<1>b. CASE NextSeed
  <2>1. \A s \in Step : \A b : Taken(s, b) \in SUBSET Nat
    BY OutEdgesType
  <2>2. ASSUME NEW s \in seeded,
               todo' = [todo EXCEPT ![s] = Taken(s, branch[s])],
               pc' = [pc EXCEPT ![s] = "edge"]
        PROVE  todo' \in [Step -> SUBSET Nat] /\ pc' \in [Step -> CallLabel]
    BY <2>1, <2>2 DEF CallLabel
  <2> QED
    BY <1>b, <2>2 DEF NextSeed, MainLabel, goVars, tallyVars
<1>c. CASE TestDone
  BY <1>c DEF TestDone, MainLabel, goVars, tallyVars, callVars
<1>d. CASE Receive
  <2>1. Head(readyCh) \in Step /\ Tail(readyCh) \in Seq(Step)
    BY <1>d, HeadTailProperties DEF Receive
  <2> QED
    BY <1>d, <2>1 DEF Receive, MainLabel, goVars, tallyVars, callVars
<1>e. CASE Acquire
  <2>0. slots' \in Int /\ leaving' \in Nat
    BY <1>e DEF Acquire
  <2>1. pc' \in [Step -> CallLabel]
    BY <1>e DEF Acquire, CallLabel
  <2>2. main' \in MainLabel /\ stepName' \in Step \cup {NoStep} /\ seeded' \subseteq Step
    BY <1>e DEF Acquire, MainLabel
  <2> QED
    BY <1>e, <2>0, <2>1, <2>2 DEF Acquire, tallyVars, callVars
<1>f. CASE ChooseDefault
  BY <1>f DEF ChooseDefault, MainLabel, goVars, tallyVars, callVars
<1>g. CASE SkipPending
  <2>1. Cardinality(WithStatus({"PENDING"})) \in Nat
    <3>1. WithStatus({"PENDING"}) \in SUBSET Step
      BY DEF WithStatus
    <3> QED
      BY <3>1, StepAssumption, FS_Subset, FS_CardinalityType
  <2> QED
    BY <1>g, <2>1 DEF SkipPending, Final, MainLabel, goVars, callVars
<1>h. CASE Wait
  BY <1>h DEF Wait, MainLabel, goVars, tallyVars, callVars
<1>i. ASSUME NEW s \in Step, Snapshot(s) PROVE TypeOK'
  <2>0. Return(s) \/ \E next \in CallLabel : Goto(s, next)
    BY <1>i DEF Snapshot, CallLabel
  <2>1. pc' \in [Step -> CallLabel] /\ slots' \in Int /\ leaving' \in Nat
    BY <2>0, ReturnType, GotoType
  <2> QED
    BY <1>i, <2>1 DEF Snapshot, loopVars, tallyVars, callVars
<1>j. ASSUME NEW s \in Step, Skip(s) PROVE TypeOK'
  BY <1>j DEF Skip, Return, Final, CallLabel, loopVars, callVars
<1>k. ASSUME NEW s \in Step, BadInput(s) PROVE TypeOK'
  BY <1>k DEF BadInput, Return, CallLabel, loopVars, tallyVars, callVars
<1>l. ASSUME NEW s \in Step, ExecuteError(s) PROVE TypeOK'
  BY <1>l DEF ExecuteError, Goto, CallLabel, loopVars, goVars, tallyVars, callVars
<1>m. ASSUME NEW s \in Step, Execute(s) PROVE TypeOK'
  <2>0. Branches[s] \subseteq BranchName
    BY BranchesAssumption
  <2>1. branch' \in [Step -> BranchName]
    BY <1>m, <2>0 DEF Execute
  <2>2. context' \in [Step -> {"none", "success", "unencodable"}]
    BY <1>m DEF Execute
  <2>3. pc' \in [Step -> CallLabel] /\ slots' \in Int /\ leaving' \in Nat
    BY <1>m DEF Execute, Goto, goVars, CallLabel
  <2> QED
    BY <1>m, <2>1, <2>2, <2>3 DEF Execute, loopVars, tallyVars
<1>n. ASSUME NEW s \in Step, Finish(s) PROVE TypeOK'
  <2>1. Taken(s, branch[s]) \in SUBSET Nat
    BY OutEdgesType
  <2> QED
    BY <1>n, <2>1 DEF Finish, Goto, Final, CallLabel, loopVars, goVars
<1>o. ASSUME NEW s \in Step, NextEdge(s) PROVE TypeOK'
  <2>1. \A k \in todo[s] : Target(s, k) \in Step
    BY OutEdgesType DEF Control, CallControl
  <2> QED
    BY <1>o, <2>1 DEF NextEdge, Goto, CallLabel, loopVars, goVars, tallyVars
<1>p. ASSUME NEW s \in Step, Bump(s) PROVE TypeOK'
  <2>0. seen[s] + 1 \in Nat
    OBVIOUS
  <2>1. inboundSatisfied' \in [Step -> Nat]
    <3>1. inboundSatisfied' = [inboundSatisfied EXCEPT ![Target(s, edge[s])] = seen[s] + 1]
      BY <1>p DEF Bump
    <3> QED
      BY <2>0, <3>1
  <2>2. todo' \in [Step -> SUBSET Nat]
    BY <1>p DEF Bump
  <2>3. pc' \in [Step -> CallLabel] /\ slots' \in Int /\ leaving' \in Nat
    BY <1>p DEF Bump, Goto, goVars, CallLabel
  <2> QED
    BY <1>p, <2>1, <2>2, <2>3 DEF Bump, loopVars, tallyVars
<1>q. ASSUME NEW s \in Step, TestGate(s) PROVE TypeOK'
  BY <1>q DEF TestGate, Goto, CallLabel, loopVars, goVars, tallyVars, callVars
<1>r. ASSUME NEW s \in Step, Enqueue(s) PROVE TypeOK'
  <2>1. Target(s, edge[s]) \in Step
    BY <1>r, OutEdgesType DEF Enqueue, Control, CallControl
  <2>2. /\ status' \in [Step -> Final \cup {"PENDING", "READY", "RUNNING"}]
        /\ readyCh' \in Seq(Step)
    BY <1>r, <2>1, MarkReadyType DEF Enqueue
  <2>3. pc' \in [Step -> CallLabel] /\ slots' \in Int /\ leaving' \in Nat
    BY <1>r DEF Enqueue, Goto, goVars, CallLabel
  <2> QED
    BY <1>r, <2>2, <2>3 DEF Enqueue, loopVars, tallyVars, callVars
<1>s. ASSUME NEW s \in Step, LeaveOutbound(s) PROVE TypeOK'
  <2>1. edge' \in [Step -> Nat] /\ seen' \in [Step -> Nat]
    BY <1>s DEF LeaveOutbound
  <2>2. pc' \in [Step -> CallLabel] /\ slots' \in Int /\ leaving' \in Nat
    <3>1. CASE main = "seeding"
      BY <1>s, <3>1 DEF LeaveOutbound, goVars, CallLabel
    <3>2. CASE main # "seeding"
      BY <1>s, <3>2, ReturnType DEF LeaveOutbound
    <3> QED
      BY <3>1, <3>2
  <2> QED
    BY <1>s, <2>1, <2>2 DEF LeaveOutbound, loopVars, tallyVars
<1>t. ASSUME NEW s \in Step, Retry(s) PROVE TypeOK'
  BY <1>t DEF Retry, Goto, CallLabel, loopVars, goVars, tallyVars, callVars
<1>u. ASSUME NEW s \in Step, Backoff(s) PROVE TypeOK'
  BY <1>u DEF Backoff, Goto, CallLabel, loopVars, goVars, tallyVars, callVars
<1>v. ASSUME NEW s \in Step, Resend(s) PROVE TypeOK'
  BY <1>v, AppendProperties DEF Resend, Return, CallLabel, loopVars, tallyVars, callVars
<1>w. ASSUME NEW s \in Step, GiveUp(s) PROVE TypeOK'
  BY <1>w DEF GiveUp, Goto, Final, CallLabel, loopVars, goVars, callVars
<1>x. ASSUME NEW s \in Step, Fallback(s) PROVE TypeOK'
  <2>1. /\ status' \in [Step -> Final \cup {"PENDING", "READY", "RUNNING"}]
        /\ readyCh' \in Seq(Step)
    BY <1>x, MarkReadyType DEF Fallback
  <2>2. pc' \in [Step -> CallLabel] /\ slots' \in Int /\ leaving' \in Nat
    BY <1>x DEF Fallback, Return, CallLabel
  <2> QED
    BY <1>x, <2>1, <2>2 DEF Fallback, loopVars, tallyVars, callVars
<1>y. CASE Leave
  BY <1>y DEF Leave, loopVars, tallyVars, callVars
<1>z. CASE Crash
  BY <1>z DEF Crash, MainLabel, goVars, tallyVars, callVars
<1>aa. CASE UNCHANGED vars
  BY <1>aa DEF vars, loopVars, goVars, tallyVars, callVars
<1> QED
  BY <1>a, <1>b, <1>c, <1>d, <1>e, <1>f, <1>g, <1>h, <1>i, <1>j, <1>k, <1>l, <1>m,
     <1>n, <1>o, <1>p, <1>q, <1>r, <1>s, <1>t, <1>u, <1>v, <1>w, <1>x, <1>y, <1>z, <1>aa
  DEF Next, MainStep, Worker, ConcurrentMapAccess, PanicOnTornState, Terminated
(***************************************************************************)
(* A call that works for s changes the control of no other step, except    *)
(* that it may make a PENDING one READY.                                   *)
(***************************************************************************)
OthersKept(s) ==
    /\ \A r \in Step \ {s} : /\ pc'[r] = pc[r] /\ todo'[r] = todo[r] /\ edge'[r] = edge[r]
                             /\ status'[r] = status[r] \/ status[r] = "PENDING"
    /\ UNCHANGED <<main, stepName, seeded>>

LEMMA CallStepControl ==
    ASSUME Inv1, NEW s \in Step, pc[s] # "none", OthersKept(s), CallControl(s)'
    PROVE  Control'
<1>1. ASSUME NEW r \in Step PROVE CallControl(r)'
  <2>1. CASE r = s
    BY <2>1
  <2>2. CASE r # s
    <3>1. /\ pc'[r] = pc[r] /\ todo'[r] = todo[r] /\ edge'[r] = edge[r]
          /\ status'[r] = status[r] \/ status[r] = "PENDING"
      BY <2>2 DEF OthersKept
    <3> QED
      BY <3>1 DEF Inv1, Control, CallControl, Executing, InOutbound
  <2> QED
    BY <2>1, <2>2
<1>2. MainControl'
  <2>1. main = "seed" => FALSE
    BY DEF Inv1, Control, MainControl
  <2>2. main = "acquire" => stepName \in Step \ {s}
    BY DEF Inv1, Control, MainControl
  <2>3. \A r \in seeded : r \in Step \ {s}
    BY DEF Inv1, TypeOK, Control, MainControl
  <2> QED
    BY <2>1, <2>2, <2>3 DEF OthersKept, Inv1, Control, MainControl
<1> QED
  BY <1>1, <1>2 DEF Control

LEMMA ControlStep == Inv1 /\ [Next]_vars => Control'
<1> SUFFICES ASSUME Inv1, [Next]_vars PROVE Control'
  OBVIOUS
<1>a. CASE MarkSeeds
  <2>1. \A r \in Step : pc'[r] = "none" /\ todo'[r] = {}
    BY <1>a DEF MarkSeeds, Inv1, Control, MainControl, CallControl, InOutbound
  <2>2. \A r \in Step : CallControl(r)'
    BY <2>1 DEF CallControl, Executing, InOutbound
  <2>3. MainControl'
    BY <1>a, <2>1 DEF MarkSeeds, MainControl, Seeds
  <2> QED
    BY <2>2, <2>3 DEF Control
<1>b. CASE NextSeed
  <2>1. CASE seeded = {}
    BY <1>b, <2>1 DEF NextSeed, Inv1, Control, MainControl, CallControl, Executing, InOutbound
  <2>2. ASSUME NEW s \in seeded,
               seeded' = seeded \ {s},
               todo' = [todo EXCEPT ![s] = Taken(s, branch[s])],
               pc' = [pc EXCEPT ![s] = "edge"], UNCHANGED main
        PROVE  Control'
    <3>1. s \in Step /\ status[s] = "SUCCEEDED"
      BY DEF Inv1, TypeOK, Control, MainControl
    <3>2. Taken(s, branch[s]) \subseteq OutEdges(s)
      BY <3>1, OutEdgesType
    <3>3. \A r \in Step \ {s} : pc'[r] = pc[r] /\ todo'[r] = todo[r]
      BY <2>2 DEF Inv1, TypeOK
    <3>4. pc'[s] = "edge" /\ todo'[s] = Taken(s, branch[s])
      BY <2>2, <3>1 DEF Inv1, TypeOK
    <3>5. UNCHANGED <<status, edge>>
      BY <1>b DEF NextSeed
    <3>6. CallControl(s)'
      BY <3>1, <3>2, <3>4, <3>5 DEF CallControl, Executing, InOutbound
    <3>7. \A r \in Step \ {s} : CallControl(r)'
      BY <3>3, <3>5 DEF Inv1, Control, CallControl, Executing, InOutbound
    <3>8. MainControl'
      BY <1>b, <2>2, <3>3, <3>5 DEF NextSeed, Inv1, TypeOK, Control, MainControl
    <3> QED
      BY <3>6, <3>7, <3>8 DEF Control
  <2> QED
    BY <1>b, <2>1, <2>2 DEF NextSeed
<1>c. CASE TestDone
  BY <1>c DEF TestDone, callVars, Inv1, Control, MainControl, CallControl, Executing, InOutbound
<1>d. CASE Receive
  <2>1. Head(readyCh) \in Step
    BY <1>d, HeadTailProperties DEF Receive, Inv1, TypeOK
  <2>2. UNCHANGED <<pc, todo, edge, seeded>> /\ main' \in {"acquire", "loop"} /\ main = "select"
    BY <1>d DEF Receive, callVars
  <2>3. CASE status[Head(readyCh)] = "READY"
    <3>1. pc[Head(readyCh)] = "none"
      <4>1. readyCh[1] = Head(readyCh) /\ 1 \in DOMAIN readyCh
        BY <1>d, EmptySeq, LenProperties DEF Receive, Inv1, TypeOK
      <4>2. pc[Head(readyCh)] # "resend"
        BY <2>1, <2>3, <4>1 DEF Inv1, QueueSound
      <4> QED
        BY <2>1, <2>3, <4>2
        DEF Inv1, TypeOK, CallLabel, Control, CallControl, Executing, InOutbound
    <3>2. /\ status' = [status EXCEPT ![Head(readyCh)] = "RUNNING"]
          /\ stepName' = Head(readyCh)
      BY <1>d, <2>3 DEF Receive
    <3>3. \A r \in Step : CallControl(r)'
      BY <2>1, <2>2, <3>1, <3>2 DEF Inv1, TypeOK, Control, CallControl, Executing, InOutbound
    <3>4. MainControl'
      BY <2>1, <2>2, <2>3, <3>1, <3>2 DEF Inv1, TypeOK, Control, MainControl
    <3> QED
      BY <3>3, <3>4 DEF Control
  <2>4. CASE status[Head(readyCh)] # "READY"
    BY <1>d, <2>2, <2>4 DEF Receive, Inv1, Control, MainControl, CallControl, Executing, InOutbound
  <2> QED
    BY <2>3, <2>4
<1>e. CASE Acquire
  <2>1. stepName \in Step /\ status[stepName] = "RUNNING" /\ pc[stepName] = "none"
    BY <1>e DEF Acquire, Inv1, Control, MainControl
  <2>2. pc' = [pc EXCEPT ![stepName] = "start"] /\ UNCHANGED <<status, todo, edge, seeded>>
    BY <1>e DEF Acquire, callVars
  <2>3. \A r \in Step : CallControl(r)'
    BY <2>1, <2>2 DEF Inv1, TypeOK, Control, CallControl, Executing, InOutbound
  <2>4. MainControl'
    BY <1>e, <2>1, <2>2 DEF Acquire, Inv1, TypeOK, Control, MainControl
  <2> QED
    BY <2>3, <2>4 DEF Control
<1>f. CASE ChooseDefault
  BY <1>f DEF ChooseDefault, callVars, Inv1, Control, MainControl, CallControl, Executing, InOutbound
<1>g. CASE SkipPending
  <2>1. \A r \in Step : status'[r] = status[r] \/ status[r] = "PENDING"
    BY <1>g DEF SkipPending
  <2>2. UNCHANGED <<pc, todo, edge, seeded>> /\ main' = "loop" /\ main = "default"
    BY <1>g DEF SkipPending, callVars
  <2>3. \A r \in Step : CallControl(r)'
    BY <2>1, <2>2 DEF Inv1, Control, CallControl, Executing, InOutbound
  <2>4. MainControl'
    BY <2>1, <2>2 DEF Inv1, TypeOK, Control, MainControl
  <2> QED
    BY <2>3, <2>4 DEF Control
<1>h. CASE Wait
  BY <1>h DEF Wait, callVars, Inv1, Control, MainControl, CallControl, Executing, InOutbound
<1>i. ASSUME NEW s \in Step, Snapshot(s) PROVE Control'
  <2>1. OthersKept(s)
    BY <1>i DEF Snapshot, OthersKept, Return, Goto, goVars, loopVars, callVars, Inv1, TypeOK
  <2>2. CallControl(s)'
    BY <1>i
    DEF Snapshot, Return, Goto, callVars, Inv1, TypeOK, Control, CallControl, Executing, InOutbound
  <2> QED
    BY <1>i, <2>1, <2>2, CallStepControl DEF Snapshot
<1>j. ASSUME NEW s \in Step, Skip(s) PROVE Control'
  <2>1. OthersKept(s)
    BY <1>j DEF Skip, OthersKept, Return, Goto, goVars, loopVars, callVars, Inv1, TypeOK
  <2>2. CallControl(s)'
    BY <1>j
    DEF Skip, Return, Goto, callVars, Inv1, TypeOK, Control, CallControl, Executing, InOutbound
  <2> QED
    BY <1>j, <2>1, <2>2, CallStepControl DEF Skip
<1>k. ASSUME NEW s \in Step, BadInput(s) PROVE Control'
  <2>1. OthersKept(s)
    BY <1>k DEF BadInput, OthersKept, Return, Goto, goVars, loopVars, callVars, Inv1, TypeOK
  <2>2. CallControl(s)'
    BY <1>k
    DEF BadInput, Return, Goto, callVars, Inv1, TypeOK, Control, CallControl, Executing, InOutbound
  <2> QED
    BY <1>k, <2>1, <2>2, CallStepControl DEF BadInput
<1>l. ASSUME NEW s \in Step, ExecuteError(s) PROVE Control'
  <2>1. OthersKept(s)
    BY <1>l DEF ExecuteError, OthersKept, Return, Goto, goVars, loopVars, callVars, Inv1, TypeOK
  <2>2. CallControl(s)'
    BY <1>l
    DEF ExecuteError, Return, Goto, callVars, Inv1, TypeOK, Control, CallControl, Executing, InOutbound
  <2> QED
    BY <1>l, <2>1, <2>2, CallStepControl DEF ExecuteError
<1>m. ASSUME NEW s \in Step, Execute(s) PROVE Control'
  <2>1. OthersKept(s)
    BY <1>m DEF Execute, OthersKept, Return, Goto, goVars, loopVars, callVars, Inv1, TypeOK
  <2>2. CallControl(s)'
    BY <1>m
    DEF Execute, Return, Goto, callVars, Inv1, TypeOK, Control, CallControl, Executing, InOutbound
  <2> QED
    BY <1>m, <2>1, <2>2, CallStepControl DEF Execute
<1>n. ASSUME NEW s \in Step, Finish(s) PROVE Control'
  <2>1. OthersKept(s)
    BY <1>n DEF Finish, OthersKept, Return, Goto, goVars, loopVars, callVars, Inv1, TypeOK
  <2>2. CallControl(s)'
    BY <1>n, OutEdgesType
    DEF Finish, Return, Goto, callVars, Inv1, TypeOK, Control, CallControl, Executing, InOutbound
  <2> QED
    BY <1>n, <2>1, <2>2, CallStepControl DEF Finish
<1>o. ASSUME NEW s \in Step, NextEdge(s) PROVE Control'
  <2>1. OthersKept(s)
    BY <1>o DEF NextEdge, OthersKept, Return, Goto, goVars, loopVars, callVars, Inv1, TypeOK
  <2>2. CallControl(s)'
    BY <1>o
    DEF NextEdge, Return, Goto, callVars, Inv1, TypeOK, Control, CallControl, Executing, InOutbound
  <2> QED
    BY <1>o, <2>1, <2>2, CallStepControl DEF NextEdge
<1>p. ASSUME NEW s \in Step, Bump(s) PROVE Control'
  <2>1. OthersKept(s)
    BY <1>p DEF Bump, OthersKept, Return, Goto, goVars, loopVars, callVars, Inv1, TypeOK
  <2>2. CallControl(s)'
    BY <1>p
    DEF Bump, Return, Goto, callVars, Inv1, TypeOK, Control, CallControl, Executing, InOutbound
  <2> QED
    BY <1>p, <2>1, <2>2, CallStepControl DEF Bump
<1>q. ASSUME NEW s \in Step, TestGate(s) PROVE Control'
  <2>1. OthersKept(s)
    BY <1>q DEF TestGate, OthersKept, Return, Goto, goVars, loopVars, callVars, Inv1, TypeOK
  <2>2. CallControl(s)'
    BY <1>q
    DEF TestGate, Return, Goto, callVars, Inv1, TypeOK, Control, CallControl, Executing, InOutbound
  <2> QED
    BY <1>q, <2>1, <2>2, CallStepControl DEF TestGate
<1>r. ASSUME NEW s \in Step, Enqueue(s) PROVE Control'
  <2>1. \A r \in Step : status'[r] = status[r] \/ status[r] = "PENDING"
    BY <1>r DEF Enqueue, MarkReady, Inv1, TypeOK
  <2>2. status[s] = "SUCCEEDED" /\ status'[s] = "SUCCEEDED"
    BY <1>r, <2>1 DEF Enqueue, Inv1, Control, CallControl, InOutbound
  <2>3. OthersKept(s)
    BY <1>r, <2>1 DEF Enqueue, OthersKept, Return, Goto, loopVars, callVars, Inv1, TypeOK
  <2>4. CallControl(s)'
    BY <1>r, <2>2 DEF Enqueue, Return, Goto, callVars, Inv1, TypeOK, Control, CallControl, Executing, InOutbound
  <2> QED
    BY <1>r, <2>3, <2>4, CallStepControl DEF Enqueue
<1>s. ASSUME NEW s \in Step, LeaveOutbound(s) PROVE Control'
  <2>1. OthersKept(s)
    BY <1>s DEF LeaveOutbound, OthersKept, Return, Goto, goVars, loopVars, callVars, Inv1, TypeOK
  <2>2. CallControl(s)'
    BY <1>s
    DEF LeaveOutbound, Return, Goto, callVars, Inv1, TypeOK, Control, CallControl, Executing, InOutbound
  <2> QED
    BY <1>s, <2>1, <2>2, CallStepControl DEF LeaveOutbound
<1>t. ASSUME NEW s \in Step, Retry(s) PROVE Control'
  <2>1. OthersKept(s)
    BY <1>t DEF Retry, OthersKept, Return, Goto, goVars, loopVars, callVars, Inv1, TypeOK
  <2>2. CallControl(s)'
    BY <1>t
    DEF Retry, Return, Goto, callVars, Inv1, TypeOK, Control, CallControl, Executing, InOutbound
  <2> QED
    BY <1>t, <2>1, <2>2, CallStepControl DEF Retry
<1>u. ASSUME NEW s \in Step, Backoff(s) PROVE Control'
  <2>1. OthersKept(s)
    BY <1>u DEF Backoff, OthersKept, Return, Goto, goVars, loopVars, callVars, Inv1, TypeOK
  <2>2. CallControl(s)'
    BY <1>u
    DEF Backoff, Return, Goto, callVars, Inv1, TypeOK, Control, CallControl, Executing, InOutbound
  <2> QED
    BY <1>u, <2>1, <2>2, CallStepControl DEF Backoff
<1>v. ASSUME NEW s \in Step, Resend(s) PROVE Control'
  <2>1. OthersKept(s)
    BY <1>v DEF Resend, OthersKept, Return, Goto, goVars, loopVars, callVars, Inv1, TypeOK
  <2>2. CallControl(s)'
    BY <1>v
    DEF Resend, Return, Goto, callVars, Inv1, TypeOK, Control, CallControl, Executing, InOutbound
  <2> QED
    BY <1>v, <2>1, <2>2, CallStepControl DEF Resend
<1>w. ASSUME NEW s \in Step, GiveUp(s) PROVE Control'
  <2>1. OthersKept(s)
    BY <1>w DEF GiveUp, OthersKept, Return, Goto, goVars, loopVars, callVars, Inv1, TypeOK
  <2>2. CallControl(s)'
    BY <1>w
    DEF GiveUp, Return, Goto, callVars, Inv1, TypeOK, Control, CallControl, Executing, InOutbound
  <2> QED
    BY <1>w, <2>1, <2>2, CallStepControl DEF GiveUp
<1>x. ASSUME NEW s \in Step, Fallback(s) PROVE Control'
  <2>1. \A r \in Step : status'[r] = status[r] \/ status[r] = "PENDING"
    BY <1>x DEF Fallback, MarkReady, Inv1, TypeOK
  <2>2. status[s] = "FAILED" /\ status'[s] = "FAILED"
    BY <1>x, <2>1 DEF Fallback, Inv1, Control, CallControl, InOutbound
  <2>3. OthersKept(s)
    BY <1>x, <2>1 DEF Fallback, OthersKept, Return, Goto, loopVars, callVars, Inv1, TypeOK
  <2>4. CallControl(s)'
    BY <1>x, <2>2 DEF Fallback, Return, Goto, callVars, Inv1, TypeOK, Control, CallControl, Executing, InOutbound
  <2> QED
    BY <1>x, <2>3, <2>4, CallStepControl DEF Fallback
<1>y. CASE Leave
  BY <1>y DEF Leave, loopVars, callVars, Inv1, Control, MainControl, CallControl, Executing, InOutbound
<1>z. CASE Crash
  BY <1>z DEF Crash, callVars, Inv1, Control, MainControl, CallControl, Executing, InOutbound
<1>aa. CASE UNCHANGED vars
  BY <1>aa DEF vars, loopVars, callVars, Inv1, Control, MainControl, CallControl, Executing, InOutbound
<1> QED
  BY <1>a, <1>b, <1>c, <1>d, <1>e, <1>f, <1>g, <1>h, <1>i, <1>j, <1>k, <1>l, <1>m,
     <1>n, <1>o, <1>p, <1>q, <1>r, <1>s, <1>t, <1>u, <1>v, <1>w, <1>x, <1>y, <1>z, <1>aa
  DEF Next, MainStep, Worker, ConcurrentMapAccess, PanicOnTornState, Terminated

(***************************************************************************)
(* The channel.  Most steps leave it alone and make no step READY.         *)
(***************************************************************************)
LEMMA QueueKept ==
    ASSUME Inv1, UNCHANGED readyCh,
           \A r \in Step : status'[r] = "READY" =>
               status[r] = "READY" /\ (pc'[r] = "resend" <=> pc[r] = "resend"),
           \A r \in Step : status[r] \in {"READY", "SUCCEEDED"} =>
               status'[r] \in {"READY", "SUCCEEDED"}
    PROVE  QueueSound'
<1>1. \A i \in DOMAIN readyCh : readyCh[i] \in Step
  BY LenProperties, ElementOfSeq DEF Inv1, TypeOK
<1> QED
  BY <1>1 DEF Inv1, QueueSound

(* One step t is sent that is not in the channel, and only t gets READY.   *)
LEMMA QueueSend ==
    ASSUME Inv1, NEW t \in Step, readyCh' = Append(readyCh, t), status'[t] = "READY",
           \A i \in DOMAIN readyCh : readyCh[i] # t,
           pc'[t] # "resend",
           \A r \in Step \ {t} : status'[r] = status[r],
           \A r \in Step \ {t} : status[r] = "READY" => pc'[r] = pc[r]
    PROVE  QueueSound'
<1> DEFINE n == Len(readyCh)
<1>1. n \in Nat /\ DOMAIN readyCh = 1..n
  BY LenProperties DEF Inv1, TypeOK
<1>2. /\ Append(readyCh, t) \in Seq(Step)
      /\ Len(Append(readyCh, t)) = n + 1
      /\ \A i \in 1..n : Append(readyCh, t)[i] = readyCh[i]
      /\ Append(readyCh, t)[n + 1] = t
  BY AppendProperties DEF Inv1, TypeOK
<1>3. DOMAIN readyCh' = 1..(n + 1)
  BY <1>2, LenProperties
<1>4. \A i \in 1..n : readyCh[i] \in Step
  BY ElementOfSeq DEF Inv1, TypeOK
<1>5. \A i \in DOMAIN readyCh' : i \in 1..n \/ i = n + 1
  BY <1>1, <1>3
<1>6. \A i \in 1..n : readyCh'[i] = readyCh[i] /\ readyCh'[i] # t
  BY <1>1, <1>2
<1>7. readyCh'[n + 1] = t /\ n + 1 \in DOMAIN readyCh'
  BY <1>1, <1>2, <1>3
<1> HIDE DEF n
<1>8. \A i, j \in DOMAIN readyCh' : readyCh'[i] = readyCh'[j] => i = j
  BY <1>1, <1>5, <1>6, <1>7 DEF Inv1, QueueSound
<1>9. \A i \in DOMAIN readyCh' : status'[readyCh'[i]] \in {"READY", "SUCCEEDED"}
  BY <1>1, <1>4, <1>5, <1>6, <1>7 DEF Inv1, QueueSound
<1>10. \A r \in Step : status'[r] = "READY" =>
          (pc'[r] = "resend" <=> ~\E i \in DOMAIN readyCh' : readyCh'[i] = r)
  <2> SUFFICES ASSUME NEW r \in Step, status'[r] = "READY"
               PROVE  pc'[r] = "resend" <=> ~\E i \in DOMAIN readyCh' : readyCh'[i] = r
    OBVIOUS
  <2>1. CASE r = t
    BY <2>1, <1>7
  <2>2. CASE r # t
    <3>1. pc[r] = "resend" <=> ~\E i \in DOMAIN readyCh : readyCh[i] = r
      BY <2>2 DEF Inv1, QueueSound
    <3>2. (\E i \in DOMAIN readyCh' : readyCh'[i] = r) <=> \E i \in DOMAIN readyCh : readyCh[i] = r
      BY <2>2, <1>1, <1>3, <1>5, <1>6, <1>7
    <3> QED
      BY <2>2, <3>1, <3>2
  <2> QED
    BY <2>1, <2>2
<1> QED
  BY <1>8, <1>9, <1>10 DEF QueueSound

(* MarkReady at the hands of a call for s, whose own step has ended. *)
LEMMA QueueMarkReady ==
    ASSUME Inv1, NEW s \in Step, NEW t \in Step, MarkReady(t),
           status[s] \in {"SUCCEEDED", "FAILED"},
           \A r \in Step \ {s} : pc'[r] = pc[r]
    PROVE  QueueSound'
<1>1. CASE status[t] = "PENDING"
  <2>1. readyCh' = Append(readyCh, t) /\ status' = [status EXCEPT ![t] = "READY"]
    BY <1>1 DEF MarkReady
  <2>2. \A i \in DOMAIN readyCh : readyCh[i] # t
    BY <1>1 DEF Inv1, QueueSound
  <2>3. t # s /\ pc[t] # "resend"
    BY <1>1 DEF Inv1, Control, CallControl
  <2>4. status'[t] = "READY" /\ \A r \in Step \ {t} : status'[r] = status[r]
    BY <2>1 DEF Inv1, TypeOK
  <2>5. \A r \in Step \ {t} : status[r] = "READY" => pc'[r] = pc[r]
    OBVIOUS
  <2> QED
    BY <2>1, <2>2, <2>3, <2>4, <2>5, QueueSend
<1>2. CASE status[t] # "PENDING"
  <2>1. UNCHANGED <<status, readyCh>>
    BY <1>2 DEF MarkReady
  <2> QED
    BY <2>1, QueueKept
<1> QED
  BY <1>1, <1>2

LEMMA QueueStep == Inv1 /\ [Next]_vars => QueueSound'
<1> SUFFICES ASSUME Inv1, [Next]_vars PROVE QueueSound'
  OBVIOUS
<1>a. CASE MarkSeeds
  BY <1>a, QueueKept DEF MarkSeeds
<1>b. CASE NextSeed
  <2>1. \A s \in seeded : s \in Step /\ status[s] = "SUCCEEDED"
    BY DEF Inv1, TypeOK, Control, MainControl
  <2>2. UNCHANGED <<readyCh, status>>
    BY <1>b DEF NextSeed
  <2>3. \A r \in Step : pc'[r] = pc[r] \/ status[r] = "SUCCEEDED"
    BY <1>b, <2>1 DEF NextSeed, Inv1, TypeOK
  <2> QED
    BY <2>2, <2>3, QueueKept
<1>c. CASE TestDone
  BY <1>c, QueueKept DEF TestDone
<1>d. CASE Receive
  <2> DEFINE n == Len(readyCh) h == Head(readyCh)
  <2>1. n \in Nat /\ DOMAIN readyCh = 1..n /\ 1 \in 1..n
    BY <1>d, EmptySeq, LenProperties DEF Receive, Inv1, TypeOK
  <2>2. /\ h \in Step /\ readyCh' \in Seq(Step) /\ Len(readyCh') = n - 1
        /\ \A i \in 1..(n - 1) : readyCh'[i] = readyCh[i + 1]
    BY <1>d, HeadTailProperties DEF Receive, Inv1, TypeOK
  <2>3. DOMAIN readyCh' = 1..(n - 1)
    BY <2>2, LenProperties
  <2>4. h = readyCh[1]
    BY <1>d DEF Receive, Inv1, TypeOK
  <2>5. UNCHANGED pc
    BY <1>d DEF Receive
  <2>6. \A r \in Step \ {h} : status'[r] = status[r]
    BY <1>d DEF Receive, Inv1, TypeOK
  <2>7. status'[h] # "READY"
    BY <1>d, <2>2 DEF Receive, Inv1, TypeOK
  <2>8. \A i \in 1..n : readyCh[i] \in Step
    BY ElementOfSeq DEF Inv1, TypeOK
  <2> HIDE DEF n, h
  <2>9. \A i \in 1..(n - 1) : i + 1 \in 1..n /\ i + 1 # 1
    BY <2>1
  <2>10. \A i \in 1..(n - 1) : readyCh'[i] # h
    BY <2>1, <2>2, <2>4, <2>9 DEF Inv1, QueueSound
  <2>11. ASSUME NEW i \in DOMAIN readyCh', NEW j \in DOMAIN readyCh', readyCh'[i] = readyCh'[j]
         PROVE  i = j
    <3>1. readyCh[i + 1] = readyCh[j + 1] /\ i + 1 \in DOMAIN readyCh /\ j + 1 \in DOMAIN readyCh
      BY <2>1, <2>2, <2>3, <2>9, <2>11
    <3>2. i + 1 = j + 1
      BY <3>1 DEF Inv1, QueueSound
    <3> QED
      BY <2>1, <2>3, <3>2
  <2>12. \A i \in DOMAIN readyCh' : status'[readyCh'[i]] \in {"READY", "SUCCEEDED"}
    BY <2>1, <2>2, <2>3, <2>6, <2>8, <2>9, <2>10 DEF Inv1, QueueSound
  <2>13. \A r \in Step : status'[r] = "READY" =>
            (pc'[r] = "resend" <=> ~\E i \in DOMAIN readyCh' : readyCh'[i] = r)
    <3> SUFFICES ASSUME NEW r \in Step, status'[r] = "READY"
                 PROVE  pc'[r] = "resend" <=> ~\E i \in DOMAIN readyCh' : readyCh'[i] = r
      OBVIOUS
    <3>1. r # h /\ status[r] = "READY"
      BY <2>6, <2>7
    <3>2. pc[r] = "resend" <=> ~\E i \in 1..n : readyCh[i] = r
      BY <3>1, <2>1 DEF Inv1, QueueSound
    <3>3. ASSUME NEW i \in 1..n, readyCh[i] = r PROVE \E j \in 1..(n - 1) : readyCh'[j] = r
      <4>1. i # 1
        BY <3>1, <3>3, <2>4
      <4>2. i - 1 \in 1..(n - 1) /\ (i - 1) + 1 = i
        BY <4>1, <2>1
      <4> QED
        BY <4>2, <3>3, <2>2
    <3>4. (\E i \in 1..n : readyCh[i] = r) <=> \E j \in 1..(n - 1) : readyCh'[j] = r
      BY <3>3, <2>2, <2>9
    <3> QED
      BY <3>2, <3>4, <2>3, <2>5
  <2> QED
    BY <2>11, <2>12, <2>13 DEF QueueSound
<1>e. CASE Acquire
  <2>1. /\ UNCHANGED <<readyCh, status>> /\ status[stepName] = "RUNNING"
        /\ \A r \in Step \ {stepName} : pc'[r] = pc[r]
    BY <1>e DEF Acquire, Inv1, TypeOK, Control, MainControl
  <2> QED
    BY <2>1, QueueKept
<1>f. CASE ChooseDefault
  BY <1>f, QueueKept DEF ChooseDefault
<1>g. CASE SkipPending
  BY <1>g, QueueKept DEF SkipPending
<1>h. CASE Wait
  BY <1>h, QueueKept DEF Wait
<1>i. ASSUME NEW s \in Step, Snapshot(s) PROVE QueueSound'
  <2>1. /\ \A r \in Step \ {s} : pc'[r] = pc[r] /\ status'[r] = status[r]
        /\ UNCHANGED readyCh /\ status'[s] # "READY"
        /\ status[s] = "SUCCEEDED" => status'[s] = "SUCCEEDED"
        /\ status[s] # "READY"
    BY <1>i DEF Snapshot, Return, Goto, Inv1, TypeOK, Control, CallControl, Executing, InOutbound
  <2> QED
    BY <2>1, QueueKept
<1>j. ASSUME NEW s \in Step, Skip(s) PROVE QueueSound'
  <2>1. /\ \A r \in Step \ {s} : pc'[r] = pc[r] /\ status'[r] = status[r]
        /\ UNCHANGED readyCh /\ status'[s] # "READY"
        /\ status[s] = "SUCCEEDED" => status'[s] = "SUCCEEDED"
        /\ status[s] # "READY"
    BY <1>j DEF Skip, Return, Goto, Inv1, TypeOK, Control, CallControl, Executing, InOutbound
  <2> QED
    BY <2>1, QueueKept
<1>k. ASSUME NEW s \in Step, BadInput(s) PROVE QueueSound'
  <2>1. /\ \A r \in Step \ {s} : pc'[r] = pc[r] /\ status'[r] = status[r]
        /\ UNCHANGED readyCh /\ status'[s] # "READY"
        /\ status[s] = "SUCCEEDED" => status'[s] = "SUCCEEDED"
        /\ status[s] # "READY"
    BY <1>k DEF BadInput, Return, Goto, Inv1, TypeOK, Control, CallControl, Executing, InOutbound
  <2> QED
    BY <2>1, QueueKept
<1>l. ASSUME NEW s \in Step, ExecuteError(s) PROVE QueueSound'
  <2>1. /\ \A r \in Step \ {s} : pc'[r] = pc[r] /\ status'[r] = status[r]
        /\ UNCHANGED readyCh /\ status'[s] # "READY"
        /\ status[s] = "SUCCEEDED" => status'[s] = "SUCCEEDED"
        /\ status[s] # "READY"
    BY <1>l DEF ExecuteError, Return, Goto, Inv1, TypeOK, Control, CallControl, Executing, InOutbound
  <2> QED
    BY <2>1, QueueKept
<1>m. ASSUME NEW s \in Step, Execute(s) PROVE QueueSound'
  <2>1. /\ \A r \in Step \ {s} : pc'[r] = pc[r] /\ status'[r] = status[r]
        /\ UNCHANGED readyCh /\ status'[s] # "READY"
        /\ status[s] = "SUCCEEDED" => status'[s] = "SUCCEEDED"
        /\ status[s] # "READY"
    BY <1>m DEF Execute, Return, Goto, Inv1, TypeOK, Control, CallControl, Executing, InOutbound
  <2> QED
    BY <2>1, QueueKept
<1>n. ASSUME NEW s \in Step, Finish(s) PROVE QueueSound'
  <2>1. /\ \A r \in Step \ {s} : pc'[r] = pc[r] /\ status'[r] = status[r]
        /\ UNCHANGED readyCh /\ status'[s] # "READY"
        /\ status[s] = "SUCCEEDED" => status'[s] = "SUCCEEDED"
        /\ status[s] # "READY"
    BY <1>n DEF Finish, Return, Goto, Inv1, TypeOK, Control, CallControl, Executing, InOutbound
  <2> QED
    BY <2>1, QueueKept
<1>o. ASSUME NEW s \in Step, NextEdge(s) PROVE QueueSound'
  <2>1. /\ \A r \in Step \ {s} : pc'[r] = pc[r] /\ status'[r] = status[r]
        /\ UNCHANGED readyCh /\ status'[s] # "READY"
        /\ status[s] = "SUCCEEDED" => status'[s] = "SUCCEEDED"
        /\ status[s] # "READY"
    BY <1>o DEF NextEdge, Return, Goto, Inv1, TypeOK, Control, CallControl, Executing, InOutbound
  <2> QED
    BY <2>1, QueueKept
<1>p. ASSUME NEW s \in Step, Bump(s) PROVE QueueSound'
  <2>1. /\ \A r \in Step \ {s} : pc'[r] = pc[r] /\ status'[r] = status[r]
        /\ UNCHANGED readyCh /\ status'[s] # "READY"
        /\ status[s] = "SUCCEEDED" => status'[s] = "SUCCEEDED"
        /\ status[s] # "READY"
    BY <1>p DEF Bump, Return, Goto, Inv1, TypeOK, Control, CallControl, Executing, InOutbound
  <2> QED
    BY <2>1, QueueKept
<1>q. ASSUME NEW s \in Step, TestGate(s) PROVE QueueSound'
  <2>1. /\ \A r \in Step \ {s} : pc'[r] = pc[r] /\ status'[r] = status[r]
        /\ UNCHANGED readyCh /\ status'[s] # "READY"
        /\ status[s] = "SUCCEEDED" => status'[s] = "SUCCEEDED"
        /\ status[s] # "READY"
    BY <1>q DEF TestGate, Return, Goto, Inv1, TypeOK, Control, CallControl, Executing, InOutbound
  <2> QED
    BY <2>1, QueueKept
<1>r. ASSUME NEW s \in Step, Enqueue(s) PROVE QueueSound'
  <2>1. \A r \in Step \ {s} : pc'[r] = pc[r]
    BY <1>r DEF Enqueue, Goto, Inv1, TypeOK
  <2>2. status[s] \in {"SUCCEEDED", "FAILED"}
    BY <1>r DEF Enqueue, Inv1, Control, CallControl, InOutbound
  <2>3. Target(s, edge[s]) \in Step
    BY <1>r, OutEdgesType DEF Enqueue, Inv1, Control, CallControl
  <2> QED
    BY <1>r, <2>1, <2>2, <2>3, QueueMarkReady DEF Enqueue
<1>s. ASSUME NEW s \in Step, LeaveOutbound(s) PROVE QueueSound'
  <2>1. /\ \A r \in Step \ {s} : pc'[r] = pc[r] /\ status'[r] = status[r]
        /\ UNCHANGED readyCh /\ status'[s] # "READY"
        /\ status[s] = "SUCCEEDED" => status'[s] = "SUCCEEDED"
        /\ status[s] # "READY"
    BY <1>s DEF LeaveOutbound, Return, Goto, Inv1, TypeOK, Control, CallControl, Executing, InOutbound
  <2> QED
    BY <2>1, QueueKept
<1>t. ASSUME NEW s \in Step, Retry(s) PROVE QueueSound'
  <2>1. /\ \A r \in Step \ {s} : pc'[r] = pc[r] /\ status'[r] = status[r]
        /\ UNCHANGED readyCh /\ status'[s] # "READY"
        /\ status[s] = "SUCCEEDED" => status'[s] = "SUCCEEDED"
        /\ status[s] # "READY"
    BY <1>t DEF Retry, Return, Goto, Inv1, TypeOK, Control, CallControl, Executing, InOutbound
  <2> QED
    BY <2>1, QueueKept
<1>u. ASSUME NEW s \in Step, Backoff(s) PROVE QueueSound'
  <2>1. /\ \A r \in Step \ {s} : pc'[r] = pc[r] /\ status'[r] = status[r]
        /\ UNCHANGED readyCh /\ status[s] = "RUNNING"
        /\ pc'[s] = "resend" /\ status'[s] = "READY"
    BY <1>u DEF Backoff, Goto, Inv1, TypeOK, Control, CallControl, Executing
  <2>2. \A i \in DOMAIN readyCh : readyCh[i] \in Step \ {s}
    <3>1. \A i \in DOMAIN readyCh : readyCh[i] \in Step
      BY LenProperties, ElementOfSeq DEF Inv1, TypeOK
    <3> QED
      BY <2>1, <3>1 DEF Inv1, QueueSound
  <2> QED
    BY <2>1, <2>2 DEF Inv1, QueueSound
<1>v. ASSUME NEW s \in Step, Resend(s) PROVE QueueSound'
  <2>1. /\ readyCh' = Append(readyCh, s) /\ UNCHANGED status
        /\ pc'[s] = "none" /\ \A r \in Step \ {s} : pc'[r] = pc[r]
    BY <1>v DEF Resend, Return, Inv1, TypeOK
  <2>2. status[s] = "READY" /\ \A i \in DOMAIN readyCh : readyCh[i] # s
    BY <1>v DEF Resend, Inv1, Control, CallControl, QueueSound
  <2> QED
    BY <2>1, <2>2, QueueSend
<1>w. ASSUME NEW s \in Step, GiveUp(s) PROVE QueueSound'
  <2>1. /\ \A r \in Step \ {s} : pc'[r] = pc[r] /\ status'[r] = status[r]
        /\ UNCHANGED readyCh /\ status'[s] # "READY"
        /\ status[s] = "SUCCEEDED" => status'[s] = "SUCCEEDED"
        /\ status[s] # "READY"
    BY <1>w DEF GiveUp, Return, Goto, Inv1, TypeOK, Control, CallControl, Executing, InOutbound
  <2> QED
    BY <2>1, QueueKept
<1>x. ASSUME NEW s \in Step, Fallback(s) PROVE QueueSound'
  <2>1. \A r \in Step \ {s} : pc'[r] = pc[r]
    BY <1>x DEF Fallback, Return, Inv1, TypeOK
  <2>2. status[s] \in {"SUCCEEDED", "FAILED"}
    BY <1>x DEF Fallback, Inv1, Control, CallControl, InOutbound
  <2>3. CASE FallbackStep[s] \in Step
    BY <1>x, <2>1, <2>2, <2>3, QueueMarkReady DEF Fallback
  <2>4. CASE FallbackStep[s] \notin Step
    BY <1>x, <2>1, <2>2, <2>4, QueueKept DEF Fallback
  <2> QED
    BY <2>3, <2>4
<1>y. CASE Leave
  BY <1>y, QueueKept DEF Leave
<1>z. CASE Crash
  BY <1>z, QueueKept DEF Crash
<1>aa. CASE UNCHANGED vars
  BY <1>aa, QueueKept DEF vars
<1> QED
  BY <1>a, <1>b, <1>c, <1>d, <1>e, <1>f, <1>g, <1>h, <1>i, <1>j, <1>k, <1>l, <1>m,
     <1>n, <1>o, <1>p, <1>q, <1>r, <1>s, <1>t, <1>u, <1>v, <1>w, <1>x, <1>y, <1>z, <1>aa
  DEF Next, MainStep, Worker, ConcurrentMapAccess, PanicOnTornState, Terminated

LEMMA Inv1Always == Spec => []Inv1
<1>1. Inv1 /\ [Next]_vars => Inv1'
  BY TypeStep, ControlStep, QueueStep DEF Inv1
<1> QED
  BY InitInv1, <1>1, PTL DEF Spec

(* The types of the scheduler's state, for every workflow. *)
THEOREM TypeCorrect == Spec => []TypeOK
  BY Inv1Always, PTL DEF Inv1

(* Every READY step is in the channel exactly once, or about to be sent    *)
(* by the one goroutine that retries it.                                   *)
THEOREM QueueIsSound == Spec => []QueueSound
  BY Inv1Always, PTL DEF Inv1

(* Run never starts a step that a goroutine is still working for. *)
THEOREM OneCall == Spec => []OneCallPerStep
<1>1. Inv1 => OneCallPerStep
  BY DEF Inv1, Control, MainControl, OneCallPerStep
<1> QED
  BY <1>1, Inv1Always, PTL
(***************************************************************************)
(* The counters.  An increment may be lost, but none is ever gained: the   *)
(* count of t never exceeds the number of edges into t that some call has  *)
(* counted, and what scheduleOutbound read is no larger.  So a gate that   *)
(* the counters show as open is open.                                      *)
(***************************************************************************)
Counted(t) ==
    {e \in InEdges(t) : /\ status[e[1]] = "SUCCEEDED" /\ e[1] \notin seeded
                        /\ e[2] \in Taken(e[1], branch[e[1]])
                        /\ e[2] \notin todo[e[1]]}

CallCount(s) ==
    /\ InOutbound(s) => todo[s] \subseteq Taken(s, branch[s])
    /\ pc[s] = "bump" => /\ edge[s] \in todo[s]
                         /\ seen[s] <= Cardinality(Counted(Target(s, edge[s])))
    /\ pc[s] \in {"gate", "enqueue"} => edge[s] \in Taken(s, branch[s]) \ todo[s]
    /\ pc[s] = "enqueue" => GateOpen(status, branch, Target(s, edge[s]))

Counts ==
    /\ \A t \in Step : inboundSatisfied[t] <= Cardinality(Counted(t))
    /\ \A s \in Step : CallCount(s)

Inv2 == Inv1 /\ Counts

(* Successes are never taken back, nor their edges counted again. *)
Grows ==
    \A r \in Step : status[r] = "SUCCEEDED" =>
        /\ status'[r] = "SUCCEEDED" /\ branch'[r] = branch[r]
        /\ r \notin seeded => r \notin seeded' /\ todo'[r] \subseteq todo[r]

LEMMA InEdgesFinite ==
    ASSUME NEW t
    PROVE  IsFiniteSet(InEdges(t)) /\ InEdges(t) \subseteq AllEdges
<1> DEFINE part == [s \in Step |-> {s} \X OutEdges(s)]
           parts == {{s} \X OutEdges(s) : s \in Step}
<1>1. part \in Surjection(Step, parts)
  BY DEF Surjection
<1>2. IsFiniteSet(parts)
  BY <1>1, StepAssumption, FS_Surjection
<1>3. ASSUME NEW s \in Step PROVE IsFiniteSet({s} \X OutEdges(s))
  <2>1. DOMAIN OutboundEdges[s] = 1..Len(OutboundEdges[s]) /\ Len(OutboundEdges[s]) \in Nat
    BY EdgesAssumption, LenProperties
  <2>2. IsFiniteSet(1..Len(OutboundEdges[s]))
    BY <2>1, FS_Interval
  <2>3. OutEdges(s) \in SUBSET (1..Len(OutboundEdges[s]))
    BY <2>1 DEF OutEdges
  <2>4. IsFiniteSet(OutEdges(s))
    BY <2>2, <2>3, FS_Subset
  <2>5. IsFiniteSet({s})
    BY FS_Singleton
  <2> QED
    BY <2>4, <2>5, FS_Product
<1>4. IsFiniteSet(UNION parts)
  BY <1>2, <1>3, FS_UNION
<1>5. InEdges(t) \in SUBSET AllEdges /\ AllEdges = UNION parts
  BY DEF InEdges, AllEdges
<1> QED
  BY <1>4, <1>5, FS_Subset

(* An edge into t is a pair of its source and one of its out-edges. *)
LEMMA InEdgesMember ==
    ASSUME NEW s \in Step, NEW k \in OutEdges(s)
    PROVE  <<s, k>> \in InEdges(Target(s, k))
  BY DEF InEdges, AllEdges

LEMMA InEdgesSource ==
    ASSUME NEW t, NEW e \in InEdges(t)
    PROVE  e[1] \in Step /\ e[2] \in OutEdges(e[1]) /\ e = <<e[1], e[2]>> /\ Target(e[1], e[2]) = t
  BY DEF InEdges, AllEdges

LEMMA CountedFinite ==
    ASSUME NEW t
    PROVE  IsFiniteSet(Counted(t)) /\ Cardinality(Counted(t)) \in Nat
<1>1. Counted(t) \in SUBSET InEdges(t)
  BY DEF Counted
<1> QED
  BY <1>1, InEdgesFinite, FS_Subset, FS_CardinalityType

LEMMA CountedGrows ==
    ASSUME Grows, NEW t
    PROVE  /\ Counted(t) \subseteq Counted(t)'
           /\ Cardinality(Counted(t)) <= Cardinality(Counted(t)')
           /\ Cardinality(Counted(t)) \in Nat /\ Cardinality(Counted(t)') \in Nat
           /\ IsFiniteSet(Counted(t)) /\ IsFiniteSet(Counted(t)')
<1>1. Counted(t) \in SUBSET Counted(t)'
  BY InEdgesSource DEF Counted, Grows
<1>2. Counted(t)' \in SUBSET InEdges(t)
  BY DEF Counted
<1>3. IsFiniteSet(Counted(t)') /\ Cardinality(Counted(t)') \in Nat
  BY <1>2, InEdgesFinite, FS_Subset, FS_CardinalityType
<1> QED
  BY <1>1, <1>3, CountedFinite, FS_Subset

LEMMA GateStaysOpen ==
    ASSUME Grows, NEW t, GateOpen(status, branch, t)
    PROVE  GateOpen(status', branch', t)
<1>1. SatisfiedEdges(status, branch, t) \subseteq SatisfiedEdges(status', branch', t)
  BY InEdgesSource DEF SatisfiedEdges, Grows
<1>2. SatisfiedEdges(status', branch', t) \subseteq InEdges(t)
  BY DEF SatisfiedEdges
<1> QED
  BY <1>1, <1>2 DEF GateOpen

(* The test of the gate is sound, lost increments or not. *)
LEMMA GateTestSound ==
    ASSUME Inv2, NEW t \in Step, InEdges(t) # {}, GateTest(t)
    PROVE  GateOpen(status, branch, t)
<1> DEFINE c == Cardinality(Counted(t))
<1>1. Counted(t) \in SUBSET InEdges(t) /\ Counted(t) \subseteq SatisfiedEdges(status, branch, t)
  BY DEF Counted, SatisfiedEdges
<1>2. c \in Nat /\ inboundSatisfied[t] <= c /\ inboundSatisfied[t] \in Nat
  BY CountedFinite DEF Inv2, Inv1, TypeOK, Counts
<1>3. /\ Cardinality(InEdges(t)) \in Nat /\ c <= Cardinality(InEdges(t))
      /\ c = Cardinality(InEdges(t)) => Counted(t) = InEdges(t)
  BY <1>1, InEdgesFinite, FS_Subset, FS_CardinalityType
<1>4. inboundTotal[t] = Cardinality(InEdges(t))
  BY DEF inboundTotal, InboundCount
<1>5. CASE inboundSatisfied[t] >= inboundTotal[t]
  <2>1. Counted(t) = InEdges(t)
    BY <1>2, <1>3, <1>4, <1>5
  <2>2. SatisfiedEdges(status, branch, t) = InEdges(t)
    BY <1>1, <2>1 DEF SatisfiedEdges
  <2> QED
    BY <2>2 DEF GateOpen
<1>6. CASE StepReadinessThreshold(t) = "ANY" /\ inboundSatisfied[t] >= 1
  <2>1. c # 0
    BY <1>2, <1>6
  <2>2. Counted(t) # {}
    BY <2>1, FS_EmptySet
  <2> QED
    BY <1>1, <1>6, <2>2 DEF GateOpen
<1> QED
  BY <1>5, <1>6 DEF GateTest

LEMMA GrowsStep == Inv1 /\ [Next]_vars => Grows
<1> SUFFICES ASSUME Inv1, [Next]_vars PROVE Grows
  OBVIOUS
<1>a. CASE MarkSeeds
  BY <1>a DEF MarkSeeds, Grows, Inv1, Control, MainControl
<1>b. CASE NextSeed
  <2>1. \A s \in seeded : s \in Step
    BY DEF Inv1, TypeOK
  <2>2. \A r \in Step \ seeded : r \notin seeded' /\ todo'[r] \subseteq todo[r]
    BY <1>b, <2>1 DEF NextSeed, Inv1, TypeOK
  <2> QED
    BY <1>b, <2>2 DEF NextSeed, Grows
<1>c. CASE TestDone
  BY <1>c DEF TestDone, callVars, Grows
<1>d. CASE Receive
  BY <1>d DEF Receive, callVars, Grows, Inv1, TypeOK
<1>e. CASE Acquire
  BY <1>e DEF Acquire, callVars, Grows
<1>f. CASE ChooseDefault
  BY <1>f DEF ChooseDefault, callVars, Grows
<1>g. CASE SkipPending
  BY <1>g DEF SkipPending, callVars, Grows, Inv1, TypeOK
<1>h. CASE Wait
  BY <1>h DEF Wait, callVars, Grows
<1>i. ASSUME NEW s \in Step, Snapshot(s) PROVE Grows
  BY <1>i DEF Snapshot, loopVars, callVars, Grows, Inv1, TypeOK
<1>j. ASSUME NEW s \in Step, Skip(s) PROVE Grows
  BY <1>j DEF Skip, loopVars, callVars, Grows, Inv1, TypeOK, Control, CallControl, Executing
<1>k. ASSUME NEW s \in Step, BadInput(s) PROVE Grows
  BY <1>k DEF BadInput, loopVars, callVars, Grows, Inv1, TypeOK
<1>l. ASSUME NEW s \in Step, ExecuteError(s) PROVE Grows
  BY <1>l DEF ExecuteError, loopVars, callVars, Grows, Inv1, TypeOK
<1>m. ASSUME NEW s \in Step, Execute(s) PROVE Grows
  BY <1>m DEF Execute, loopVars, Grows, Inv1, TypeOK, Control, CallControl, Executing
<1>n. ASSUME NEW s \in Step, Finish(s) PROVE Grows
  BY <1>n DEF Finish, loopVars, Grows, Inv1, TypeOK, Control, CallControl, Executing
<1>o. ASSUME NEW s \in Step, NextEdge(s) PROVE Grows
  BY <1>o DEF NextEdge, loopVars, Grows, Inv1, TypeOK
<1>p. ASSUME NEW s \in Step, Bump(s) PROVE Grows
  BY <1>p DEF Bump, loopVars, Grows, Inv1, TypeOK
<1>q. ASSUME NEW s \in Step, TestGate(s) PROVE Grows
  BY <1>q DEF TestGate, loopVars, callVars, Grows, Inv1, TypeOK
<1>r. ASSUME NEW s \in Step, Enqueue(s) PROVE Grows
  BY <1>r DEF Enqueue, MarkReady, loopVars, callVars, Grows, Inv1, TypeOK
<1>s. ASSUME NEW s \in Step, LeaveOutbound(s) PROVE Grows
  BY <1>s DEF LeaveOutbound, loopVars, Grows, Inv1, TypeOK
<1>t. ASSUME NEW s \in Step, Retry(s) PROVE Grows
  BY <1>t DEF Retry, loopVars, callVars, Grows, Inv1, TypeOK
<1>u. ASSUME NEW s \in Step, Backoff(s) PROVE Grows
  BY <1>u DEF Backoff, loopVars, callVars, Grows, Inv1, TypeOK, Control, CallControl, Executing
<1>v. ASSUME NEW s \in Step, Resend(s) PROVE Grows
  BY <1>v DEF Resend, loopVars, callVars, Grows, Inv1, TypeOK
<1>w. ASSUME NEW s \in Step, GiveUp(s) PROVE Grows
  BY <1>w DEF GiveUp, loopVars, callVars, Grows, Inv1, TypeOK, Control, CallControl, Executing
<1>x. ASSUME NEW s \in Step, Fallback(s) PROVE Grows
  BY <1>x DEF Fallback, MarkReady, loopVars, callVars, Grows, Inv1, TypeOK
<1>y. CASE Leave
  BY <1>y DEF Leave, loopVars, callVars, Grows
<1>z. CASE Crash
  BY <1>z DEF Crash, callVars, Grows
<1>aa. CASE UNCHANGED vars
  BY <1>aa DEF vars, loopVars, callVars, Grows
<1> QED
  BY <1>a, <1>b, <1>c, <1>d, <1>e, <1>f, <1>g, <1>h, <1>i, <1>j, <1>k, <1>l, <1>m,
     <1>n, <1>o, <1>p, <1>q, <1>r, <1>s, <1>t, <1>u, <1>v, <1>w, <1>x, <1>y, <1>z, <1>aa
  DEF Next, MainStep, Worker, ConcurrentMapAccess, PanicOnTornState, Terminated

(* A call at the same point of scheduleOutbound, or outside of it. *)
CallKept(r) ==
    \/ pc'[r] = pc[r] /\ todo'[r] = todo[r] /\ edge'[r] = edge[r] /\ seen'[r] = seen[r]
    \/ pc'[r] \notin {"edge", "bump", "gate", "enqueue"}

LEMMA CallCountKept ==
    ASSUME Inv2, Grows, NEW r \in Step, CallKept(r)
    PROVE  CallCount(r)'
<1>1. CASE pc'[r] \notin {"edge", "bump", "gate", "enqueue"}
  BY <1>1 DEF CallCount, InOutbound
<1>2. CASE /\ pc'[r] = pc[r] /\ todo'[r] = todo[r] /\ edge'[r] = edge[r] /\ seen'[r] = seen[r]
           /\ pc[r] \in {"edge", "bump", "gate", "enqueue"}
  <2>1. CallCount(r) /\ branch'[r] = branch[r]
    BY <1>2 DEF Inv2, Counts, Inv1, Control, CallControl, InOutbound, Grows
  <2>2. InOutbound(r)' => todo'[r] \subseteq Taken(r, branch'[r])
    BY <1>2, <2>1 DEF CallCount, InOutbound
  <2>3. (pc[r] = "bump" => /\ edge[r] \in todo[r]
                           /\ seen[r] <= Cardinality(Counted(Target(r, edge[r]))))'
    <3>0. CASE pc[r] # "bump"
      BY <1>2, <3>0
    <3>1. CASE pc[r] = "bump"
      <4> PICK t \in {Target(r, edge[r])} : TRUE
        OBVIOUS
      <4>1. edge[r] \in todo[r] /\ seen[r] <= Cardinality(Counted(t)) /\ seen[r] \in Nat
        BY <2>1, <3>1 DEF CallCount, Inv2, Inv1, TypeOK
      <4>2. /\ Cardinality(Counted(t)) <= Cardinality(Counted(t)')
            /\ Cardinality(Counted(t)) \in Nat
            /\ Cardinality(Counted(t)') \in Nat
        BY CountedGrows
      <4>3. edge'[r] = edge[r] /\ seen'[r] = seen[r] /\ todo'[r] = todo[r]
        BY <1>2
      <4>4. (Counted(Target(r, edge[r])))' = Counted(t)'
        BY <4>3 DEF Counted, Target
      <4>5. seen[r] <= Cardinality(Counted(t)')
        BY <4>1, <4>2
      <4> QED
        BY <4>1, <4>3, <4>4, <4>5
    <3> QED
      BY <3>0, <3>1
  <2>4. pc'[r] \in {"gate", "enqueue"} => edge'[r] \in Taken(r, branch'[r]) \ todo'[r]
    BY <1>2, <2>1 DEF CallCount
  <2>5. (pc[r] = "enqueue" => GateOpen(status, branch, Target(r, edge[r])))'
    <3>0. CASE pc[r] # "enqueue"
      BY <1>2, <3>0
    <3>1. CASE pc[r] = "enqueue"
      <4> PICK t \in {Target(r, edge[r])} : TRUE
        OBVIOUS
      <4>1. GateOpen(status, branch, t)
        BY <2>1, <3>1 DEF CallCount
      <4>2. GateOpen(status', branch', t)
        BY <4>1, GateStaysOpen
      <4>3. (Target(r, edge[r]))' = t
        BY <1>2 DEF Target
      <4> QED
        BY <4>2, <4>3
    <3> QED
      BY <3>0, <3>1
  <2> QED
    BY <2>2, <2>3, <2>4, <2>5 DEF CallCount
<1> QED
  BY <1>1, <1>2 DEF CallKept

LEMMA CountsKept ==
    ASSUME Inv2, Grows, UNCHANGED inboundSatisfied,
           \A r \in Step : CallKept(r) \/ CallCount(r)'
    PROVE  Counts'
<1>1. ASSUME NEW t \in Step PROVE inboundSatisfied'[t] <= Cardinality(Counted(t)')
  <2>1. inboundSatisfied[t] <= Cardinality(Counted(t)) /\ inboundSatisfied[t] \in Nat
    BY DEF Inv2, Counts, Inv1, TypeOK
  <2> QED
    BY <2>1, CountedGrows
<1>2. \A r \in Step : CallCount(r)'
  BY CallCountKept
<1> QED
  BY <1>1, <1>2 DEF Counts

(* Bump is the one step that writes a counter. *)
LEMMA BumpCounts ==
    ASSUME Inv2, Grows, NEW s \in Step, Bump(s)
    PROVE  Counts'
<1> PICK tt \in {Target(s, edge[s])} : TRUE
  OBVIOUS
<1> PICK e \in {<<s, edge[s]>>} : TRUE
  OBVIOUS
<1>1. /\ edge[s] \in todo[s] /\ seen[s] <= Cardinality(Counted(tt)) /\ seen[s] \in Nat
      /\ todo[s] \subseteq Taken(s, branch[s])
  BY DEF Bump, Inv2, Inv1, TypeOK, Counts, CallCount, InOutbound
<1>2. status[s] = "SUCCEEDED" /\ s \notin seeded /\ edge[s] \in OutEdges(s)
  BY DEF Bump, Inv2, Inv1, Control, MainControl, CallControl, InOutbound
<1>3. tt \in Step /\ e \in InEdges(tt)
  BY <1>2, OutEdgesType, InEdgesMember
<1>4. /\ UNCHANGED <<status, branch, seeded, edge, seen>>
      /\ todo' = [todo EXCEPT ![s] = todo[s] \ {edge[s]}]
      /\ pc' = [pc EXCEPT ![s] = "gate"]
      /\ inboundSatisfied' = [inboundSatisfied EXCEPT ![tt] = seen[s] + 1]
  BY DEF Bump, Goto, loopVars
<1>5. e \notin Counted(tt)
  BY <1>1 DEF Counted
<1>6. todo'[s] = todo[s] \ {edge[s]} /\ \A r \in Step \ {s} : todo'[r] = todo[r]
  BY <1>4 DEF Inv2, Inv1, TypeOK
<1>7. e \in Counted(tt)'
  BY <1>1, <1>2, <1>3, <1>4, <1>6 DEF Counted
<1>8. Counted(tt) \cup {e} \in SUBSET Counted(tt)'
  BY <1>7, CountedGrows
<1>9. Cardinality(Counted(tt)) + 1 <= Cardinality(Counted(tt)')
  <2>1. Cardinality(Counted(tt) \cup {e}) = Cardinality(Counted(tt)) + 1
    BY <1>5, CountedFinite, FS_AddElement
  <2>2. Cardinality(Counted(tt) \cup {e}) <= Cardinality(Counted(tt)')
    BY <1>8, CountedGrows, FS_Subset
  <2> QED
    BY <2>1, <2>2
<1>10. ASSUME NEW t \in Step PROVE inboundSatisfied'[t] <= Cardinality(Counted(t)')
  <2>1. CASE t = tt
    <3>1. inboundSatisfied'[t] = seen[s] + 1
      BY <1>4, <2>1 DEF Inv2, Inv1, TypeOK
    <3>2. seen[s] + 1 <= Cardinality(Counted(tt)')
      BY <1>1, <1>9, CountedGrows
    <3> QED
      BY <2>1, <3>1, <3>2
  <2>2. CASE t # tt
    <3>1. inboundSatisfied'[t] = inboundSatisfied[t] /\ inboundSatisfied[t] \in Nat
      BY <1>4, <2>2 DEF Inv2, Inv1, TypeOK
    <3>2. inboundSatisfied[t] <= Cardinality(Counted(t))
      BY DEF Inv2, Counts
    <3> QED
      BY <3>1, <3>2, CountedGrows
  <2> QED
    BY <2>1, <2>2
<1>11. ASSUME NEW r \in Step PROVE CallCount(r)'
  <2>1. CASE r = s
    <3>1. /\ pc'[s] = "gate" /\ edge'[s] = edge[s] /\ branch'[s] = branch[s]
          /\ todo'[s] = todo[s] \ {edge[s]}
      BY <1>4, <1>6 DEF Inv2, Inv1, TypeOK
    <3> QED
      BY <1>1, <2>1, <3>1 DEF CallCount, InOutbound
  <2>2. CASE r # s
    <3>1. CallKept(r)
      BY <1>4, <1>6, <2>2 DEF CallKept, Inv2, Inv1, TypeOK
    <3> QED
      BY <3>1, CallCountKept
  <2> QED
    BY <2>1, <2>2
<1> QED
  BY <1>10, <1>11 DEF Counts

LEMMA CountStep == Inv2 /\ [Next]_vars => Counts'
<1> SUFFICES ASSUME Inv2, [Next]_vars PROVE Counts'
  OBVIOUS
<1>0. Grows
  BY GrowsStep DEF Inv2
<1>a. CASE MarkSeeds
  <2>1. UNCHANGED <<inboundSatisfied, pc, todo, edge, seen>>
    BY <1>a DEF MarkSeeds
  <2> QED
    BY <1>0, <2>1, CountsKept DEF CallKept
<1>b. CASE NextSeed
  <2>1. UNCHANGED <<inboundSatisfied, edge, seen, branch>>
    BY <1>b DEF NextSeed
  <2>2. ASSUME NEW r \in Step PROVE CallKept(r) \/ CallCount(r)'
    <3>1. CASE UNCHANGED <<todo, pc>>
      BY <2>1, <3>1 DEF CallKept
    <3>2. ASSUME NEW s \in seeded,
                 todo' = [todo EXCEPT ![s] = Taken(s, branch[s])],
                 pc' = [pc EXCEPT ![s] = "edge"]
          PROVE  CallKept(r) \/ CallCount(r)'
      <4>1. s \in Step
        BY DEF Inv2, Inv1, TypeOK
      <4>2. CASE r # s
        BY <2>1, <3>2, <4>2 DEF CallKept, Inv2, Inv1, TypeOK
      <4>3. CASE r = s
        <5>1. pc'[s] = "edge" /\ todo'[s] = Taken(s, branch'[s])
          BY <2>1, <3>2, <4>1 DEF Inv2, Inv1, TypeOK
        <5> QED
          BY <4>3, <5>1 DEF CallCount
      <4> QED
        BY <4>2, <4>3
    <3> QED
      BY <1>b, <3>1, <3>2 DEF NextSeed
  <2> QED
    BY <1>0, <2>1, <2>2, CountsKept
<1>c. CASE TestDone
  BY <1>0, <1>c, CountsKept DEF TestDone, CallKept, callVars
<1>d. CASE Receive
  BY <1>0, <1>d, CountsKept DEF Receive, CallKept, callVars
<1>e. CASE Acquire
  <2>1. \A r \in Step : CallKept(r)
    BY <1>e DEF Acquire, CallKept, callVars, Inv2, Inv1, TypeOK
  <2> QED
    BY <1>0, <1>e, <2>1, CountsKept DEF Acquire
<1>f. CASE ChooseDefault
  BY <1>0, <1>f, CountsKept DEF ChooseDefault, CallKept, callVars
<1>g. CASE SkipPending
  BY <1>0, <1>g, CountsKept DEF SkipPending, CallKept, callVars
<1>h. CASE Wait
  BY <1>0, <1>h, CountsKept DEF Wait, CallKept, callVars
<1>i. ASSUME NEW s \in Step, Snapshot(s) PROVE Counts'
  <2>1. \A r \in Step : CallKept(r)
    BY <1>i DEF Snapshot, Return, Goto, CallKept, callVars, Inv2, Inv1, TypeOK
  <2> QED
    BY <1>0, <1>i, <2>1, CountsKept DEF Snapshot
<1>j. ASSUME NEW s \in Step, Skip(s) PROVE Counts'
  <2>1. \A r \in Step : CallKept(r)
    BY <1>j DEF Skip, Return, Goto, CallKept, callVars, Inv2, Inv1, TypeOK
  <2> QED
    BY <1>0, <1>j, <2>1, CountsKept DEF Skip
<1>k. ASSUME NEW s \in Step, BadInput(s) PROVE Counts'
  <2>1. \A r \in Step : CallKept(r)
    BY <1>k DEF BadInput, Return, Goto, CallKept, callVars, Inv2, Inv1, TypeOK
  <2> QED
    BY <1>0, <1>k, <2>1, CountsKept DEF BadInput
<1>l. ASSUME NEW s \in Step, ExecuteError(s) PROVE Counts'
  <2>1. \A r \in Step : CallKept(r)
    BY <1>l DEF ExecuteError, Return, Goto, CallKept, callVars, Inv2, Inv1, TypeOK
  <2> QED
    BY <1>0, <1>l, <2>1, CountsKept DEF ExecuteError
<1>m. ASSUME NEW s \in Step, Execute(s) PROVE Counts'
  <2>1. \A r \in Step : CallKept(r)
    BY <1>m DEF Execute, Return, Goto, CallKept, callVars, Inv2, Inv1, TypeOK
  <2> QED
    BY <1>0, <1>m, <2>1, CountsKept DEF Execute
<1>n. ASSUME NEW s \in Step, Finish(s) PROVE Counts'
  <2>1. \A r \in Step \ {s} : CallKept(r)
    BY <1>n DEF Finish, Goto, CallKept, callVars, Inv2, Inv1, TypeOK
  <2>2. pc'[s] = "edge" /\ todo'[s] = Taken(s, branch'[s])
    BY <1>n DEF Finish, Goto, Inv2, Inv1, TypeOK
  <2>3. CallCount(s)'
    BY <2>2 DEF CallCount
  <2> QED
    BY <1>0, <1>n, <2>1, <2>3, CountsKept DEF Finish
<1>o. ASSUME NEW s \in Step, NextEdge(s) PROVE Counts'
  <2>1. \A r \in Step \ {s} : CallKept(r)
    BY <1>o DEF NextEdge, Goto, CallKept, callVars, Inv2, Inv1, TypeOK
  <2>2. PICK k \in todo[s] : /\ edge' = [edge EXCEPT ![s] = k]
                              /\ seen' = [seen EXCEPT ![s] = inboundSatisfied[Target(s, k)]]
    BY <1>o DEF NextEdge
  <2>3. /\ pc[s] = "edge" /\ pc'[s] = "bump" /\ UNCHANGED <<status, branch, todo, seeded>>
        /\ edge'[s] = k /\ seen'[s] = inboundSatisfied[Target(s, k)]
    BY <1>o, <2>2 DEF NextEdge, Goto, loopVars, Inv2, Inv1, TypeOK
  <2>4. Target(s, k) \in Step
    BY OutEdgesType DEF Inv2, Inv1, Control, CallControl
  <2>5. inboundSatisfied[Target(s, k)] <= Cardinality(Counted(Target(s, k)))
    BY <2>4 DEF Inv2, Counts
  <2>6. (Counted(Target(s, edge[s])))' = Counted(Target(s, k))
    BY <2>3 DEF Counted, Target
  <2>7. InOutbound(s)' => todo'[s] \subseteq Taken(s, branch'[s])
    BY <2>3 DEF Inv2, Counts, CallCount, InOutbound
  <2>8. CallCount(s)'
    BY <2>3, <2>5, <2>6, <2>7 DEF CallCount
  <2> QED
    BY <1>0, <1>o, <2>1, <2>8, CountsKept DEF NextEdge
<1>p. ASSUME NEW s \in Step, Bump(s) PROVE Counts'
  BY <1>0, <1>p, BumpCounts
<1>q. ASSUME NEW s \in Step, TestGate(s) PROVE Counts'
  <2>1. \A r \in Step \ {s} : CallKept(r)
    BY <1>q DEF TestGate, Goto, CallKept, callVars, Inv2, Inv1, TypeOK
  <2>2. /\ UNCHANGED <<status, branch, todo, edge, seen>> /\ pc[s] = "gate"
        /\ pc'[s] = IF GateTest(Target(s, edge[s])) THEN "enqueue" ELSE "edge"
    BY <1>q DEF TestGate, Goto, callVars, Inv2, Inv1, TypeOK
  <2>3. todo[s] \subseteq Taken(s, branch[s]) /\ edge[s] \in Taken(s, branch[s]) \ todo[s]
    BY <2>2 DEF Inv2, Counts, CallCount, InOutbound
  <2>4. Target(s, edge[s]) \in Step /\ InEdges(Target(s, edge[s])) # {}
    BY <2>2, OutEdgesType, InEdgesMember DEF Inv2, Inv1, Control, CallControl
  <2>5. GateTest(Target(s, edge[s])) => GateOpen(status, branch, Target(s, edge[s]))
    BY <2>4, GateTestSound
  <2>6. GateTest(Target(s, edge[s])) => GateOpen(status', branch', Target(s, edge'[s]))
    BY <2>2, <2>5
  <2>7. GateOpen(status, branch, Target(s, edge[s]))' <=> GateOpen(status', branch', Target(s, edge'[s]))
    BY DEF GateOpen, SatisfiedEdges, Target
  <2>8. CallCount(s)'
    BY <2>2, <2>3, <2>6, <2>7 DEF CallCount, InOutbound
  <2> QED
    BY <1>0, <1>q, <2>1, <2>8, CountsKept DEF TestGate
<1>r. ASSUME NEW s \in Step, Enqueue(s) PROVE Counts'
  <2>1. \A r \in Step \ {s} : CallKept(r)
    BY <1>r DEF Enqueue, Goto, CallKept, callVars, Inv2, Inv1, TypeOK
  <2>2. UNCHANGED <<branch, todo>> /\ pc'[s] = "edge" /\ pc[s] = "enqueue"
    BY <1>r DEF Enqueue, Goto, callVars, Inv2, Inv1, TypeOK
  <2>3. CallCount(s)'
    BY <2>2 DEF CallCount, InOutbound, Inv2, Counts
  <2> QED
    BY <1>0, <1>r, <2>1, <2>3, CountsKept DEF Enqueue
<1>s. ASSUME NEW s \in Step, LeaveOutbound(s) PROVE Counts'
  <2>1. \A r \in Step : CallKept(r)
    BY <1>s DEF LeaveOutbound, Return, Goto, CallKept, callVars, Inv2, Inv1, TypeOK
  <2> QED
    BY <1>0, <1>s, <2>1, CountsKept DEF LeaveOutbound
<1>t. ASSUME NEW s \in Step, Retry(s) PROVE Counts'
  <2>1. \A r \in Step : CallKept(r)
    BY <1>t DEF Retry, Return, Goto, CallKept, callVars, Inv2, Inv1, TypeOK
  <2> QED
    BY <1>0, <1>t, <2>1, CountsKept DEF Retry
<1>u. ASSUME NEW s \in Step, Backoff(s) PROVE Counts'
  <2>1. \A r \in Step : CallKept(r)
    BY <1>u DEF Backoff, Return, Goto, CallKept, callVars, Inv2, Inv1, TypeOK
  <2> QED
    BY <1>0, <1>u, <2>1, CountsKept DEF Backoff
<1>v. ASSUME NEW s \in Step, Resend(s) PROVE Counts'
  <2>1. \A r \in Step : CallKept(r)
    BY <1>v DEF Resend, Return, Goto, CallKept, callVars, Inv2, Inv1, TypeOK
  <2> QED
    BY <1>0, <1>v, <2>1, CountsKept DEF Resend
<1>w. ASSUME NEW s \in Step, GiveUp(s) PROVE Counts'
  <2>1. \A r \in Step : CallKept(r)
    BY <1>w DEF GiveUp, Return, Goto, CallKept, callVars, Inv2, Inv1, TypeOK
  <2> QED
    BY <1>0, <1>w, <2>1, CountsKept DEF GiveUp
<1>x. ASSUME NEW s \in Step, Fallback(s) PROVE Counts'
  <2>1. \A r \in Step : CallKept(r)
    BY <1>x DEF Fallback, Return, Goto, CallKept, callVars, Inv2, Inv1, TypeOK
  <2> QED
    BY <1>0, <1>x, <2>1, CountsKept DEF Fallback
<1>y. CASE Leave
  BY <1>0, <1>y, CountsKept DEF Leave, CallKept, callVars
<1>z. CASE Crash
  BY <1>0, <1>z, CountsKept DEF Crash, CallKept, callVars
<1>aa. CASE UNCHANGED vars
  BY <1>0, <1>aa, CountsKept DEF vars, CallKept, callVars
<1> QED
  BY <1>a, <1>b, <1>c, <1>d, <1>e, <1>f, <1>g, <1>h, <1>i, <1>j, <1>k, <1>l, <1>m,
     <1>n, <1>o, <1>p, <1>q, <1>r, <1>s, <1>t, <1>u, <1>v, <1>w, <1>x, <1>y, <1>z, <1>aa
  DEF Inv2, Next, MainStep, Worker, ConcurrentMapAccess, PanicOnTornState, Terminated

LEMMA Inv2Always == Spec => []Inv2
<1>1. Init => Inv2
  <2> SUFFICES ASSUME Init PROVE Inv2
    OBVIOUS
  <2>1. \A t \in Step : inboundSatisfied[t] = 0
    BY DEF Init
  <2>2. \A s \in Step : CallCount(s)
    BY DEF Init, CallCount, InOutbound
  <2> QED
    BY <2>1, <2>2, InitInv1, CountedFinite DEF Inv2, Counts
<1>2. Inv2 /\ [Next]_vars => Inv2'
  BY TypeStep, ControlStep, QueueStep, CountStep DEF Inv2, Inv1
<1> QED
  BY <1>1, <1>2, PTL DEF Spec

(***************************************************************************)
(* Scheduler implements WorkflowRun.  bar is the branch that WorkflowRun   *)
(* sees: that of a step which has succeeded.                               *)
(***************************************************************************)
bar == [s \in Step |-> IF status[s] = "SUCCEEDED" THEN branch[s] ELSE NoBranch]

(* The gate does not look at the branch of a step that has not succeeded.  *)
LEMMA PromiseGate ==
    ASSUME NEW t, GateOpen(status, branch, t)
    PROVE  Promise!GateOpen(status, bar, t)
<1>1. SatisfiedEdges(status, branch, t) = Promise!SatisfiedEdges(status, bar, t)
  <2>1. ASSUME NEW e \in InEdges(t)
        PROVE  e[1] \in Step /\ (status[e[1]] = "SUCCEEDED" => bar[e[1]] = branch[e[1]])
    BY <2>1, InEdgesSource DEF bar
  <2> QED
    BY <2>1 DEF SatisfiedEdges, Promise!SatisfiedEdges, InEdges, Promise!InEdges, AllEdges,
        Promise!AllEdges, OutEdges, Promise!OutEdges, Target, Promise!Target, Taken, Promise!Taken
<1>2. InEdges(t) = Promise!InEdges(t) /\ StepReadinessThreshold(t) = Promise!StepReadinessThreshold(t)
  BY DEF InEdges, Promise!InEdges, AllEdges, Promise!AllEdges, OutEdges, Promise!OutEdges,
     Target, Promise!Target, StepReadinessThreshold, Promise!StepReadinessThreshold
<1> QED
  BY <1>1, <1>2 DEF GateOpen, Promise!GateOpen

(* A step that changes no status, and the branch of no success, stutters. *)
LEMMA PromiseStutter ==
    ASSUME UNCHANGED status, \A r \in Step : status[r] = "SUCCEEDED" => branch'[r] = branch[r]
    PROVE  UNCHANGED <<status, bar>>
  BY DEF bar

(* A step that changes the status of s alone, to no success. *)
LEMMA PromiseBar ==
    ASSUME NEW s \in Step, NEW v, status' = [status EXCEPT ![s] = v], TypeOK,
           v # "SUCCEEDED", status[s] # "SUCCEEDED", UNCHANGED branch
    PROVE  bar' = bar
<1>1. \A r \in Step \ {s} : status'[r] = status[r]
  BY DEF TypeOK
<1>2. status'[s] = v
  BY DEF TypeOK
<1> QED
  BY <1>1, <1>2 DEF bar

LEMMA PromiseMarkReady ==
    ASSUME Inv2, NEW t \in Step, MarkReady(t), UNCHANGED branch,
           GateOpen(status, branch, t) \/ FallbackDue(status, t)
    PROVE  Promise!Release(t) \/ UNCHANGED <<status, bar>>
<1>1. CASE status[t] = "PENDING"
  <2>1. status' = [status EXCEPT ![t] = "READY"]
    BY <1>1 DEF MarkReady
  <2>2. bar' = bar
    BY <1>1, <2>1, PromiseBar DEF Inv2, Inv1
  <2>3. Promise!GateOpen(status, bar, t) \/ Promise!FallbackDue(status, t)
    BY PromiseGate DEF FallbackDue, Promise!FallbackDue
  <2> QED
    BY <1>1, <2>1, <2>2, <2>3 DEF Promise!Release, bar
<1>2. CASE status[t] # "PENDING"
  <2>1. UNCHANGED status
    BY <1>2 DEF MarkReady
  <2> QED
    BY <2>1, PromiseStutter
<1> QED
  BY <1>1, <1>2

LEMMA PromiseStep == Inv2 /\ [Next]_vars => [Promise!Next]_(Promise!vars)
<1> SUFFICES ASSUME Inv2, [Next]_vars
             PROVE  Promise!Next \/ UNCHANGED <<status, bar>>
  BY DEF Promise!vars, bar
<1>a. CASE MarkSeeds
  <2>1. \A s \in Step : status[s] \in {"READY", "PENDING"}
    BY <1>a DEF MarkSeeds, Inv2, Inv1, Control, MainControl
  <2>2. status' = [s \in Step |-> IF s \in SeedCompleted THEN "SUCCEEDED" ELSE status[s]]
    BY <1>a DEF MarkSeeds, Seeds
  <2>3. bar' = [s \in Step |-> IF s \in SeedCompleted THEN SeedBranches[s] ELSE bar[s]]
    BY <1>a, <2>1, <2>2 DEF MarkSeeds, Seeds, bar
  <2>4. Promise!Resume
    BY <2>1, <2>2, <2>3 DEF Promise!Resume, bar
  <2> QED
    BY <2>4 DEF Promise!Next
<1>g. CASE SkipPending
  <2>1. CASE WithStatus({"READY", "RUNNING"}) = {} /\ WithStatus({"PENDING"}) # {}
    <3>1. status' = [s \in Step |-> IF status[s] = "PENDING" THEN "SKIPPED" ELSE status[s]]
      BY <1>g, <2>1 DEF SkipPending
    <3>2. \A s \in Step : status[s] \notin {"READY", "RUNNING"}
      BY <2>1 DEF WithStatus
    <3>3. bar' = bar
      BY <1>g, <3>1 DEF SkipPending, callVars, bar
    <3>4. Promise!GiveUpPending
      BY <3>1, <3>2, <3>3 DEF Promise!GiveUpPending, bar
    <3> QED
      BY <3>4 DEF Promise!Next
  <2>2. CASE ~(WithStatus({"READY", "RUNNING"}) = {} /\ WithStatus({"PENDING"}) # {})
    BY <1>g, <2>2, PromiseStutter DEF SkipPending, callVars
  <2> QED
    BY <2>1, <2>2
<1>d. CASE Receive
  <2>1. CASE status[Head(readyCh)] = "READY"
    <3>1. Head(readyCh) \in Step
      BY <1>d, HeadTailProperties DEF Receive, Inv2, Inv1, TypeOK
    <3>2. status' = [status EXCEPT ![Head(readyCh)] = "RUNNING"] /\ UNCHANGED branch
      BY <1>d, <2>1 DEF Receive, callVars
    <3>3. bar' = bar
      BY <2>1, <3>1, <3>2, PromiseBar DEF Inv2, Inv1
    <3>4. Promise!Start(Head(readyCh))
      BY <2>1, <3>2, <3>3 DEF Promise!Start, bar
    <3> QED
      BY <3>1, <3>4 DEF Promise!Next, Promise!StepNext
  <2>2. CASE status[Head(readyCh)] # "READY"
    BY <1>d, <2>2, PromiseStutter DEF Receive, callVars
  <2> QED
    BY <2>1, <2>2
<1>b. CASE NextSeed
  BY <1>b, PromiseStutter DEF NextSeed, callVars
<1>c. CASE TestDone
  BY <1>c, PromiseStutter DEF TestDone, callVars
<1>e. CASE Acquire
  BY <1>e, PromiseStutter DEF Acquire, callVars
<1>f. CASE ChooseDefault
  BY <1>f, PromiseStutter DEF ChooseDefault, callVars
<1>h. CASE Wait
  BY <1>h, PromiseStutter DEF Wait, callVars
<1>i. ASSUME NEW s \in Step, Snapshot(s) PROVE UNCHANGED <<status, bar>>
  BY <1>i, PromiseStutter DEF Snapshot, callVars
<1>j. ASSUME NEW s \in Step, Skip(s) PROVE Promise!Next
  <2>1. status[s] = "RUNNING"
    BY <1>j DEF Skip, Inv2, Inv1, Control, CallControl, Executing
  <2>2. status' = [status EXCEPT ![s] = "SKIPPED"] /\ UNCHANGED branch
    BY <1>j DEF Skip, callVars
  <2>3. bar' = bar
    BY <2>1, <2>2, PromiseBar DEF Inv2, Inv1
  <2>4. Promise!Settle(s, "SKIPPED")
    BY <2>1, <2>2, <2>3 DEF Promise!Settle, bar
  <2> QED
    BY <2>4 DEF Promise!Next, Promise!StepNext
<1>k. ASSUME NEW s \in Step, BadInput(s) PROVE UNCHANGED <<status, bar>>
  BY <1>k, PromiseStutter DEF BadInput, callVars
<1>l. ASSUME NEW s \in Step, ExecuteError(s) PROVE UNCHANGED <<status, bar>>
  BY <1>l, PromiseStutter DEF ExecuteError, callVars
<1>m. ASSUME NEW s \in Step, Execute(s) PROVE UNCHANGED <<status, bar>>
  <2>1. status[s] = "RUNNING" /\ UNCHANGED status
    BY <1>m DEF Execute, Inv2, Inv1, Control, CallControl, Executing
  <2>2. \A r \in Step \ {s} : branch'[r] = branch[r]
    BY <1>m DEF Execute, Inv2, Inv1, TypeOK
  <2> QED
    BY <2>1, <2>2, PromiseStutter
<1>n. ASSUME NEW s \in Step, Finish(s) PROVE Promise!Next
  <2>1. status[s] = "RUNNING" /\ branch[s] \in BranchName
    BY <1>n DEF Finish, Inv2, Inv1, TypeOK, Control, CallControl, Executing
  <2>2. status' = [status EXCEPT ![s] = "SUCCEEDED"] /\ UNCHANGED branch
    BY <1>n DEF Finish
  <2>3. status'[s] = "SUCCEEDED" /\ \A r \in Step \ {s} : status'[r] = status[r]
    BY <2>2 DEF Inv2, Inv1, TypeOK
  <2>4. bar' = [bar EXCEPT ![s] = branch[s]]
    BY <2>2, <2>3 DEF bar
  <2>5. Promise!Succeed(s)
    BY <2>1, <2>2, <2>4 DEF Promise!Succeed, bar
  <2> QED
    BY <2>5 DEF Promise!Next, Promise!StepNext
<1>o. ASSUME NEW s \in Step, NextEdge(s) PROVE UNCHANGED <<status, bar>>
  BY <1>o, PromiseStutter DEF NextEdge, callVars
<1>p. ASSUME NEW s \in Step, Bump(s) PROVE UNCHANGED <<status, bar>>
  BY <1>p, PromiseStutter DEF Bump, callVars
<1>q. ASSUME NEW s \in Step, TestGate(s) PROVE UNCHANGED <<status, bar>>
  BY <1>q, PromiseStutter DEF TestGate, callVars
<1>r. ASSUME NEW s \in Step, Enqueue(s) PROVE Promise!Next \/ UNCHANGED <<status, bar>>
  <2> PICK t \in {Target(s, edge[s])} : TRUE
    OBVIOUS
  <2>1. t \in Step /\ MarkReady(t) /\ UNCHANGED branch
    BY <1>r, OutEdgesType DEF Enqueue, callVars, Inv2, Inv1, Control, CallControl
  <2>2. GateOpen(status, branch, t)
    BY <1>r DEF Enqueue, Inv2, Counts, CallCount
  <2> QED
    BY <2>1, <2>2, PromiseMarkReady DEF Promise!Next, Promise!StepNext
<1>s. ASSUME NEW s \in Step, LeaveOutbound(s) PROVE UNCHANGED <<status, bar>>
  BY <1>s, PromiseStutter DEF LeaveOutbound, callVars
<1>t. ASSUME NEW s \in Step, Retry(s) PROVE UNCHANGED <<status, bar>>
  BY <1>t, PromiseStutter DEF Retry, callVars
<1>u. ASSUME NEW s \in Step, Backoff(s) PROVE Promise!Next
  <2>1. status[s] = "RUNNING"
    BY <1>u DEF Backoff, Inv2, Inv1, Control, CallControl, Executing
  <2>2. status' = [status EXCEPT ![s] = "READY"] /\ UNCHANGED branch
    BY <1>u DEF Backoff, callVars
  <2>3. bar' = bar
    BY <2>1, <2>2, PromiseBar DEF Inv2, Inv1
  <2>4. Promise!Settle(s, "READY")
    BY <2>1, <2>2, <2>3 DEF Promise!Settle, bar
  <2> QED
    BY <2>4 DEF Promise!Next, Promise!StepNext
<1>v. ASSUME NEW s \in Step, Resend(s) PROVE UNCHANGED <<status, bar>>
  BY <1>v, PromiseStutter DEF Resend, callVars
<1>w. ASSUME NEW s \in Step, GiveUp(s) PROVE Promise!Next
  <2>1. status[s] = "RUNNING"
    BY <1>w DEF GiveUp, Inv2, Inv1, Control, CallControl, Executing
  <2>2. status' = [status EXCEPT ![s] = "FAILED"] /\ UNCHANGED branch
    BY <1>w DEF GiveUp, callVars
  <2>3. bar' = bar
    BY <2>1, <2>2, PromiseBar DEF Inv2, Inv1
  <2>4. Promise!Settle(s, "FAILED")
    BY <2>1, <2>2, <2>3 DEF Promise!Settle, bar
  <2> QED
    BY <2>4 DEF Promise!Next, Promise!StepNext
<1>x. ASSUME NEW s \in Step, Fallback(s) PROVE Promise!Next \/ UNCHANGED <<status, bar>>
  <2>1. CASE FallbackStep[s] \in Step
    <3>1. FallbackDue(status, FallbackStep[s])
      BY <1>x DEF Fallback, FallbackDue, Inv2, Inv1, Control, CallControl
    <3>2. MarkReady(FallbackStep[s]) /\ UNCHANGED branch
      BY <1>x, <2>1 DEF Fallback, callVars
    <3> QED
      BY <2>1, <3>1, <3>2, PromiseMarkReady DEF Promise!Next, Promise!StepNext
  <2>2. CASE FallbackStep[s] \notin Step
    BY <1>x, <2>2, PromiseStutter DEF Fallback, callVars
  <2> QED
    BY <2>1, <2>2
<1>y. CASE Leave
  BY <1>y, PromiseStutter DEF Leave, callVars
<1>z. CASE Crash
  BY <1>z, PromiseStutter DEF Crash, callVars
<1>aa. CASE UNCHANGED vars
  BY <1>aa, PromiseStutter DEF vars, callVars
<1> QED
  BY <1>a, <1>b, <1>c, <1>d, <1>e, <1>f, <1>g, <1>h, <1>i, <1>j, <1>k, <1>l, <1>m,
     <1>n, <1>o, <1>p, <1>q, <1>r, <1>s, <1>t, <1>u, <1>v, <1>w, <1>x, <1>y, <1>z, <1>aa
  DEF Next, MainStep, Worker, ConcurrentMapAccess, PanicOnTornState, Terminated

(* Every run of the scheduler, races and crashes included, is a run of     *)
(* WorkflowRun.                                                            *)
THEOREM Implementation == Spec => Implements
<1>1. Init => Promise!Init
  BY DEF Init, Promise!Init, Roots, Promise!Roots, InEdges, Promise!InEdges, AllEdges,
     Promise!AllEdges, OutEdges, Promise!OutEdges, Target, Promise!Target
<1> QED
  BY <1>1, Inv2Always, PromiseStep, PTL DEF Spec, Implements, Promise!Spec

=============================================================================
