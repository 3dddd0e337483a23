--------------------------- MODULE WorkflowGraph ---------------------------
(***************************************************************************)
(* The static part of a torkflow workflow: the steps of workflow.yaml, the *)
(* graph that engine.buildGraph makes of their outbound edges              *)
(* (src/internal/dag/dag.go), the readiness gates and the fallback steps.  *)
(* It has no state; Scheduler and WorkflowRun are both built on it.        *)
(***************************************************************************)
EXTENDS Naturals, Sequences, FiniteSets

CONSTANTS
    Step,           \* the names of the workflow's steps
    Name,           \* every name a workflow may mention, known step or not
    BranchName,     \* the branch labels, NoBranch among them
    NoBranch,       \* the empty label
    OutboundEdges,  \* the edges of each step, in the order of the file
    ReadinessGate,  \* thresholdType of each step, "" when there is none
    FallbackStep    \* fallbackStepName of each step, a non-step when absent

Edge == [to : Name, branch : BranchName]

ASSUME StepAssumption == IsFiniteSet(Step) /\ Step \subseteq Name
ASSUME BranchAssumption == NoBranch \in BranchName
ASSUME EdgesAssumption == OutboundEdges \in [Step -> Seq(Edge)]
ASSUME GateAssumption == ReadinessGate \in [Step -> {"", "ALL", "ANY"}]
ASSUME FallbackAssumption == FallbackStep \in [Step -> Name]

(***************************************************************************)
(* AddEdge drops the edge that leads to an unknown step and buildGraph     *)
(* ignores its error, so the graph has the edges between known steps.  An  *)
(* edge is its source and its index, for two steps may share two edges.    *)
(***************************************************************************)
OutEdges(s) == {k \in DOMAIN OutboundEdges[s] : OutboundEdges[s][k].to \in Step}

Target(s, k) == OutboundEdges[s][k].to

AllEdges == UNION {{s} \X OutEdges(s) : s \in Step}

InEdges(t) == {e \in AllEdges : Target(e[1], e[2]) = t}

InboundCount(t) == Cardinality(InEdges(t))

inboundTotal == [t \in Step |-> InboundCount(t)]

Roots == {t \in Step : InEdges(t) = {}}

(* StepReadinessThreshold: a gate that is absent or blank means ALL. *)
StepReadinessThreshold(t) ==
    IF ReadinessGate[t] = "" THEN "ALL" ELSE ReadinessGate[t]

(* The edges that a success of s with branch label b follows. *)
Taken(s, b) == {k \in OutEdges(s) : OutboundEdges[s][k].branch \in {NoBranch, b}}

(***************************************************************************)
(* What the counters of the scheduler stand for: the edges into t whose    *)
(* source has succeeded and took them, and when they open the gate of t.   *)
(***************************************************************************)
SatisfiedEdges(status, branch, t) ==
    {e \in InEdges(t) : /\ status[e[1]] = "SUCCEEDED"
                        /\ e[2] \in Taken(e[1], branch[e[1]])}

GateOpen(status, branch, t) ==
    IF StepReadinessThreshold(t) = "ANY"
    THEN SatisfiedEdges(status, branch, t) # {}
    ELSE /\ InEdges(t) # {}
         /\ SatisfiedEdges(status, branch, t) = InEdges(t)

(* t is the fallback of a step that has failed for good. *)
FallbackDue(status, t) ==
    \E s \in Step : FallbackStep[s] = t /\ status[s] = "FAILED"
=============================================================================
