------------------------------ MODULE DagView ------------------------------
(***************************************************************************)
(* The stages of "torkflow view" and of the live view: renderDAG           *)
(* (src/internal/cli/dag.go 25-111) peels the graph of the workflow file   *)
(* from its roots and gives every name a level.  The file may hold cycles, *)
(* parallel edges and edges to names that are no steps; the view draws     *)
(* those too, unlike the engine's graph, which drops them (dag.go 31-43).  *)
(* LiveView draws a run with it, frame after frame.                        *)
(***************************************************************************)
EXTENDS Naturals, FiniteSets, FiniteSetsExt, Functions

CONSTANTS
    Step,      \* the steps of the file
    Name,      \* the names its edges may lead to
    Parallel   \* how many edges there may be between two names

ASSUME StepAssumption == Step \subseteq Name /\ IsFiniteSet(Name)
ASSUME ParallelAssumption == Parallel \in [Step \X Name -> Nat]

VARIABLES
    edges,      \* the number of edges from each step to each name
    queue,      \* the names whose inbound edges have all been followed
    level,      \* the level of each name, 0 for an absent one
    remaining,  \* inbound edges not followed yet
    visited     \* the names taken from the queue

walkVars == <<queue, level, remaining, visited>>

Indegree(n) == MapThenSumSet(LAMBDA s : edges[s, n], Step)
Targets(s) == IF s \in Step THEN {n \in Name : edges[s, n] > 0} ELSE {}

(* Lines 56-78. *)
ViewRoots == {s \in Step : Indegree(s) = 0}

StartWalk ==
    /\ edges \in [Step \X Name -> 0..Max(Range(Parallel))]
    /\ \A p \in Step \X Name : edges[p] <= Parallel[p]
    /\ queue = ViewRoots
    /\ level = [n \in Name |-> 0]
    /\ remaining = [n \in Name |-> Indegree(n)]
    /\ visited = {}

RestartWalk ==
    /\ queue' = ViewRoots
    /\ level' = [n \in Name |-> 0]
    /\ remaining' = [n \in Name |-> Indegree(n)]
    /\ visited' = {}

(* One turn of the loop (80-93).  The queue is kept sorted; nothing here   *)
(* depends on it, so any name of the queue may be next.                    *)
SetOnce(cur) ==
    [n \in Name |-> IF n \in Targets(cur) /\ level[n] = 0 THEN level[cur] + 1 ELSE level[n]]

Raised(cur) ==
    [n \in Name |-> IF n \in Targets(cur) THEN Max({level[n], level[cur] + 1}) ELSE level[n]]

Followed(cur) ==
    [n \in Name |-> IF n \in Targets(cur) THEN remaining[n] - edges[cur, n] ELSE remaining[n]]

Visit(cur) ==
    /\ cur \in queue
    /\ level' = Raised(cur)
    /\ remaining' = Followed(cur)
    /\ queue' = (queue \ {cur}) \cup {n \in Targets(cur) : remaining'[n] = 0}
    /\ visited' = visited \cup {cur}
    /\ UNCHANGED edges

-----------------------------------------------------------------------------
(* Properties.                                                             *)

(* The names that can be reached from n by k edges. *)
Reach(k, n) ==
    LET reach[i \in Nat] == IF i = 0 THEN {n} ELSE UNION {Targets(m) : m \in reach[i - 1]}
    IN reach[k]

Length == 0..Cardinality(Name)
OnCycle == {n \in Name : \E k \in Length \ {0} : n \in Reach(k, n)}
AfterCycle == {n \in Name : \E c \in OnCycle, k \in Length : n \in Reach(k, c)}

(* The length of the longest walk from a root to n. *)
Depth(n) == Max({k \in Length : \E r \in ViewRoots : n \in Reach(k, r)})

(* What the view shows is the order in which the steps of an acyclic file  *)
(* can be released: exactly the names that no cycle reaches are taken from *)
(* the queue, and each of them is at the length of the longest way to it,  *)
(* so that all its edges lead to later stages; names on and after cycles   *)
(* keep nobody else from that.                                             *)
StagesAreDepths ==
    queue = {} =>
        /\ visited = (Step \cup UNION {Targets(s) : s \in Step}) \ AfterCycle
        /\ \A n \in visited : level[n] = Depth(n)
=============================================================================
