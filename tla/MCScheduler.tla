---------------------------- MODULE MCScheduler ----------------------------
(***************************************************************************)
(* Small workflows for the model checker.  Each is chosen for one way of   *)
(* releasing steps: a join of parallel steps and branches, and a resumed   *)
(* run with failures, retries, fallbacks and orphaned steps.               *)
(***************************************************************************)
EXTENDS Scheduler

Names == {"a", "b", "c", "d", "e", "f", "ghost"}
Labels == {"", "yes", "no"}
To(t) == [to |-> t, branch |-> ""]
If(label, t) == [to |-> t, branch |-> label]

Plain == {"success"}
Faulty == {"success", "error"}

A == {"a"}
ABC == {"a", "b", "c"}
ABCDE == {"a", "b", "c", "d", "e"}
ABCDEF == ABCDE \cup {"f"}
AllA == [s \in A |-> ""]
AllABC == [s \in ABC |-> ""]
NoFallbackA == [s \in A |-> "ghost"]
NoFallbackABCDE == [s \in ABCDE |-> "ghost"]
NoRetryA == [s \in A |-> 0]
NoRetryABC == [s \in ABC |-> 0]
UnlabelledA == [s \in A |-> {""}]
UnlabelledABC == [s \in ABC |-> {""}]
NoSeeds == {}

(* Join: a and b are roots; a takes yes or no.  d waits for all of a, b    *)
(* and c, c for any of a's yes and b, e for any of a's no, c and d.  b may *)
(* fail, c may be skipped by its expression.                               *)
JoinEdges == [a |-> <<If("yes", "c"), To("d"), If("no", "e")>>,
              b |-> <<To("c"), To("ghost"), To("d")>>,
              c |-> <<To("d"), To("e")>>, d |-> <<To("e")>>, e |-> <<>>]
JoinGates == [a |-> "", b |-> "", c |-> "ANY", d |-> "ALL", e |-> "ANY"]
JoinBranches == [a |-> {"yes", "no"}, b |-> {""}, c |-> {""}, d |-> {""}, e |-> {""}]
JoinOutcomes == [a |-> Plain, b |-> Faulty, c |-> Plain \cup {"skip"}, d |-> Plain, e |-> Plain]
JoinRetries == [s \in ABCDE |-> 0]

(* Recovery: the prior run had succeeded at a, on branch yes, and at a     *)
(* step the workflow no longer has.  b, with every outcome (input that     *)
(* cannot be resolved, output that cannot be encoded), and the root c run  *)
(* in parallel, are retried once and both fall back on d, which b releases *)
(* too.  e waits for a and c.  f waits for itself, for ever.               *)
RecoverySeeds == {"a", "ghost"}
RecoveryBranches == [a |-> "yes", b |-> "", c |-> "", d |-> "", e |-> "", f |-> ""]
RecoveryEdges == [a |-> <<If("yes", "b"), If("no", "d"), To("e")>>, b |-> <<To("d")>>,
                  c |-> <<To("e")>>, d |-> <<>>, e |-> <<>>, f |-> <<To("f")>>]
RecoveryGates == [a |-> "", b |-> "", c |-> "", d |-> "ANY", e |-> "ALL", f |-> "ANY"]
RecoveryFallback == [a |-> "ghost", b |-> "d", c |-> "d", d |-> "ghost", e |-> "b", f |-> "c"]
RecoveryOutcomes == [a |-> Plain, b |-> OutcomeKind, c |-> Faulty,
                     d |-> {"success", "badInput", "skip"}, e |-> Faulty, f |-> Plain]
RecoveryRetries == [a |-> 0, b |-> 1, c |-> 1, d |-> 0, e |-> 0, f |-> 0]
UnlabelledABCDEF == [s \in ABCDEF |-> {""}]

(* Pair: two roots and their common successor, which is the fallback of a  *)
(* too; only a may fail.                                                   *)
PairEdges == [a |-> <<To("c")>>, b |-> <<To("c")>>, c |-> <<>>]
PairFallback == [a |-> "c", b |-> "ghost", c |-> "ghost"]
PairOutcomes == [a |-> Faulty, b |-> Plain, c |-> Plain]
SeedlessA == [s \in A |-> ""]
SeedlessABC == [s \in ABC |-> ""]
SeedlessABCDE == [s \in ABCDE |-> ""]

(* One step, whose input cannot be resolved. *)
OneEdges == [a |-> <<>>]
OneOutcomes == [a |-> {"badInput"}]
=============================================================================
