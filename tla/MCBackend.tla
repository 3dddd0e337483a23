----------------------------- MODULE MCBackend -----------------------------
(***************************************************************************)
(* Instances of Backend: b waits for the branch yes of a, c for any of a   *)
(* and b; b and c may fail, and c may be retried and then skipped.          *)
(***************************************************************************)
EXTENDS Backend

ABC == {"a", "b", "c"}
Names == {"a", "b", "c", "ghost"}
Labels == {"", "yes", "no"}
To(t) == [to |-> t, branch |-> ""]
If(label, t) == [to |-> t, branch |-> label]

Edges == [a |-> <<If("yes", "b"), To("c")>>, b |-> <<To("c")>>, c |-> <<>>]
Gates == [a |-> "", b |-> "ALL", c |-> "ANY"]
NoFallback == [s \in ABC |-> "ghost"]
Results == [a |-> {"success"}, b |-> {"success", "error", "unrecorded"},
            c |-> {"skip", "retry", "unencodable"}]
Chosen == [a |-> {"yes", "no"}, b |-> {""}, c |-> {""}]
OutputOfA == {"a"}
=============================================================================
