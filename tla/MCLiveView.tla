----------------------------- MODULE MCLiveView -----------------------------
(***************************************************************************)
(* Every graph of three steps and a name that is no step, with up to two   *)
(* edges from the first step to the second, is drawn without a run.  Runs  *)
(* are watched of two graphs.  In both, the last step is the fallback of   *)
(* the first and its gate is ANY: in the one it waits for the two others,  *)
(* in the other the second step releases the first and that the last.  The *)
(* first step may end in any way, and its value may have no text in JSON;  *)
(* the files are read in the order of the names.                           *)
(***************************************************************************)
EXTENDS LiveView

Steps == 1..3
Names == 1..4
UpToTwo == [p \in Steps \X Names |-> IF p = <<1, 2>> THEN 2 ELSE 1]
Graph(pairs) == [p \in Steps \X Names |-> IF p \in pairs THEN 1 ELSE 0]
JoinAndChain == {Graph({<<1, 3>>, <<2, 3>>}), Graph({<<2, 1>>, <<1, 3>>})}
One == {1}
Last == {3}
OneToLast == {<<1, 3>>}
=============================================================================
