---------------------------- MODULE MCStateFile ----------------------------
(***************************************************************************)
(* Instances of StateFile: two steps that run together, one of which       *)
(* branches while the other fails, and a third that is never released; or  *)
(* only the two, one after the other.                                      *)
(***************************************************************************)
EXTENDS StateFile

AB == {"a", "b"}
ABC == {"a", "b", "c"}
OnlyB == {"b"}
OnlyC == {"c"}
NoStep == {}
RetryA == [s \in AB |-> IF s = "a" THEN 1 ELSE 0]
RetryAB == [s \in ABC |-> IF s = "c" THEN 0 ELSE 1]
=============================================================================
