----------------------------- MODULE MCExecutor -----------------------------
(***************************************************************************)
(* Instances of Executor: attempts with and without a timeout, and every   *)
(* way in which a step may come by a credential, with a schema that takes  *)
(* all payloads or none.                                                   *)
(***************************************************************************)
EXTENDS Executor

CD == {"c", "d"}

Plain == [kind |-> "binary", inputValid |-> TRUE, outputValid |-> TRUE,
          stepTimeout |-> 0, actionTimeout |-> 30000, credentialType |-> "", refuse |-> {},
          connection |-> "", legacy |-> FALSE, inject |-> TRUE, injected |-> {},
          registered |-> [c \in CD |-> "absent"], secrets |-> {}]

(* With the step's timeout, with the action's own, with one of the action  *)
(* that is too short to count, with none; and a core action.               *)
TimeoutConfigs ==
    {[Plain EXCEPT !.stepTimeout = 10, !.actionTimeout = 500],
     [Plain EXCEPT !.outputValid = FALSE],
     [Plain EXCEPT !.actionTimeout = 500],
     [Plain EXCEPT !.actionTimeout = -1500],
     [Plain EXCEPT !.inputValid = FALSE],
     [Plain EXCEPT !.kind = "core"],
     [Plain EXCEPT !.kind = "unknown"]}

CredentialConfigs ==
    {[Plain EXCEPT !.actionTimeout = 0, !.credentialType = ct, !.refuse = r, !.connection = c,
                   !.legacy = l, !.inject = i, !.injected = g,
                   !.registered = [c |-> t, d |-> "token"], !.secrets = s] :
        ct \in {"", "token"}, r \in {{}, {"", "c"}}, c \in {"", "c"}, l \in BOOLEAN,
        i \in BOOLEAN, g \in {{}, {"c"}, {"d"}}, t \in {"absent", "token", "other"},
        s \in {{}, {"c"}, {"d"}}}

AllConfigs == TimeoutConfigs \cup CredentialConfigs
=============================================================================
