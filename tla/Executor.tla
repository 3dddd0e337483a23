------------------------------ MODULE Executor ------------------------------
(***************************************************************************)
(* The attempts to execute one step: Scheduler.executeStep (scheduler.go   *)
(* 209-269), Engine.ResolveCredential (engine.go 233-283), and WithTimeout *)
(* and RunBinary (src/internal/executor/binary.go).  A binary action is a  *)
(* process; under a timeout a helper goroutine waits for it and sends what *)
(* it answers on a channel of its own.  The timeout ends the waiting only: *)
(* the process goes on, and may still run when the step is retried.        *)
(***************************************************************************)
EXTENDS Integers, FiniteSets

CONSTANTS
    Configs,       \* the workflows, actions and requests considered
    Connection,    \* the names of connections
    NoConnection,  \* the name "" of a step that names none
    AttemptBound   \* BOUND of the model on the attempts of the step

(* Timeouts are in seconds for a step, in milliseconds for an action.  A   *)
(* connection type is a string, "" for none; refuse holds the connections  *)
(* whose payload the credential schema of the action refuses, and          *)
(* NoConnection if it refuses the workflow's own; secrets holds those      *)
(* whose secretRef the secret store finds or that have none.               *)
Config == [kind : {"core", "binary", "unknown"},
           inputValid : BOOLEAN, outputValid : BOOLEAN,
           stepTimeout : Int, actionTimeout : Int,
           credentialType : {"", "token"}, refuse : SUBSET (Connection \cup {NoConnection}),
           connection : Connection \cup {NoConnection}, legacy : BOOLEAN,
           inject : BOOLEAN, injected : SUBSET Connection,
           registered : [Connection -> {"absent", "token", "other"}], secrets : SUBSET Connection]

ASSUME ConfigsAssumption == Configs \subseteq Config
ASSUME ConnectionAssumption == NoConnection \notin Connection
ASSUME BoundAssumption == AttemptBound \in Nat \ {0}

Attempt == 1..AttemptBound
Answers == {"success", "refused", "garbled", "exited"}

VARIABLES
    config,      \* what the run was given; never changes
    at,          \* control point of executeStep
    attempt,     \* the attempt it works for
    credential,  \* what ResolveCredential returned
    child,       \* the process of each attempt
    answer,      \* what the process answered
    helper,      \* the helper goroutine of each attempt
    ch,          \* the channel of each attempt, of capacity 1
    result,      \* the response executeStep looks at
    timedOut     \* history: the attempts that timed out

vars == <<config, at, attempt, credential, child, answer, helper, ch, result, timedOut>>
childVars == <<child, answer, helper, ch>>

None == [source |-> "none", name |-> NoConnection]

Init ==
    /\ config \in Configs
    /\ at = "lookup" /\ attempt = 1
    /\ credential = None
    /\ child = [k \in Attempt |-> "none"]
    /\ answer = [k \in Attempt |-> "none"]
    /\ helper = [k \in Attempt |-> "none"]
    /\ ch = [k \in Attempt |-> "none"]
    /\ result = "none"
    /\ timedOut = {}

Goto(label) == at' = label

-----------------------------------------------------------------------------
(* ResolveCredential: what a step may call its action with.  The sources   *)
(* are the request, the secret store and the workflow's own (legacy)       *)
(* connections.                                                            *)
Granted(source) == [ok |-> TRUE, value |-> [source |-> source, name |-> config.connection]]
Empty == [ok |-> TRUE, value |-> None]
Refused == [ok |-> FALSE, value |-> None]

WithoutConnection == IF config.credentialType # "" THEN Refused ELSE Empty

(* The schema.  What the workflow itself declares is not put to it (254-262).*)
Checked(grant) == IF config.connection \in config.refuse THEN Refused ELSE grant

ResolveInjected ==
    IF config.connection = NoConnection THEN WithoutConnection
    ELSE IF config.connection \in config.injected THEN Checked(Granted("request"))
    ELSE Refused

(* What the connection registry and the secret store know of it. *)
ConnectionType == config.registered[config.connection]
SecretFound == config.connection \in config.secrets

ResolveFromFiles ==
    IF config.connection = NoConnection
    THEN IF config.legacy THEN Granted("workflow") ELSE WithoutConnection
    ELSE IF \/ ConnectionType = "absent"
            \/ config.credentialType # "" /\ ConnectionType # config.credentialType
            \/ ~SecretFound
         THEN Refused
         ELSE Checked(Granted("secrets"))

ResolveCredentialFallingBack ==
    IF config.inject /\ config.connection \in config.injected
    THEN ResolveInjected ELSE ResolveFromFiles

ResolveCredential == IF config.inject THEN ResolveInjected ELSE ResolveFromFiles

(* The timeout in whole seconds (247-250): int() cuts a fraction off. *)
EffectiveTimeout ==
    IF config.stepTimeout > 0 THEN config.stepTimeout
    ELSE IF config.actionTimeout >= 0 THEN config.actionTimeout \div 1000
    ELSE -((-config.actionTimeout) \div 1000)

-----------------------------------------------------------------------------
(* executeStep. *)
Lookup ==
    /\ at = "lookup"
    /\ CASE config.kind = "core"    -> \E outcome \in {"success", "error"} : Goto(outcome)
         [] config.kind = "unknown" -> Goto("error")
         [] config.kind = "binary"  -> Goto("input")
    /\ UNCHANGED <<config, attempt, credential, childVars, result, timedOut>>

ValidateInput ==
    /\ at = "input"
    /\ Goto(IF config.inputValid THEN "credential" ELSE "error")
    /\ UNCHANGED <<config, attempt, credential, childVars, result, timedOut>>

Credential ==
    /\ at = "credential"
    /\ credential' = ResolveCredential.value
    /\ Goto(IF ResolveCredential.ok THEN "call" ELSE "error")
    /\ UNCHANGED <<config, attempt, childVars, result, timedOut>>

(* WithTimeout (binary.go 68-81): without a timeout the caller itself runs *)
(* RunBinary, otherwise the helper does.                                   *)
Call ==
    /\ at = "call"
    /\ IF EffectiveTimeout <= 0
       THEN Goto("direct") /\ UNCHANGED helper
       ELSE Goto("waiting") /\ helper' = [helper EXCEPT ![attempt] = "running"]
    /\ UNCHANGED <<config, attempt, credential, child, answer, ch, result, timedOut>>

(* RunBinary (31-43): the process is started ... *)
StartChild(k) ==
    /\ helper[k] = "running" \/ (at = "direct" /\ attempt = k)
    /\ child[k] = "none"
    /\ \/ child' = [child EXCEPT ![k] = "running"] /\ UNCHANGED answer
       \/ child' = [child EXCEPT ![k] = "ended"]        \* it cannot be started
          /\ answer' = [answer EXCEPT ![k] = "exited"]
    /\ UNCHANGED <<config, at, attempt, credential, helper, ch, result, timedOut>>

(* ... and ends, in its own time or never, with a response that says       *)
(* success or not, with something else than a response, or with an error   *)
(* status (43-65).                                                         *)
ChildEnds(k) ==
    /\ child[k] = "running"
    /\ child' = [child EXCEPT ![k] = "ended"]
    /\ \E a \in Answers : answer' = [answer EXCEPT ![k] = a]
    /\ UNCHANGED <<config, at, attempt, credential, helper, ch, result, timedOut>>

DirectAnswerUnwaited ==
    /\ at = "direct" /\ child[attempt] # "none"
    /\ result' = answer[attempt]
    /\ Goto("output")
    /\ UNCHANGED <<config, attempt, credential, childVars, timedOut>>

DirectAnswer ==
    /\ at = "direct" /\ child[attempt] = "ended"
    /\ result' = answer[attempt]
    /\ Goto("output")
    /\ UNCHANGED <<config, attempt, credential, childVars, timedOut>>

(* The helper sends and ends: the channel has room (77-81). *)
HelperSendsUnbuffered(k) ==
    /\ helper[k] = "running" /\ child[k] = "ended"
    /\ at = "waiting" /\ attempt = k
    /\ ch' = [ch EXCEPT ![k] = answer[k]]
    /\ helper' = [helper EXCEPT ![k] = "ended"]
    /\ UNCHANGED <<config, at, attempt, credential, child, answer, result, timedOut>>

HelperSendsShared(k) ==
    /\ helper[k] = "running" /\ child[k] = "ended"
    /\ ch' = [j \in Attempt |-> answer[k]]
    /\ helper' = [helper EXCEPT ![k] = "ended"]
    /\ UNCHANGED <<config, at, attempt, credential, child, answer, result, timedOut>>

HelperSends(k) ==
    /\ helper[k] = "running" /\ child[k] = "ended"
    /\ ch[k] = "none"
    /\ ch' = [ch EXCEPT ![k] = answer[k]]
    /\ helper' = [helper EXCEPT ![k] = "ended"]
    /\ UNCHANGED <<config, at, attempt, credential, child, answer, result, timedOut>>

(* The select of WithTimeout (83-88): either case may win a tie. *)
ReceiveAnswer ==
    /\ at = "waiting" /\ ch[attempt] # "none"
    /\ result' = ch[attempt]
    /\ ch' = [ch EXCEPT ![attempt] = "none"]
    /\ Goto("output")
    /\ UNCHANGED <<config, attempt, credential, child, answer, helper, timedOut>>

TimeoutOnLateAnswer ==
    /\ at = "waiting" /\ child[attempt] = "ended"
    /\ timedOut' = timedOut \cup {attempt}
    /\ Goto("error")
    /\ UNCHANGED <<config, attempt, credential, childVars, result>>

Timeout ==
    /\ at = "waiting"
    /\ timedOut' = timedOut \cup {attempt}
    /\ Goto("error")
    /\ UNCHANGED <<config, attempt, credential, childVars, result>>

(* What the response says, and the output schema (255-268). *)
CheckOutputUnfolded ==
    /\ at = "output"
    /\ Goto(IF config.outputValid THEN result ELSE "error")
    /\ UNCHANGED <<config, attempt, credential, childVars, result, timedOut>>

CheckOutput ==
    /\ at = "output"
    /\ Goto(IF result = "success" /\ config.outputValid THEN "success" ELSE "error")
    /\ UNCHANGED <<config, attempt, credential, childVars, result, timedOut>>

(* The scheduler retries the step. *)
Retry ==
    /\ at = "error" /\ attempt < AttemptBound
    /\ attempt' = attempt + 1
    /\ Goto("lookup")
    /\ credential' = None /\ result' = "none"
    /\ UNCHANGED <<config, childVars, timedOut>>

Caller ==
    \/ Lookup \/ ValidateInput \/ Credential \/ Call
    \/ DirectAnswer \/ ReceiveAnswer \/ CheckOutput

Helper(k) == StartChild(k) \/ HelperSends(k)

Terminated == at \in {"success", "error"} /\ UNCHANGED vars

Next ==
    \/ Caller \/ Timeout \/ Retry
    \/ \E k \in Attempt : Helper(k) \/ ChildEnds(k)
    \/ Terminated

(* Goroutines that can run do, and the timer fires; whether a process ever *)
(* ends is its own affair.                                                 *)
Spec == Init /\ [][Next]_vars

Fairness ==
    /\ WF_vars(Caller) /\ WF_vars(Timeout)
    /\ \A k \in Attempt : WF_vars(Helper(k))

FairSpec == Spec /\ Fairness

-----------------------------------------------------------------------------
(* Properties.                                                             *)

(* Type correctness. *)
TypeOK ==
    /\ config \in Configs
    /\ at \in {"lookup", "input", "credential", "call", "direct", "waiting", "output",
               "success", "error"}
    /\ attempt \in Attempt
    /\ credential \in [source : {"none", "request", "secrets", "workflow"},
                       name : Connection \cup {NoConnection}]
    /\ child \in [Attempt -> {"none", "running", "ended"}]
    /\ answer \in [Attempt -> {"none"} \cup Answers]
    /\ helper \in [Attempt -> {"none", "running", "ended"}]
    /\ ch \in [Attempt -> {"none"} \cup Answers]
    /\ result \in {"none"} \cup Answers
    /\ timedOut \subseteq Attempt

(* The answer an attempt is judged by is the one of its own process, never *)
(* the late answer of an attempt that timed out (77).                      *)
OwnAnswer == result # "none" => child[attempt] = "ended" /\ result = answer[attempt]

(* Two processes of one step run at a time only because an earlier one has *)
(* timed out and was left behind (86-87).                                  *)
OverlapOnlyAfterTimeout ==
    \A j, k \in Attempt : j < k /\ child[j] = "running" /\ child[k] # "none" => j \in timedOut

(* "the caller's grant is authoritative and fail-closed" (engine.go 38-42):*)
(* with injected credentials a process is started only with the payload    *)
(* the request grants to the step's connection, or with none when the step *)
(* names no connection; a connection of the files is found, of the type    *)
(* the action wants; and neither payload is one that the schema refuses.   *)
(* The one payload nobody has checked is that of the workflow's own        *)
(* connections, and only where the step names none and nothing is injected.*)
FailClosed ==
    at \in {"call", "direct", "waiting", "output", "success"} /\ config.kind = "binary" =>
        /\ credential.name = config.connection
        /\ credential.source = "none" =>
             /\ config.connection = NoConnection /\ config.credentialType = ""
             /\ config.inject \/ ~config.legacy
        /\ credential.source = "request" =>
             config.inject /\ config.connection \in config.injected \ config.refuse
        /\ credential.source = "secrets" =>
             /\ ~config.inject /\ config.connection \in config.secrets \ config.refuse
             /\ ConnectionType \in IF config.credentialType = "" THEN {"token", "other"}
                                   ELSE {config.credentialType}
        /\ credential.source = "workflow" =>
             ~config.inject /\ config.connection = NoConnection /\ config.legacy

(* A helper goroutine ends once its process has ended, whether or not its  *)
(* caller still waits: the send never blocks (77).                         *)
HelpersEnd == \A k \in Attempt : child[k] = "ended" ~> helper[k] # "running"

(* An attempt under a timeout comes to an end although its process may     *)
(* never do so (83-88).                                                    *)
AttemptEnds == at = "waiting" ~> at # "waiting"
=============================================================================
