-------------------------- MODULE ExecutorProofs ---------------------------
(***************************************************************************)
(* Proofs about Executor, for every set of configurations and any number   *)
(* of attempts: an attempt is judged by the answer of its own process, and *)
(* no process is started with a credential that was not granted.           *)
(***************************************************************************)
EXTENDS Executor, TLAPS

CallPoint == {"call", "direct", "waiting", "output", "success"}

(* What makes OwnAnswer inductive: a channel holds the answer of its own   *)
(* attempt's process, which has ended and answers nothing else any more.   *)
ChannelOwn ==
    \A k \in Attempt : ch[k] # "none" => child[k] = "ended" /\ ch[k] = answer[k]

(* What makes FailClosed inductive: from the call on, a binary action's    *)
(* credential is the one ResolveCredential returned, without an error.     *)
CredentialResolved ==
    at \in CallPoint /\ config.kind = "binary" =>
        ResolveCredential.ok /\ credential = ResolveCredential.value

(* What ResolveCredential grants, whatever the files hold: with injected   *)
(* credentials the request's payload or nothing; of the files a connection *)
(* of the right type; and no payload that the action's schema refuses,     *)
(* but for the workflow's own, which is not put to it.                     *)
LEMMA ResolutionFailsClosed ==
    ASSUME config \in Config, ResolveCredential.ok
    PROVE  LET grant == ResolveCredential.value IN
           /\ grant.name = config.connection
           /\ grant.source = "none" =>
                /\ config.connection = NoConnection /\ config.credentialType = ""
                /\ config.inject \/ ~config.legacy
           /\ grant.source = "request" =>
                config.inject /\ config.connection \in config.injected \ config.refuse
           /\ grant.source = "secrets" =>
                /\ ~config.inject /\ config.connection \in config.secrets \ config.refuse
                /\ ConnectionType \in IF config.credentialType = "" THEN {"token", "other"}
                                      ELSE {config.credentialType}
           /\ grant.source = "workflow" =>
                ~config.inject /\ config.connection = NoConnection /\ config.legacy
           /\ grant \in [source : {"none", "request", "secrets", "workflow"},
                         name : Connection \cup {NoConnection}]
<1>1. config.connection \in Connection \cup {NoConnection}
  BY DEF Config
<1>2. CASE config.inject
  <2>1. ResolveCredential = ResolveInjected
    BY <1>2 DEF ResolveCredential
  <2>2. CASE config.connection = NoConnection
    BY <1>1, <1>2, <2>1, <2>2 DEF ResolveInjected, WithoutConnection, Refused, Empty, None
  <2>3. CASE config.connection # NoConnection
    BY <1>1, <1>2, <2>1, <2>3 DEF ResolveInjected, Checked, Granted, Refused, None
  <2> QED
    BY <2>2, <2>3
<1>3. CASE ~config.inject
  <2>1. ResolveCredential = ResolveFromFiles
    BY <1>3 DEF ResolveCredential
  <2>2. CASE config.connection = NoConnection
    BY <1>1, <1>3, <2>1, <2>2
       DEF ResolveFromFiles, WithoutConnection, Granted, Refused, Empty, None
  <2>3. CASE config.connection # NoConnection
    <3>1. ConnectionType \in {"absent", "token", "other"} /\ config.credentialType \in {"", "token"}
      BY <1>1, <2>3 DEF Config, ConnectionType
    <3> QED
      BY <1>1, <1>3, <2>1, <2>3, <3>1
         DEF ResolveFromFiles, Checked, Granted, Refused, None, SecretFound
  <2> QED
    BY <2>2, <2>3
<1> QED
  BY <1>2, <1>3

Inv == TypeOK /\ ChannelOwn /\ OwnAnswer /\ CredentialResolved

LEMMA InitInv == Init => Inv
<1> SUFFICES ASSUME Init PROVE Inv
  OBVIOUS
<1>1. TypeOK
  BY BoundAssumption DEF Init, TypeOK, None, Attempt
<1> QED
  BY <1>1 DEF Inv, Init, ChannelOwn, OwnAnswer, CredentialResolved, CallPoint

(* A step that leaves the configuration alone leaves every resolution of a *)
(* credential alone.                                                       *)
LEMMA SameResolution ==
    ASSUME UNCHANGED config
    PROVE  ResolveCredential' = ResolveCredential
  BY DEF ResolveCredential, ResolveInjected, ResolveFromFiles, ConnectionType,
         SecretFound, WithoutConnection, Checked, Granted, Empty, Refused, None

LEMMA TypeStep == Inv /\ [Next]_vars => TypeOK'
<1> SUFFICES ASSUME Inv, [Next]_vars PROVE TypeOK'
  OBVIOUS
<1> USE DEF Inv, TypeOK
<1>1. CASE Lookup
  <2>1. config.kind \in {"core", "binary", "unknown"}
    BY ConfigsAssumption DEF Config
  <2>2. at' \in {"success", "error", "input"}
    BY <1>1, <2>1 DEF Lookup, Goto
  <2> QED
    BY <1>1, <2>2 DEF Lookup, childVars
<1>2. CASE ValidateInput
  BY <1>2 DEF ValidateInput, Goto, childVars
<1>3. CASE Credential
  <2>1. config \in Config
    BY ConfigsAssumption
  <2>2. credential' \in [source : {"none", "request", "secrets", "workflow"},
                         name : Connection \cup {NoConnection}]
    <3>1. CASE ResolveCredential.ok
      BY <1>3, <2>1, <3>1, ResolutionFailsClosed DEF Credential
    <3>2. CASE ~ResolveCredential.ok
      <4>1. ResolveCredential.value = None
        BY <2>1, <3>2 DEF ResolveCredential, ResolveInjected, ResolveFromFiles,
                          WithoutConnection, Checked, Granted, Empty, Refused
      <4> QED
        BY <1>3, <4>1 DEF Credential, None
    <3> QED
      BY <3>1, <3>2
  <2> QED
    BY <1>3, <2>2 DEF Credential, Goto, childVars
<1>4. CASE Call
  BY <1>4 DEF Call, Goto
<1>5. CASE DirectAnswer
  BY <1>5 DEF DirectAnswer, Goto, childVars
<1>6. CASE ReceiveAnswer
  BY <1>6 DEF ReceiveAnswer, Goto
<1>7. CASE CheckOutput
  BY <1>7 DEF CheckOutput, Goto, childVars
<1>8. CASE Timeout
  BY <1>8 DEF Timeout, Goto, childVars
<1>9. CASE Retry
  <2>1. attempt' \in Attempt
    BY <1>9, BoundAssumption DEF Retry, Attempt
  <2> QED
    BY <1>9, <2>1 DEF Retry, Goto, None, childVars
<1>10. ASSUME NEW k \in Attempt, Helper(k) \/ ChildEnds(k)
       PROVE  TypeOK'
  <2>1. CASE StartChild(k)
    BY <2>1 DEF StartChild, Answers
  <2>2. CASE HelperSends(k)
    BY <2>2 DEF HelperSends
  <2>3. CASE ChildEnds(k)
    BY <2>3 DEF ChildEnds
  <2> QED
    BY <1>10, <2>1, <2>2, <2>3 DEF Helper
<1>11. CASE UNCHANGED vars
  BY <1>11 DEF vars
<1> QED
  BY <1>1, <1>2, <1>3, <1>4, <1>5, <1>6, <1>7, <1>8, <1>9, <1>10, <1>11
     DEF Next, Caller, Terminated

LEMMA AnswerStep == Inv /\ [Next]_vars => ChannelOwn' /\ OwnAnswer'
<1> SUFFICES ASSUME Inv, [Next]_vars PROVE ChannelOwn' /\ OwnAnswer'
  OBVIOUS
<1> USE DEF Inv, TypeOK, ChannelOwn, OwnAnswer
<1>1. CASE Lookup \/ ValidateInput \/ Credential \/ CheckOutput \/ Timeout
  BY <1>1 DEF Lookup, ValidateInput, Credential, CheckOutput, Timeout, childVars
<1>2. CASE Call
  BY <1>2 DEF Call
<1>3. CASE DirectAnswer
  BY <1>3 DEF DirectAnswer, childVars
<1>4. CASE ReceiveAnswer
  BY <1>4 DEF ReceiveAnswer
<1>5. CASE Retry
  BY <1>5 DEF Retry, childVars
<1>6. ASSUME NEW k \in Attempt, Helper(k) \/ ChildEnds(k)
      PROVE  ChannelOwn' /\ OwnAnswer'
  <2>1. CASE StartChild(k)
    <3>1. ChannelOwn'
      BY <2>1 DEF StartChild
    <3>2. OwnAnswer'
      BY <2>1 DEF StartChild
    <3> QED
      BY <3>1, <3>2
  <2>2. CASE HelperSends(k)
    BY <2>2 DEF HelperSends
  <2>3. CASE ChildEnds(k)
    <3>1. ch[k] = "none" /\ (attempt = k => result = "none")
      BY <2>3 DEF ChildEnds
    <3> QED
      BY <2>3, <3>1 DEF ChildEnds
  <2> QED
    BY <1>6, <2>1, <2>2, <2>3 DEF Helper
<1>7. CASE UNCHANGED vars
  BY <1>7 DEF vars
<1> QED
  BY <1>1, <1>2, <1>3, <1>4, <1>5, <1>6, <1>7 DEF Next, Caller, Terminated

LEMMA CredentialStep == Inv /\ [Next]_vars => CredentialResolved'
<1> SUFFICES ASSUME Inv, [Next]_vars PROVE CredentialResolved'
  OBVIOUS
<1>1. UNCHANGED config
  BY DEF Next, Caller, Helper, Terminated, vars, Lookup, ValidateInput, Credential, Call,
         DirectAnswer, ReceiveAnswer, CheckOutput, Timeout, Retry, StartChild, HelperSends,
         ChildEnds
<1>2. ResolveCredential' = ResolveCredential
  BY <1>1, SameResolution
<1> USE <1>1, <1>2 DEF Inv, CredentialResolved, CallPoint, Goto
<1>3. CASE Lookup
  BY <1>3 DEF Lookup
<1>4. CASE ValidateInput
  BY <1>4 DEF ValidateInput
<1>5. CASE Credential
  BY <1>5 DEF Credential
<1>6. CASE Call \/ DirectAnswer \/ ReceiveAnswer \/ CheckOutput \/ Timeout \/ Retry
  BY <1>6 DEF Call, DirectAnswer, ReceiveAnswer, CheckOutput, Timeout, Retry
<1>7. CASE \E k \in Attempt : Helper(k) \/ ChildEnds(k)
  BY <1>7 DEF Helper, StartChild, HelperSends, ChildEnds
<1>8. CASE UNCHANGED vars
  BY <1>8 DEF vars
<1> QED
  BY <1>3, <1>4, <1>5, <1>6, <1>7, <1>8 DEF Next, Caller, Terminated

LEMMA Inductive == Spec => []Inv
<1>1. Inv /\ [Next]_vars => Inv'
  BY TypeStep, AnswerStep, CredentialStep DEF Inv
<1> QED
  BY InitInv, <1>1, PTL DEF Spec

(* The types of Executor. *)
THEOREM TypeCorrect == Spec => []TypeOK
<1>1. Inv => TypeOK
  BY DEF Inv
<1> QED
  BY Inductive, <1>1, PTL

(* Whatever late answers arrive, an attempt is judged by the answer of its *)
(* own process, after that process has ended (WithTimeout).                *)
THEOREM AnswersAreOwn == Spec => []OwnAnswer
<1>1. Inv => OwnAnswer
  BY DEF Inv
<1> QED
  BY Inductive, <1>1, PTL

(* ResolveCredential is fail-closed: with injected credentials a process   *)
(* is started with the request's own grant or with none; a connection of   *)
(* the files is of the right type; and a payload that the action's schema  *)
(* refuses is used only if it is the workflow's own, which is not checked. *)
THEOREM CredentialsFailClosed == Spec => []FailClosed
<1>1. Inv => FailClosed
  <2> SUFFICES ASSUME Inv, at \in CallPoint, config.kind = "binary"
               PROVE  FailClosed
    BY DEF FailClosed, CallPoint
  <2>1. config \in Config
    BY ConfigsAssumption DEF Inv, TypeOK
  <2>2. ResolveCredential.ok /\ credential = ResolveCredential.value
    BY DEF Inv, CredentialResolved
  <2> QED
    BY <2>1, <2>2, ResolutionFailsClosed DEF FailClosed
<1> QED
  BY Inductive, <1>1, PTL

-----------------------------------------------------------------------------
(* OverlapOnlyAfterTimeout.  An attempt that is over is settled: it timed  *)
(* out, its process has ended, or there is nobody to start one.            *)
Settled(j) == \/ j \in timedOut
              \/ child[j] = "ended"
              \/ child[j] = "none" /\ helper[j] = "none"

Fresh(j) == child[j] = "none" /\ helper[j] = "none"

Over(j) == j < attempt \/ (j = attempt /\ at \in {"output", "success", "error"})

AttemptOrder ==
    \A j \in Attempt :
        /\ j > attempt => Fresh(j)
        /\ j = attempt /\ at \in {"lookup", "input", "credential", "call"} => Fresh(j)
        /\ Over(j) => Settled(j)

LEMMA OrderStep == Inv /\ AttemptOrder /\ [Next]_vars => AttemptOrder'
<1> SUFFICES ASSUME Inv, AttemptOrder, [Next]_vars, NEW j \in Attempt
             PROVE  /\ j > attempt' => Fresh(j)'
                    /\ j = attempt' /\ at' \in {"lookup", "input", "credential", "call"} => Fresh(j)'
                    /\ Over(j)' => Settled(j)'
  BY DEF AttemptOrder
<1> USE DEF Inv, TypeOK, AttemptOrder, Over, Settled, Fresh, Goto
<1>1. attempt \in Nat /\ j \in Nat
  BY BoundAssumption DEF Attempt
<1>2. CASE Lookup \/ ValidateInput \/ Credential
  BY <1>1, <1>2 DEF Lookup, ValidateInput, Credential, childVars
<1>3. CASE Call
  BY <1>1, <1>3 DEF Call
<1>4. CASE DirectAnswer \/ ReceiveAnswer \/ CheckOutput \/ Timeout
  BY <1>1, <1>4 DEF DirectAnswer, ReceiveAnswer, CheckOutput, Timeout, childVars, ChannelOwn
<1>5. CASE Retry
  BY <1>1, <1>5 DEF Retry, childVars
<1>6. ASSUME NEW k \in Attempt, StartChild(k) \/ HelperSends(k) \/ ChildEnds(k)
      PROVE  /\ j > attempt' => Fresh(j)'
             /\ j = attempt' /\ at' \in {"lookup", "input", "credential", "call"} => Fresh(j)'
             /\ Over(j)' => Settled(j)'
  <2>1. CASE j = k
    BY <1>1, <1>6, <2>1 DEF StartChild, HelperSends, ChildEnds
  <2>2. CASE j # k
    BY <1>6, <2>2 DEF StartChild, HelperSends, ChildEnds
  <2> QED
    BY <2>1, <2>2
<1>7. CASE UNCHANGED vars
  BY <1>7 DEF vars
<1> QED
  BY <1>2, <1>3, <1>4, <1>5, <1>6, <1>7 DEF Next, Caller, Helper, Terminated

(* A process that still runs while a later attempt has one of its own      *)
(* belongs to an attempt that timed out (WithTimeout leaves it behind).    *)
THEOREM OverlapsFollowTimeouts == Spec => []OverlapOnlyAfterTimeout
<1>1. Init => AttemptOrder
  BY DEF Init, AttemptOrder, Over, Fresh, Attempt
<1>2. Inv /\ AttemptOrder => OverlapOnlyAfterTimeout
  <2> SUFFICES ASSUME Inv, AttemptOrder, NEW j \in Attempt, NEW k \in Attempt, j < k,
                      child[j] = "running", child[k] # "none"
               PROVE  j \in timedOut
    BY DEF OverlapOnlyAfterTimeout
  <2>1. j \in Nat /\ k \in Nat /\ attempt \in Nat
    BY BoundAssumption DEF Inv, TypeOK, Attempt
  <2> QED
    BY <2>1 DEF AttemptOrder, Over, Settled, Fresh
<1>3. Spec => []Inv
  BY Inductive
<1> QED
  BY <1>1, <1>2, <1>3, OrderStep, PTL DEF Spec
=============================================================================
