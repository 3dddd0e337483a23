-------------------------- MODULE StateFileProofs --------------------------
(***************************************************************************)
(* Proofs about StateFile, for every workflow, every MaxRetries and every  *)
(* degree of parallelism: however the unlocked changes of state.json       *)
(* interleave, no step is given up before it had its retries, the file is  *)
(* sealed with the right lists, a failure is never read as a success, and  *)
(* a panic over the file needs somebody else who rewrites it.              *)
(***************************************************************************)
EXTENDS StateFile, TLAPS

AtLabel == {"none", "skip", "exec", "branch", "finish", "failing", "backoff", "failed",
            "ending", "loop", "marking", "skipping", "acquire", "returned", "crashed"}

(* No count of retries, neither the one in the file nor one in a copy that *)
(* somebody has loaded, is ahead of the retries the step really had.  A    *)
(* copy may be old, and its saving may set the file back: that lowers the  *)
(* counts and keeps this true.                                             *)
CountNeverAhead ==
    \A s \in Step : /\ content.retry[s] <= retried[s]
                    /\ \A p \in Process : loaded[p].retry[s] <= retried[s]

(* The control of Run's own goroutine: it makes none of the changes that   *)
(* belong to a step.                                                       *)
RunControl ==
    /\ at[Run] \in {"loop", "marking", "skipping", "acquire", "returned", "crashed"}
    /\ at[Run] \in {"marking", "acquire"} => stepName \in Step

Inv == TypeOK /\ RunControl /\ CountNeverAhead /\ RetriesGranted

LEMMA NoStateType == NoState \in State /\ \A s \in Step : NoState.retry[s] = 0
  BY DEF NoState, State

LEMMA ListsType ==
    ASSUME NEW state \in State
    PROVE  Lists(state) \in State /\ Lists(state).retry = state.retry
  BY DEF Lists, State, WithStatus

LEMMA InitInv == Init => Inv
<1> SUFFICES ASSUME Init PROVE Inv
  OBVIOUS
<1>1. TypeOK
  BY NoStateType DEF Init, TypeOK, Process, Final
<1>2. CountNeverAhead
  BY NoStateType DEF Init, CountNeverAhead
<1>3. RetriesGranted
  BY ProcessAssumption DEF Init, RetriesGranted, Process
<1>4. RunControl
  BY DEF Init, RunControl, Process
<1> QED
  BY <1>1, <1>2, <1>3, <1>4 DEF Inv

(* What updateState or MarkBranch has loaded and is going to save: the     *)
(* counts of retries are those of the file.                                *)
LEMMA CopyType ==
    ASSUME Inv, NEW p \in Process
    PROVE  LET copy == IF at[p] = "branch"
                       THEN [content EXCEPT !.branch = @ \cup {p}]
                       ELSE Lists(content)
           IN  copy \in State /\ copy.retry = content.retry
<1>1. CASE at[p] = "branch"
  <2>1. p \in Step
    BY <1>1 DEF Inv, RunControl, Process
  <2> QED
    BY <1>1, <2>1 DEF Inv, TypeOK, State
<1>2. CASE at[p] # "branch"
  BY <1>2, ListsType DEF Inv, TypeOK
<1> QED
  BY <1>1, <1>2

LEMMA LoadToUpdateStep ==
    ASSUME Inv, NEW p \in Process, LoadToUpdate(p)
    PROVE  Inv'
<1> DEFINE copy == IF at[p] = "branch"
                   THEN [content EXCEPT !.branch = @ \cup {p}]
                   ELSE Lists(content)
<1>1. copy \in State /\ copy.retry = content.retry
  BY CopyType
<1>2. /\ loaded' = [loaded EXCEPT ![p] = copy] \/ loaded' = loaded
      /\ io' \in {[io EXCEPT ![p] = "truncate"], [io EXCEPT ![p] = "done"]}
      /\ UNCHANGED <<text, content, record, status, mu, at, stepName, retried>>
  BY DEF LoadToUpdate
<1> HIDE DEF copy
<1>3. TypeOK'
  BY <1>1, <1>2 DEF Inv, TypeOK
<1>4. CountNeverAhead'
  BY <1>1, <1>2 DEF Inv, TypeOK, CountNeverAhead
<1> QED
  BY <1>2, <1>3, <1>4 DEF Inv, RunControl, RetriesGranted

LEMMA TruncateStep ==
    ASSUME Inv, NEW p \in Process, Truncate(p)
    PROVE  Inv'
<1>1. TypeOK'
  BY NoStateType DEF Inv, TypeOK, Truncate
<1>2. CountNeverAhead'
  BY NoStateType DEF Inv, TypeOK, CountNeverAhead, Truncate
<1> QED
  BY <1>1, <1>2 DEF Inv, RunControl, RetriesGranted, Truncate

LEMMA WriteStep ==
    ASSUME Inv, NEW p \in Process, Write(p)
    PROVE  Inv'
<1>1. TypeOK'
  BY NoStateType DEF Inv, TypeOK, Write
<1>2. CountNeverAhead'
  BY NoStateType DEF Inv, TypeOK, CountNeverAhead, Write
<1> QED
  BY <1>1, <1>2 DEF Inv, RunControl, RetriesGranted, Write

(* The changes of the status map.                                          *)
LEMMA LockAndUpdateStep ==
    ASSUME Inv, NEW p \in Process, NEW newStatus, NEW label,
           newStatus \in [Step -> Final \cup {"PENDING", "READY", "RUNNING"}],
           label \in AtLabel \ {"failed"},
           LockAndUpdate(p, newStatus, label),
           stepName' \in Process,
           UNCHANGED <<text, content, record, loaded, retried>>
    PROVE  TypeOK' /\ CountNeverAhead' /\ RetriesGranted'
<1>1. TypeOK'
  BY DEF Inv, TypeOK, LockAndUpdate, AtLabel
<1>2. CountNeverAhead'
  BY DEF Inv, CountNeverAhead
<1>3. RetriesGranted'
  BY DEF Inv, TypeOK, RetriesGranted, LockAndUpdate, Process
<1> QED
  BY <1>1, <1>2, <1>3

LEMMA DoneToStep ==
    ASSUME Inv, NEW p \in Process, NEW label \in AtLabel \ {"failed"},
           DoneTo(p, label), mu' \in Process \cup {Nobody},
           UNCHANGED <<text, content, record, status, stepName, retried>>
    PROVE  TypeOK' /\ CountNeverAhead' /\ RetriesGranted'
<1>1. TypeOK'
  BY NoStateType DEF Inv, TypeOK, DoneTo, AtLabel
<1>2. CountNeverAhead'
  BY NoStateType DEF Inv, TypeOK, CountNeverAhead, DoneTo
<1>3. RetriesGranted'
  BY DEF Inv, TypeOK, RetriesGranted, DoneTo, Process
<1> QED
  BY <1>1, <1>2, <1>3

LEMMA RunStep ==
    ASSUME Inv, Unlock \/ Launch \/ SkipPending \/ Return
    PROVE  Inv'
<1>1. CASE Unlock
  <2> DEFINE label == IF at[Run] = "marking" THEN "acquire" ELSE "loop"
  <2>1. DoneTo(Run, label) /\ mu' = Nobody /\ label \in AtLabel \ {"failed"}
    BY <1>1 DEF Unlock, AtLabel
  <2>2. TypeOK' /\ CountNeverAhead' /\ RetriesGranted'
    <3> HIDE DEF label
    <3> QED
      BY <1>1, <2>1, DoneToStep DEF Unlock, Process
  <2>3. RunControl'
    BY <1>1 DEF Inv, TypeOK, RunControl, Unlock, DoneTo, Process
  <2> QED
    BY <2>2, <2>3 DEF Inv
<1>2. CASE Launch
  <2>1. stepName \in Step /\ stepName # Run
    BY <1>2, ProcessAssumption DEF Inv, RunControl, Launch
  <2>2. TypeOK'
    BY <1>2 DEF Inv, TypeOK, Launch, Process
  <2>3. RunControl'
    BY <1>2, <2>1 DEF Inv, TypeOK, RunControl, Launch, Process
  <2>4. RetriesGranted'
    BY <1>2 DEF Inv, TypeOK, RetriesGranted, Launch, Process
  <2> QED
    BY <1>2, <2>2, <2>3, <2>4 DEF Inv, CountNeverAhead, Launch
<1>3. CASE SkipPending
  <2> DEFINE newStatus == [s \in Step |-> IF status[s] = "PENDING" THEN "SKIPPED" ELSE status[s]]
  <2>1. newStatus \in [Step -> Final \cup {"PENDING", "READY", "RUNNING"}]
    BY DEF Inv, TypeOK, Final
  <2>2. LockAndUpdate(Run, newStatus, "skipping")
        /\ UNCHANGED <<text, content, record, loaded, stepName, retried>>
    BY <1>3 DEF SkipPending
  <2>3. TypeOK' /\ CountNeverAhead' /\ RetriesGranted'
    <3> HIDE DEF newStatus
    <3> QED
      BY <2>1, <2>2, LockAndUpdateStep DEF Process, AtLabel, Inv, TypeOK
  <2>4. RunControl'
    BY <2>2 DEF Inv, TypeOK, RunControl, LockAndUpdate, Process
  <2> QED
    BY <2>3, <2>4 DEF Inv
<1>4. CASE Return
  BY <1>4 DEF Inv, TypeOK, RunControl, CountNeverAhead, RetriesGranted, Return, Process
<1> QED
  BY <1>1, <1>2, <1>3, <1>4

(* A goroutine of a step leaves Run's control alone.                       *)
LEMMA StepLeavesRun ==
    ASSUME Inv, NEW s \in Step, UNCHANGED stepName, NEW label, at' = [at EXCEPT ![s] = label]
    PROVE  RunControl'
  BY ProcessAssumption DEF Inv, TypeOK, RunControl, Process

LEMMA StatusStep ==
    ASSUME Inv, NEW s \in Step,
           Mark(s) \/ Skip(s) \/ Finish(s) \/ Backoff(s) \/ RecordFailure(s)
    PROVE  Inv'
<1>1. ASSUME NEW p \in Process, NEW value \in Final \cup {"READY", "RUNNING"},
             NEW label \in {"marking", "ending"},
             LockAndUpdate(p, [status EXCEPT ![s] = value], label),
             stepName' \in Process,
             UNCHANGED <<text, content, record, loaded, retried>>
      PROVE  TypeOK' /\ CountNeverAhead' /\ RetriesGranted'
  <2>1. [status EXCEPT ![s] = value] \in [Step -> Final \cup {"PENDING", "READY", "RUNNING"}]
    BY DEF Inv, TypeOK
  <2>2. label \in AtLabel \ {"failed"}
    BY DEF AtLabel
  <2> QED
    BY <1>1, <2>1, <2>2, LockAndUpdateStep
<1>2. CASE Mark(s)
  <2>1. TypeOK' /\ CountNeverAhead' /\ RetriesGranted'
    BY <1>1, <1>2 DEF Mark, Process, Final
  <2>2. RunControl'
    BY <1>2 DEF Inv, TypeOK, RunControl, Mark, LockAndUpdate, Process
  <2> QED
    BY <2>1, <2>2 DEF Inv
<1>3. CASE Skip(s) \/ Finish(s) \/ Backoff(s) \/ RecordFailure(s)
  <2>1. stepName' = stepName /\ stepName' \in Process
    BY <1>3 DEF Skip, Finish, Backoff, RecordFailure, Inv, TypeOK
  <2>2. TypeOK' /\ CountNeverAhead' /\ RetriesGranted'
    BY <1>1, <1>3, <2>1 DEF Skip, Finish, Backoff, RecordFailure, Process, Final
  <2>3. at' = [at EXCEPT ![s] = "ending"]
    BY <1>3 DEF Skip, Finish, Backoff, RecordFailure, LockAndUpdate
  <2> QED
    BY <2>1, <2>2, <2>3, StepLeavesRun DEF Inv
<1> QED
  BY <1>2, <1>3

LEMMA SavedStep ==
    ASSUME Inv, NEW s \in Step, BranchMarked(s) \/ RetryCounted(s) \/ End(s)
    PROVE  Inv'
<1>1. PICK label \in {"finish", "backoff", "none"} : DoneTo(s, label)
  BY DEF BranchMarked, RetryCounted, End
<1>2. label \in AtLabel \ {"failed"}
  BY DEF AtLabel
<1>3. TypeOK' /\ CountNeverAhead' /\ RetriesGranted'
  BY <1>1, <1>2, DoneToStep DEF BranchMarked, RetryCounted, End, Process, Inv, TypeOK
<1>4. RunControl'
  BY <1>1, StepLeavesRun DEF BranchMarked, RetryCounted, End, DoneTo
<1> QED
  BY <1>3, <1>4 DEF Inv

(* The other steps of a goroutine, the decision to retry or to give up     *)
(* among them.                                                             *)
LEMMA ExecutionStep ==
    ASSUME Inv, NEW s \in Step, Begin(s) \/ Succeed(s) \/ Fail(s) \/ Panic(s)
    PROVE  Inv'
<1>1. TypeOK'
  BY DEF Inv, TypeOK, Begin, Succeed, Fail, Panic, Process
<1>2. RunControl'
  <2>1. CASE Panic(s)
    BY <2>1 DEF Inv, TypeOK, RunControl, Panic, Process
  <2>2. CASE Begin(s) \/ Succeed(s) \/ Fail(s)
    <3>1. PICK label : at' = [at EXCEPT ![s] = label]
      BY <2>2 DEF Begin, Succeed, Fail
    <3> QED
      BY <2>2, <3>1, StepLeavesRun DEF Begin, Succeed, Fail
  <2> QED
    BY <2>1, <2>2
<1>3. CountNeverAhead'
  BY DEF Inv, CountNeverAhead, Begin, Succeed, Fail, Panic
<1>4. RetriesGranted'
  BY DEF Inv, TypeOK, RetriesGranted, Begin, Succeed, Fail, Panic, Process
<1> QED
  BY <1>1, <1>2, <1>3, <1>4 DEF Inv

LEMMA CountRetryStep ==
    ASSUME Inv, NEW s \in Step, CountRetry(s)
    PROVE  Inv'
<1> DEFINE copy == [content EXCEPT !.retry[s] = @ + 1]
<1>1. content \in State /\ content.retry \in [Step -> Nat]
  BY DEF Inv, TypeOK, State
<1>2. copy \in State /\ copy.retry = [content.retry EXCEPT ![s] = content.retry[s] + 1]
  BY <1>1 DEF State
<1>3. /\ loaded' = [loaded EXCEPT ![s] = copy]
      /\ retried' = [retried EXCEPT ![s] = retried[s] + 1]
      /\ io' = [io EXCEPT ![s] = "truncate"]
      /\ UNCHANGED <<text, content, record, status, mu, at, stepName>>
  BY DEF CountRetry
<1> HIDE DEF copy
<1>4. \A t \in Step : retried'[t] \in Nat /\ retried'[t] >= retried[t]
  BY <1>3 DEF Inv, TypeOK
<1>5. TypeOK'
  BY <1>2, <1>3 DEF Inv, TypeOK, Process
<1>6. \A t \in Step : copy.retry[t] <= retried'[t]
  <2> SUFFICES ASSUME NEW t \in Step PROVE copy.retry[t] <= retried'[t]
    OBVIOUS
  <2>1. content.retry[t] \in Nat /\ retried[t] \in Nat /\ content.retry[t] <= retried[t]
    BY <1>1 DEF Inv, TypeOK, CountNeverAhead
  <2>2. CASE t = s
    <3>1. copy.retry[t] = content.retry[t] + 1
      BY <1>1, <1>2, <2>2
    <3>2. retried'[t] = retried[t] + 1
      BY <1>3, <2>2 DEF Inv, TypeOK
    <3> QED
      BY <2>1, <3>1, <3>2
  <2>3. CASE t # s
    <3>1. copy.retry[t] = content.retry[t]
      BY <1>1, <1>2, <2>3
    <3>2. retried'[t] = retried[t]
      BY <1>3, <2>3 DEF Inv, TypeOK
    <3> QED
      BY <2>1, <3>1, <3>2
  <2> QED
    BY <2>2, <2>3
<1>7. CountNeverAhead'
  <2>1. ASSUME NEW t \in Step
        PROVE  content.retry[t] <= retried'[t]
    <3>1. content.retry[t] \in Nat /\ retried[t] \in Nat /\ content.retry[t] <= retried[t]
      BY <1>1 DEF Inv, TypeOK, CountNeverAhead
    <3> QED
      BY <1>4, <3>1
  <2>2. ASSUME NEW t \in Step, NEW p \in Process
        PROVE  loaded'[p].retry[t] <= retried'[t]
    <3>1. loaded[p].retry[t] \in Nat /\ retried[t] \in Nat /\ loaded[p].retry[t] <= retried[t]
      BY DEF Inv, TypeOK, State, CountNeverAhead
    <3>2. loaded'[p] = copy \/ loaded'[p] = loaded[p]
      BY <1>3 DEF Inv, TypeOK
    <3> QED
      BY <1>4, <1>6, <3>1, <3>2
  <2> QED
    BY <1>3, <2>1, <2>2 DEF CountNeverAhead
<1>8. RetriesGranted'
  <2> SUFFICES ASSUME NEW t \in Step, at[t] = "failed"
               PROVE  retried'[t] >= MaxRetries[t]
    BY <1>3 DEF RetriesGranted
  <2>1. retried[t] >= MaxRetries[t] /\ retried[t] \in Nat /\ MaxRetries[t] \in Nat
    BY RetriesAssumption DEF Inv, TypeOK, RetriesGranted
  <2> QED
    BY <1>4, <2>1
<1> QED
  BY <1>3, <1>5, <1>7, <1>8 DEF Inv, RunControl

LEMMA GiveUpStep ==
    ASSUME Inv, NEW s \in Step, GiveUp(s)
    PROVE  Inv'
<1>1. retried[s] >= MaxRetries[s]
  <2>1. RetryCount(s) <= retried[s] /\ RetryCount(s) \in Nat /\ retried[s] \in Nat
    BY DEF Inv, TypeOK, State, CountNeverAhead, RetryCount
  <2>2. RetryCount(s) >= MaxRetries[s] /\ MaxRetries[s] \in Nat
    BY RetriesAssumption DEF GiveUp
  <2> QED
    BY <2>1, <2>2
<1>2. TypeOK'
  BY DEF Inv, TypeOK, GiveUp, Process
<1>3. RetriesGranted'
  BY <1>1 DEF Inv, TypeOK, RetriesGranted, GiveUp, Process
<1>4. RunControl'
  BY StepLeavesRun DEF GiveUp
<1> QED
  BY <1>2, <1>3, <1>4 DEF Inv, CountNeverAhead, GiveUp

LEMMA Inductive == Inv /\ [Next]_vars => Inv'
<1> SUFFICES ASSUME Inv, [Next]_vars PROVE Inv'
  OBVIOUS
<1>1. ASSUME NEW p \in Process, LoadToUpdate(p) \/ Truncate(p) \/ Write(p)
      PROVE  Inv'
  BY <1>1, LoadToUpdateStep, TruncateStep, WriteStep
<1>2. CASE Unlock \/ Launch \/ SkipPending \/ Return
  BY <1>2, RunStep
<1>3. ASSUME NEW s \in Step,
             \/ Mark(s) \/ Skip(s) \/ Begin(s) \/ Succeed(s) \/ BranchMarked(s)
             \/ Finish(s) \/ Fail(s) \/ CountRetry(s) \/ Panic(s) \/ RetryCounted(s)
             \/ Backoff(s) \/ GiveUp(s) \/ RecordFailure(s) \/ End(s)
      PROVE  Inv'
  BY <1>3, StatusStep, SavedStep, ExecutionStep, CountRetryStep, GiveUpStep
<1>4. CASE UNCHANGED vars
  BY <1>4 DEF vars, Inv, TypeOK, RunControl, CountNeverAhead, RetriesGranted
<1> QED
  BY <1>1, <1>2, <1>3, <1>4 DEF Next, Terminated

(* The types of StateFile, the control of its processes included.          *)
THEOREM TypeCorrect == Spec => []TypeOK
<1>1. Inv => TypeOK
  BY DEF Inv
<1> QED
  BY InitInv, Inductive, <1>1, PTL DEF Spec

(* handleFailure gives a step up only after all the retries that its       *)
(* MaxRetries grants, whatever the unlocked savings of state.json undo.    *)
THEOREM RetriesAreGranted == Spec => []RetriesGranted
<1>1. Inv => RetriesGranted
  BY DEF Inv
<1> QED
  BY InitInv, Inductive, <1>1, PTL DEF Spec

-----------------------------------------------------------------------------
(* SealedState.  A goroutine that owes an updateState will load and save   *)
(* the lists again; while nobody owes one, the only savings in progress    *)
(* are those of the owner of mu, whose lists are up to date, and so are    *)
(* those of the file unless they are about to be overwritten.              *)
Locked(p) == at[p] \in {"ending", "marking", "skipping"}

Owes(p) ==
    \/ at[p] \in {"skip", "exec", "branch", "finish", "failing", "backoff", "failed", "acquire"}
    \/ Locked(p) /\ io[p] = "load"

Saving(p) == io[p] \in {"truncate", "write"}

UpToDate(state) ==
    /\ state.completed = WithStatus({"SUCCEEDED", "SKIPPED"})
    /\ state.failed = WithStatus({"FAILED"})

LockControl ==
    /\ \A p \in Process : /\ Locked(p) => mu = p
                          /\ io[p] # "none" => Locked(p) \/ at[p] \in {"branch", "failing"}
    /\ at[Run] \in {"marking", "acquire"} => at[stepName] = "none"

Sealing ==
    (\A p \in Process : ~Owes(p)) =>
        /\ text = "json" => UpToDate(content) \/ \E p \in Process : Saving(p)
        /\ \A p \in Process : Saving(p) => UpToDate(loaded[p])

SealInv == at[Run] # "crashed" => LockControl /\ Sealing

LEMMA InitSealInv == Init => SealInv
<1> SUFFICES ASSUME Init PROVE SealInv
  OBVIOUS
<1>1. UpToDate(NoState)
  BY DEF Init, UpToDate, NoState, WithStatus
<1> QED
  BY <1>1 DEF Init, SealInv, LockControl, Sealing, Locked, Saving, Process

LEMMA LockControlStep ==
    ASSUME Inv, LockControl, Next, at[Run] # "crashed", at'[Run] # "crashed"
    PROVE  LockControl'
<1> USE DEF Inv, TypeOK, LockControl, Locked
<1>1. ASSUME NEW p \in Process, LoadToUpdate(p) \/ Truncate(p) \/ Write(p)
      PROVE  LockControl'
  BY <1>1 DEF LoadToUpdate, Truncate, Write
<1>2. ASSUME NEW p \in Process, NEW newStatus, NEW label \in {"marking", "skipping", "ending"},
             LockAndUpdate(p, newStatus, label),
             \/ p = Run /\ label = "skipping"
             \/ p = Run /\ label = "marking" /\ stepName' \in Step /\ at[stepName'] = "none"
             \/ p \in Step /\ at[p] # "none" /\ label = "ending" /\ UNCHANGED stepName
      PROVE  LockControl'
  BY <1>2, ProcessAssumption DEF LockAndUpdate, RunControl, Process
<1>3. CASE Unlock
  BY <1>3 DEF Unlock, DoneTo, Process
<1>4. CASE Launch
  <2>1. stepName \in Step /\ stepName # Run
    BY <1>4, ProcessAssumption DEF RunControl, Launch
  <2>2. io[stepName] = "none" /\ io[Run] = "none"
    BY <1>4, <2>1 DEF Launch, Process
  <2> QED
    BY <1>4, <2>1, <2>2 DEF Launch, Process
<1>5. CASE SkipPending
  BY <1>2, <1>5 DEF SkipPending, Process
<1>6. CASE Return
  BY <1>6 DEF Return, Process
<1>7. ASSUME NEW s \in Step,
             Mark(s) \/ Skip(s) \/ Finish(s) \/ Backoff(s) \/ RecordFailure(s)
      PROVE  LockControl'
  BY <1>2, <1>7 DEF Mark, Skip, Finish, Backoff, RecordFailure, Process
<1>8. ASSUME NEW s \in Step, BranchMarked(s) \/ RetryCounted(s) \/ End(s)
      PROVE  LockControl'
  BY <1>8 DEF BranchMarked, RetryCounted, End, DoneTo, Process
<1>9. ASSUME NEW s \in Step, Begin(s) \/ Succeed(s) \/ Fail(s) \/ CountRetry(s) \/ GiveUp(s)
      PROVE  LockControl'
  BY <1>9 DEF Begin, Succeed, Fail, CountRetry, GiveUp, Process
<1>10. ASSUME NEW s \in Step, Panic(s)
       PROVE  FALSE
  BY <1>10 DEF Panic, Process
<1>11. CASE UNCHANGED vars
  BY <1>11 DEF vars
<1> QED
  BY <1>1, <1>3, <1>4, <1>5, <1>6, <1>7, <1>8, <1>9, <1>10, <1>11 DEF Next, Terminated

(* The savings themselves.                                                 *)
LEMMA FileSealing ==
    ASSUME Inv, LockControl, Sealing, NEW p \in Process,
           LoadToUpdate(p) \/ Truncate(p) \/ Write(p)
    PROVE  Sealing'
<1> SUFFICES ASSUME \A q \in Process : ~Owes(q)'
             PROVE  /\ text' = "json" => UpToDate(content)' \/ \E q \in Process : Saving(q)'
                    /\ \A q \in Process : Saving(q)' => UpToDate(loaded[q])'
  BY DEF Sealing
<1>1. UNCHANGED <<at, status>>
  BY DEF LoadToUpdate, Truncate, Write
<1>2. Locked(p) /\ mu = p
  <2>1. io[p] # "none"
    BY DEF LoadToUpdate, Truncate, Write
  <2>2. at[p] \notin {"branch", "failing"}
    BY <1>1 DEF Owes
  <2> QED
    BY <2>1, <2>2 DEF LockControl
<1>3. \A q \in Process : q # p => io[q] \notin {"load", "truncate", "write", "done"}
  <2>1. \A q \in Process : q # p => ~Locked(q) /\ at[q] \notin {"branch", "failing"}
    BY <1>1, <1>2 DEF LockControl, Owes, Locked
  <2> QED
    BY <2>1 DEF LockControl
<1>4. \A q \in Process : q # p => ~Saving(q)'
  BY <1>3 DEF LoadToUpdate, Truncate, Write, Saving, Inv, TypeOK
<1>5. CASE LoadToUpdate(p)
  <2>1. CASE text = "json"
    <3>1. loaded'[p] = Lists(content) /\ io'[p] = "truncate"
      BY <1>2, <1>5, <2>1 DEF LoadToUpdate, Locked, Inv, TypeOK
    <3>2. UpToDate(Lists(content))
      BY DEF UpToDate, Lists, Inv, TypeOK, State
    <3>3. UpToDate(loaded[p])'
      BY <1>1, <3>1, <3>2 DEF UpToDate, WithStatus
    <3> QED
      BY <1>4, <3>1, <3>3 DEF Saving
  <2>2. CASE text # "json"
    <3>1. text' # "json" /\ io'[p] = "done"
      BY <1>5, <2>2 DEF LoadToUpdate, Inv, TypeOK
    <3> QED
      BY <1>4, <3>1 DEF Saving
  <2> QED
    BY <2>1, <2>2
<1>6. CASE Truncate(p) \/ Write(p)
  <2>1. \A q \in Process : ~Owes(q)
    BY <1>1, <1>3, <1>6 DEF Owes, Locked, Truncate, Write
  <2>2. UpToDate(loaded[p]) /\ loaded' = loaded
    BY <1>6, <2>1 DEF Sealing, Saving, Truncate, Write
  <2>3. UpToDate(loaded[p])'
    BY <1>1, <2>2 DEF UpToDate, WithStatus
  <2>4. text' = "json" => content' = loaded[p]
    BY <1>6 DEF Truncate, Write
  <2>5. text' = "json" => UpToDate(content)'
    BY <2>2, <2>3, <2>4 DEF UpToDate
  <2> QED
    BY <1>4, <2>3, <2>5
<1> QED
  BY <1>5, <1>6

(* Every other step leaves somebody who owes an updateState, or changes    *)
(* neither the file nor the statuses.                                      *)
LEMMA OtherSealing ==
    ASSUME Inv, LockControl, Sealing, Next, at[Run] # "crashed", at'[Run] # "crashed"
    PROVE  Sealing'
<1> USE DEF Inv, TypeOK
<1>1. ASSUME NEW p \in Process, LoadToUpdate(p) \/ Truncate(p) \/ Write(p)
      PROVE  Sealing'
  BY <1>1, FileSealing
<1>2. ASSUME NEW p \in Process, Owes(p)'
      PROVE  Sealing'
  BY <1>2 DEF Sealing
<1>3. ASSUME NEW p \in Process, NEW newStatus, NEW label \in {"marking", "skipping", "ending"},
             LockAndUpdate(p, newStatus, label)
      PROVE  Sealing'
  <2>1. Owes(p)'
    BY <1>3 DEF LockAndUpdate, Owes, Locked
  <2> QED
    BY <1>2, <2>1
<1>4. ASSUME NEW p \in Process, NEW label \in {"loop", "none"}, Locked(p), DoneTo(p, label),
             UNCHANGED <<text, content, status>>
      PROVE  Sealing'
  <2> SUFFICES ASSUME \A q \in Process : ~Owes(q)'
               PROVE  /\ text = "json" => UpToDate(content)' \/ \E q \in Process : Saving(q)'
                      /\ \A q \in Process : Saving(q)' => UpToDate(loaded[q])'
    BY <1>4 DEF Sealing
  <2>1. ~Owes(p)
    BY <1>4 DEF Owes, Locked, DoneTo
  <2>2. \A q \in Process \ {p} : ~Owes(q) /\ (Saving(q)' <=> Saving(q)) /\ loaded'[q] = loaded[q]
    BY <1>4 DEF Owes, Locked, Saving, DoneTo
  <2>3. ~Saving(p) /\ ~Saving(p)'
    BY <1>4 DEF Saving, DoneTo
  <2>4. /\ text = "json" => UpToDate(content) \/ \E q \in Process : Saving(q)
        /\ \A q \in Process : Saving(q) => UpToDate(loaded[q])
    BY <2>1, <2>2 DEF Sealing
  <2>5. UpToDate(content) => UpToDate(content)'
    BY <1>4 DEF UpToDate, WithStatus
  <2>6. ASSUME NEW q \in Process, Saving(q)'
        PROVE  UpToDate(loaded[q])'
    <3>1. UpToDate(loaded[q]) /\ loaded'[q] = loaded[q]
      BY <2>2, <2>3, <2>4, <2>6
    <3> QED
      BY <1>4, <3>1 DEF UpToDate, WithStatus
  <2> QED
    BY <2>2, <2>3, <2>4, <2>5, <2>6
<1>5. CASE Unlock
  <2>1. CASE at[Run] = "marking"
    <3>1. Owes(Run)'
      BY <1>5, <2>1 DEF Unlock, DoneTo, Owes, Process
    <3> QED
      BY <1>2, <3>1 DEF Process
  <2>2. CASE at[Run] = "skipping"
    BY <1>4, <1>5, <2>2 DEF Unlock, Locked, Process
  <2> QED
    BY <1>5, <2>1, <2>2 DEF Unlock
<1>6. CASE Launch
  <2>1. PICK s \in Step : s = stepName
    BY <1>6 DEF RunControl, Launch
  <2>2. at'[s] = "skip" /\ s \in Process
    BY <1>6, <2>1 DEF Launch, Process
  <2>3. Owes(s)'
    BY <2>2 DEF Owes
  <2> QED
    BY <1>2, <2>2, <2>3
<1>7. CASE SkipPending
  BY <1>3, <1>7 DEF SkipPending, Process
<1>8. CASE Return
  BY <1>8 DEF Return, Sealing, Owes, Locked, Saving, UpToDate, WithStatus, Process
<1>9. ASSUME NEW s \in Step,
             Mark(s) \/ Skip(s) \/ Finish(s) \/ Backoff(s) \/ RecordFailure(s)
      PROVE  Sealing'
  BY <1>3, <1>9 DEF Mark, Skip, Finish, Backoff, RecordFailure, Process
<1>10. ASSUME NEW s \in Step, End(s)
       PROVE  Sealing'
  BY <1>4, <1>10 DEF End, Locked, Process
<1>11. ASSUME NEW s \in Step,
              \/ Begin(s) \/ Succeed(s) \/ BranchMarked(s) \/ Fail(s) \/ CountRetry(s)
              \/ RetryCounted(s) \/ GiveUp(s)
       PROVE  Sealing'
  <2>1. Owes(s)'
    BY <1>11 DEF Begin, Succeed, BranchMarked, Fail, CountRetry, RetryCounted, GiveUp, DoneTo,
                 Owes, Process
  <2> QED
    BY <1>2, <2>1 DEF Process
<1>12. ASSUME NEW s \in Step, Panic(s)
       PROVE  FALSE
  BY <1>12 DEF Panic, Process
<1>13. CASE UNCHANGED vars
  BY <1>13 DEF vars, Sealing, Owes, Locked, Saving, UpToDate, WithStatus
<1> QED
  BY <1>1, <1>5, <1>6, <1>7, <1>8, <1>9, <1>10, <1>11, <1>12, <1>13 DEF Next, Terminated

LEMMA SealInductive == Inv /\ SealInv /\ [Next]_vars => SealInv'
<1> SUFFICES ASSUME Inv, SealInv, [Next]_vars, at'[Run] # "crashed" PROVE SealInv'
  BY DEF SealInv
<1>1. CASE UNCHANGED vars
  BY <1>1 DEF vars, SealInv, LockControl, Sealing, Owes, Locked, Saving, UpToDate, WithStatus
<1>2. CASE Next
  <2>1. at[Run] # "crashed"
    BY <1>2 DEF Next, Terminated, vars
  <2> QED
    BY <1>2, <2>1, LockControlStep, OtherSealing DEF SealInv
<1> QED
  BY <1>1, <1>2

(* Run returns when all goroutines are gone, and none is launched later.   *)
ReturnedClean == at[Run] = "returned" => \A s \in Step : at[s] = "none"

LEMMA InitReturned == Init => ReturnedClean
  BY DEF Init, ReturnedClean, Process

LEMMA ReturnedInductive == Inv /\ ReturnedClean /\ [Next]_vars => ReturnedClean'
<1> SUFFICES ASSUME Inv, ReturnedClean, [Next]_vars, at'[Run] = "returned"
             PROVE  \A s \in Step : at'[s] = "none"
  BY DEF ReturnedClean
<1> USE ProcessAssumption DEF Inv, TypeOK, Process
<1>1. CASE Return
  BY <1>1 DEF Return, Working
<1>2. CASE UNCHANGED at
  BY <1>2 DEF ReturnedClean
<1>3. ASSUME NEW p \in Process, LoadToUpdate(p) \/ Truncate(p) \/ Write(p)
      PROVE  UNCHANGED at
  BY <1>3 DEF LoadToUpdate, Truncate, Write
<1>4. CASE Unlock \/ Launch \/ SkipPending
  <2>1. stepName # Run \/ ~Launch
    BY DEF RunControl, Launch
  <2> QED
    BY <1>4, <2>1 DEF Unlock, Launch, SkipPending, LockAndUpdate, DoneTo
<1>5. ASSUME NEW s \in Step, Mark(s) \/ Panic(s)
      PROVE  FALSE
  BY <1>5 DEF Mark, Panic, LockAndUpdate
<1>6. ASSUME NEW s \in Step,
             \/ Skip(s) \/ Begin(s) \/ Succeed(s) \/ BranchMarked(s) \/ Finish(s) \/ Fail(s)
             \/ CountRetry(s) \/ RetryCounted(s) \/ Backoff(s) \/ GiveUp(s) \/ RecordFailure(s)
             \/ End(s)
      PROVE  FALSE
  <2>1. at[s] # "none" /\ at'[Run] = at[Run]
    BY <1>6 DEF Skip, Begin, Succeed, BranchMarked, Finish, Fail, CountRetry, RetryCounted,
                Backoff, GiveUp, RecordFailure, End, LockAndUpdate, DoneTo
  <2> QED
    BY <2>1 DEF ReturnedClean
<1> QED
  BY <1>1, <1>2, <1>3, <1>4, <1>5, <1>6 DEF Next, Terminated, vars

LEMMA ReturnedQuiet ==
    ASSUME Inv, SealInv, ReturnedClean, at[Run] = "returned"
    PROVE  \A p \in Process : ~Owes(p) /\ ~Saving(p)
<1>1. \A p \in Process : at[p] \in {"none", "returned"}
  BY DEF ReturnedClean, Process
<1> QED
  BY <1>1 DEF SealInv, LockControl, Owes, Locked, Saving

(* When Run has returned, state.json is unreadable or its lists are those  *)
(* of the statuses, although MarkBranch and handleFailure save old copies  *)
(* of them without mu: whoever does owes an updateState.                   *)
THEOREM StateIsSealed == Spec => []SealedState
<1>1. Inv /\ SealInv /\ ReturnedClean => SealedState
  BY ReturnedQuiet DEF SealInv, Sealing, SealedState, UpToDate
<1> QED
  BY InitInv, Inductive, InitSealInv, SealInductive, InitReturned, ReturnedInductive, <1>1, PTL
     DEF Spec

-----------------------------------------------------------------------------
(* FailureReported.  A goroutine works only for a RUNNING step, so nothing *)
(* is recorded about a step after its failure, and the record of the       *)
(* failure is there before its status is.                                  *)
Executing(s) == at[s] \in {"skip", "exec", "branch", "finish", "failing", "backoff", "failed"}

RecordControl(s) ==
    /\ Executing(s) => status[s] = "RUNNING"
    /\ status[s] = "FAILED" \/ at[s] = "failed" => record[s] = "FAILED"

FailControl ==
    /\ \A s \in Step : RecordControl(s)
    /\ at[Run] \in {"marking", "acquire"} => status[stepName] = "RUNNING"

FailInv == at[Run] # "crashed" => FailControl

LEMMA InitFailInv == Init => FailInv
  BY ProcessAssumption DEF Init, FailInv, FailControl, RecordControl, Executing, Process

LEMMA FailControlStep ==
    ASSUME Inv, LockControl, FailControl, Next, at[Run] # "crashed", at'[Run] # "crashed"
    PROVE  FailControl'
<1> USE ProcessAssumption DEF Inv, TypeOK, FailControl, RecordControl, Executing
<1>1. ASSUME NEW p \in Process, LoadToUpdate(p) \/ Truncate(p) \/ Write(p)
      PROVE  FailControl'
  BY <1>1 DEF LoadToUpdate, Truncate, Write
<1>2. CASE Unlock
  BY <1>2 DEF Unlock, DoneTo, Process
<1>3. CASE Launch
  <2>1. stepName \in Step /\ stepName # Run /\ status[stepName] = "RUNNING"
    BY <1>3 DEF RunControl, Launch
  <2> QED
    BY <1>3, <2>1 DEF Launch, Process
<1>4. CASE SkipPending
  BY <1>4 DEF SkipPending, LockAndUpdate, WithStatus, Process
<1>5. CASE Return
  BY <1>5 DEF Return, Process
<1>6. ASSUME NEW s \in Step, Mark(s)
      PROVE  FailControl'
  BY <1>6 DEF Mark, LockAndUpdate, Process
<1>7. ASSUME NEW s \in Step, Skip(s) \/ Finish(s) \/ Backoff(s) \/ RecordFailure(s)
      PROVE  FailControl'
  <2>1. at[Run] \in {"marking", "acquire"} => stepName # s
    BY <1>7 DEF LockControl, Skip, Finish, Backoff, RecordFailure
  <2>2. at' = [at EXCEPT ![s] = "ending"] /\ UNCHANGED <<record, stepName>>
    BY <1>7 DEF Skip, Finish, Backoff, RecordFailure, LockAndUpdate
  <2>3. PICK value \in {"SKIPPED", "SUCCEEDED", "READY", "FAILED"} :
            /\ status' = [status EXCEPT ![s] = value]
            /\ value = "FAILED" => at[s] = "failed"
    BY <1>7 DEF Skip, Finish, Backoff, RecordFailure, LockAndUpdate
  <2>4. ASSUME NEW t \in Step
        PROVE  RecordControl(t)'
    BY <2>2, <2>3 DEF Process
  <2>5. (at[Run] \in {"marking", "acquire"} => status[stepName] = "RUNNING")'
    BY <2>1, <2>2, <2>3 DEF RunControl, Process
  <2> QED
    BY <2>4, <2>5
<1>8. ASSUME NEW s \in Step,
             BranchMarked(s) \/ RetryCounted(s) \/ End(s)
      PROVE  FailControl'
  BY <1>8 DEF BranchMarked, RetryCounted, End, DoneTo, Process
<1>9. ASSUME NEW s \in Step,
             Begin(s) \/ Succeed(s) \/ Fail(s) \/ CountRetry(s) \/ GiveUp(s)
      PROVE  FailControl'
  BY <1>9 DEF Begin, Succeed, Fail, CountRetry, GiveUp, Process
<1>10. ASSUME NEW s \in Step, Panic(s)
       PROVE  FALSE
  BY <1>10 DEF Panic, Process
<1>11. CASE UNCHANGED vars
  BY <1>11 DEF vars
<1> QED
  BY <1>1, <1>2, <1>3, <1>4, <1>5, <1>6, <1>7, <1>8, <1>9, <1>10, <1>11 DEF Next, Terminated

LEMMA FailInductive == Inv /\ SealInv /\ FailInv /\ [Next]_vars => FailInv'
<1> SUFFICES ASSUME Inv, SealInv, FailInv, [Next]_vars, at'[Run] # "crashed" PROVE FailInv'
  BY DEF FailInv
<1>1. CASE UNCHANGED vars
  BY <1>1 DEF vars, FailInv, FailControl, RecordControl, Executing
<1>2. CASE Next
  <2>1. at[Run] # "crashed"
    BY <1>2 DEF Next, Terminated, vars
  <2> QED
    BY <1>2, <2>1, FailControlStep DEF SealInv, FailInv
<1> QED
  BY <1>1, <1>2

(* A step that failed is seen by both readers of a run that has returned:  *)
(* by the exit code through the sealed lists or the unreadable file, by    *)
(* the response through the lists or the record of the failure.            *)
THEOREM FailuresAreReported == Spec => []FailureReported
<1>1. SealedState /\ FailInv => FailureReported
  <2> SUFFICES ASSUME SealedState, FailInv, at[Run] = "returned",
                      NEW s \in Step, status[s] = "FAILED"
               PROVE  ExitCode = 1 /\ ResponseStatus = "failed"
    BY DEF FailureReported, WithStatus
  <2>1. text = "json" => content.failed # {}
    BY DEF SealedState, WithStatus
  <2>2. record[s] = "FAILED"
    BY DEF FailInv, FailControl, RecordControl
  <2> QED
    BY <2>1, <2>2 DEF ExitCode, ResponseStatus
<1> QED
  BY InitInv, Inductive, InitSealInv, SealInductive, InitFailInv, FailInductive, StateIsSealed,
     <1>1, PTL DEF Spec

-----------------------------------------------------------------------------
(* PanicOnlyWhenDisturbed.  An empty file has a goroutine that is going to *)
(* write it: whoever truncates is one, and nobody else changes what he is  *)
(* about to do.                                                            *)
Disturbed ==
    /\ text = "empty" => \E p \in Process : io[p] = "write"
    /\ at[Run] = "crashed" => text # "json"

LEMMA WritersWrite ==
    ASSUME Inv, LockControl, NEW s \in Step,
           \/ Mark(s) \/ Skip(s) \/ Begin(s) \/ Succeed(s) \/ BranchMarked(s)
           \/ Finish(s) \/ Fail(s) \/ CountRetry(s) \/ RetryCounted(s)
           \/ Backoff(s) \/ GiveUp(s) \/ RecordFailure(s) \/ End(s),
           NEW p \in Process, io[p] = "write"
    PROVE  io'[p] = "write"
<1> USE DEF Inv, TypeOK, LockControl, Locked, Process
<1>1. CASE Mark(s)
  BY <1>1 DEF Mark, LockAndUpdate
<1>2. CASE Skip(s) \/ Finish(s) \/ Backoff(s) \/ RecordFailure(s)
  BY <1>2 DEF Skip, Finish, Backoff, RecordFailure, LockAndUpdate
<1>3. CASE Begin(s) \/ Succeed(s)
  BY <1>3 DEF Begin, Succeed
<1>4. CASE BranchMarked(s) \/ RetryCounted(s) \/ End(s)
  BY <1>4 DEF BranchMarked, RetryCounted, End, DoneTo
<1>5. CASE Fail(s) \/ CountRetry(s) \/ GiveUp(s)
  BY <1>5 DEF Fail, CountRetry, GiveUp
<1> QED
  BY <1>1, <1>2, <1>3, <1>4, <1>5

LEMMA DisturbedStep ==
    ASSUME Inv, LockControl, Disturbed, Next, at[Run] # "crashed"
    PROVE  Disturbed'
<1> USE DEF Disturbed
<1>1. ASSUME NEW p \in Process, LoadToUpdate(p)
      PROVE  Disturbed'
  BY <1>1 DEF LoadToUpdate, Inv, TypeOK
<1>2. ASSUME NEW p \in Process, Truncate(p)
      PROVE  Disturbed'
  BY <1>2 DEF Truncate, Inv, TypeOK
<1>3. ASSUME NEW p \in Process, Write(p)
      PROVE  Disturbed'
  BY <1>3 DEF Write
<1>4. CASE Unlock \/ SkipPending
  BY <1>4 DEF Unlock, SkipPending, DoneTo, LockAndUpdate, LockControl, Locked, Inv, TypeOK, Process
<1>5. CASE Launch \/ Return
  <2>1. at'[Run] # "crashed" /\ UNCHANGED <<text, io>>
    BY <1>5, ProcessAssumption DEF Launch, Return, RunControl, Inv, TypeOK, Process
  <2> QED
    BY <2>1
<1>6. ASSUME NEW s \in Step,
             \/ Mark(s) \/ Skip(s) \/ Begin(s) \/ Succeed(s) \/ BranchMarked(s)
             \/ Finish(s) \/ Fail(s) \/ CountRetry(s) \/ RetryCounted(s)
             \/ Backoff(s) \/ GiveUp(s) \/ RecordFailure(s) \/ End(s)
      PROVE  Disturbed'
  <2>1. \A p \in Process : io[p] = "write" => io'[p] = "write"
    BY <1>6, WritersWrite
  <2>2. text' = text
    BY <1>6 DEF Mark, Skip, Begin, Succeed, BranchMarked, Finish, Fail, CountRetry, RetryCounted,
                Backoff, GiveUp, RecordFailure, End
  <2>3. at'[Run] # "crashed"
    BY <1>6, ProcessAssumption
    DEF Mark, Skip, Begin, Succeed, BranchMarked, Finish, Fail, CountRetry, RetryCounted,
        Backoff, GiveUp, RecordFailure, End, LockAndUpdate, DoneTo, Inv, TypeOK, Process
  <2> QED
    BY <2>1, <2>2, <2>3
<1>7. ASSUME NEW s \in Step, Panic(s)
      PROVE  Disturbed'
  BY <1>7 DEF Panic
<1>8. CASE UNCHANGED vars
  BY <1>8 DEF vars
<1> QED
  BY <1>1, <1>2, <1>3, <1>4, <1>5, <1>6, <1>7, <1>8 DEF Next, Terminated

LEMMA DisturbedInductive == Inv /\ SealInv /\ Disturbed /\ [Next]_vars => Disturbed'
<1> SUFFICES ASSUME Inv, SealInv, Disturbed, [Next]_vars PROVE Disturbed'
  OBVIOUS
<1>1. CASE UNCHANGED vars
  BY <1>1 DEF vars, Disturbed
<1>2. CASE Next /\ at[Run] = "crashed"
  BY <1>1, <1>2 DEF Next, Terminated
<1>3. CASE Next /\ at[Run] # "crashed"
  BY <1>3, DisturbedStep DEF SealInv
<1> QED
  BY <1>1, <1>2, <1>3

(* The nil map of handleFailure is written to only when state.json is      *)
(* being rewritten by another goroutine, or has been spoilt by two.        *)
THEOREM PanicsAreDisturbed == Spec => []PanicOnlyWhenDisturbed
<1>1. Init => Disturbed
  BY DEF Init, Disturbed, Process
<1>2. Inv /\ Disturbed => PanicOnlyWhenDisturbed
  BY DEF Inv, TypeOK, Disturbed, PanicOnlyWhenDisturbed
<1> QED
  BY InitInv, Inductive, InitSealInv, SealInductive, <1>1, DisturbedInductive, <1>2, PTL DEF Spec

-----------------------------------------------------------------------------
(* The spoilt file.                                                        *)

(* While the file is spoilt, nobody comes to the point of rewriting it:    *)
(* the load is refused, or the process panics.                             *)
LEMMA NobodyRewrites ==
    ASSUME TypeOK, Spoilt, Next
    PROVE  /\ text' = "mixed"
           /\ \A q \in Process : io'[q] \in {io[q], "none", "load", "done"}
<1> USE DEF TypeOK, Spoilt
<1>1. ASSUME NEW p \in Process, LoadToUpdate(p) \/ Truncate(p) \/ Write(p)
      PROVE  /\ text' = "mixed"
             /\ \A q \in Process : io'[q] \in {io[q], "none", "load", "done"}
  BY <1>1 DEF LoadToUpdate, Truncate, Write
<1>2. CASE Unlock \/ Launch \/ SkipPending \/ Return
  BY <1>2 DEF Unlock, Launch, SkipPending, Return, DoneTo, LockAndUpdate, Process
<1>3. ASSUME NEW s \in Step,
             \/ Mark(s) \/ Skip(s) \/ Begin(s) \/ Succeed(s) \/ BranchMarked(s)
             \/ Finish(s) \/ Fail(s) \/ RetryCounted(s) \/ Backoff(s) \/ RecordFailure(s) \/ End(s)
      PROVE  /\ text' = "mixed"
             /\ \A q \in Process : io'[q] \in {io[q], "none", "load", "done"}
  BY <1>3 DEF Mark, Skip, Begin, Succeed, BranchMarked, Finish, Fail, RetryCounted, Backoff,
              RecordFailure, End, DoneTo, LockAndUpdate, Process
<1>4. ASSUME NEW s \in Step, CountRetry(s) \/ Panic(s) \/ GiveUp(s)
      PROVE  /\ text' = "mixed"
             /\ \A q \in Process : io'[q] \in {io[q], "none", "load", "done"}
  BY <1>4 DEF CountRetry, Panic, GiveUp, Process
<1>5. CASE Terminated
  BY <1>5 DEF Terminated, vars
<1> QED
  BY <1>1, <1>2, <1>3, <1>4, <1>5 DEF Next

(* Once spoilt and with no older copy under way, the file is spoilt for    *)
(* ever: no interleaving and no retry repairs it.                          *)
THEOREM SpoiltStays == Spec => SpoiltForEver
<1>1. TypeOK /\ [Next]_vars => [Spoilt => Spoilt']_vars
  BY NobodyRewrites DEF Spoilt
<1> QED
  BY <1>1, TypeCorrect, PTL DEF Spec, SpoiltForEver
=============================================================================
