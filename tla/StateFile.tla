----------------------------- MODULE StateFile -----------------------------
(***************************************************************************)
(* state.json of one run and the step records beside it                    *)
(* (src/internal/state/filestore.go), as the goroutines of the scheduler   *)
(* use them.  Every change of state.json is a load, a truncation and a     *)
(* write.  updateState (scheduler.go 351-370) makes it under mu; the       *)
(* retry count of handleFailure (301-305) and MarkBranch (engine.go        *)
(* 206-213) make it under no lock at all, and a load may hit the file      *)
(* between another goroutine's truncation and its write.                   *)
(*                                                                         *)
(* Releasing steps is Scheduler's subject: here every step is either READY *)
(* from the start or PENDING until the default case skips it.              *)
(***************************************************************************)
EXTENDS Integers, FiniteSets

CONSTANTS
    Step,         \* the steps of the workflow
    Waiting,      \* those among them whose dependencies are never satisfied
    Branching,    \* those whose success returns a branch label
    Skippable,    \* those whose skip expression may come out true
    MaxRetries,   \* the MaxRetries of each step
    MaxParallel,  \* Engine.MaxParallel
    RetryBound,   \* BOUND of the model on the retries of one step
    Run,          \* the main loop's own goroutine
    Nobody        \* the owner of mu when it is free

ASSUME StepAssumption == IsFiniteSet(Step) /\ Waiting \subseteq Step
ASSUME RetriesAssumption == MaxRetries \in [Step -> Nat] /\ RetryBound \in Nat
ASSUME ParallelAssumption == MaxParallel \in Nat \ {0}
ASSUME ProcessAssumption == Run \notin Step /\ Nobody \notin Step \cup {Run}

VARIABLES
    text,       \* state.json on disk: "json", "empty" or "mixed"
    content,    \* what the json says
    record,     \* the status in the record file of each step
    status,     \* the scheduler's status map
    mu,         \* owner of mu
    at,         \* control point of each goroutine
    io,         \* where it is in its change of state.json
    loaded,     \* the State it holds meanwhile
    stepName,   \* the step Run is launching
    retried     \* retries decided so far

vars == <<text, content, record, status, mu, at, io, loaded, stepName, retried>>

Process == Step \cup {Run}
WithStatus(values) == {s \in Step : status[s] \in values}
Final == {"SUCCEEDED", "FAILED", "SKIPPED"}
Working == {s \in Step : at[s] # "none"}

(* State, as far as somebody reads it back: the ready list is never read   *)
(* again and is left out.                                                  *)
NoState == [completed |-> {}, failed |-> {}, branch |-> {}, retry |-> [s \in Step |-> 0]]

Init ==
    /\ text = "json" /\ content = NoState
    /\ record = [s \in Step |-> "none"]
    /\ status = [s \in Step |-> IF s \in Waiting THEN "PENDING" ELSE "READY"]
    /\ mu = Nobody
    /\ at = [p \in Process |-> IF p = Run THEN "loop" ELSE "none"]
    /\ io = [p \in Process |-> "none"]
    /\ loaded = [p \in Process |-> NoState]
    /\ stepName = Run
    /\ retried = [s \in Step |-> 0]

-----------------------------------------------------------------------------
(* The change of state.json.  writeJSON is os.WriteFile: it truncates, and *)
(* then writes from offset 0.  When the file is not empty any more, since  *)
(* another goroutine truncated and wrote it meanwhile, the end of a longer *)
(* text stays behind the new one and the file is no JSON.                  *)

(* The lists that updateState computes from the status map. *)
Lists(state) ==
    [state EXCEPT !.completed = WithStatus({"SUCCEEDED", "SKIPPED"}),
                  !.failed = WithStatus({"FAILED"})]

(* p, in updateState or MarkBranch, loads; an error of the load ends it. *)
LoadToUpdateUnchecked(p) ==
    /\ io[p] = "load" /\ at[p] # "failing"
    /\ loaded' = [loaded EXCEPT ![p] =
           IF at[p] = "branch" THEN [content EXCEPT !.branch = @ \cup {p}] ELSE Lists(content)]
    /\ io' = [io EXCEPT ![p] = "truncate"]
    /\ UNCHANGED <<text, content, record, status, mu, at, stepName, retried>>

LoadToUpdate(p) ==
    /\ io[p] = "load" /\ at[p] # "failing"
    /\ IF text = "json"
       THEN /\ loaded' = [loaded EXCEPT ![p] =
                   IF at[p] = "branch"
                   THEN [content EXCEPT !.branch = @ \cup {p}]
                   ELSE Lists(content)]
            /\ io' = [io EXCEPT ![p] = "truncate"]
       ELSE /\ io' = [io EXCEPT ![p] = "done"]
            /\ UNCHANGED loaded
    /\ UNCHANGED <<text, content, record, status, mu, at, stepName, retried>>

Truncate(p) ==
    /\ io[p] = "truncate"
    /\ text' = "empty" /\ content' = NoState
    /\ io' = [io EXCEPT ![p] = "write"]
    /\ UNCHANGED <<record, status, mu, at, loaded, stepName, retried>>

WriteNothing(p) ==
    /\ io[p] = "write"
    /\ io' = [io EXCEPT ![p] = "done"]
    /\ UNCHANGED <<text, content, record, status, mu, at, loaded, stepName, retried>>

Write(p) ==
    /\ io[p] = "write"
    /\ \/ text' = "json" /\ content' = loaded[p]
       \/ /\ text = "mixed" \/ (text = "json" /\ content # loaded[p])
          /\ text' = "mixed" /\ content' = NoState
    /\ io' = [io EXCEPT ![p] = "done"]
    /\ UNCHANGED <<record, status, mu, at, loaded, stepName, retried>>

(* p's change is over: it goes on at label, with state nil again. *)
DoneTo(p, label) ==
    /\ io[p] = "done"
    /\ io' = [io EXCEPT ![p] = "none"]
    /\ loaded' = [loaded EXCEPT ![p] = NoState]
    /\ at' = [at EXCEPT ![p] = label]

(* p takes mu, changes the status map and calls updateState. *)
LockAndUpdate(p, newStatus, label) ==
    /\ mu = Nobody /\ mu' = p
    /\ status' = newStatus
    /\ at' = [at EXCEPT ![p] = label]
    /\ io' = [io EXCEPT ![p] = "load"]

-----------------------------------------------------------------------------
(* Run: a READY step is marked RUNNING (91-98), and launched when there is *)
(* a slot (100-102); its goroutine saves a RUNNING record (127-130).       *)
Mark(s) ==
    /\ at[Run] = "loop" /\ status[s] = "READY" /\ at[s] = "none"
    /\ LockAndUpdate(Run, [status EXCEPT ![s] = "RUNNING"], "marking")
    /\ stepName' = s
    /\ UNCHANGED <<text, content, record, loaded, retried>>

Unlock ==
    /\ at[Run] \in {"marking", "skipping"}
    /\ DoneTo(Run, IF at[Run] = "marking" THEN "acquire" ELSE "loop")
    /\ mu' = Nobody
    /\ UNCHANGED <<text, content, record, status, stepName, retried>>

Launch ==
    /\ at[Run] = "acquire" /\ Cardinality(Working) < MaxParallel
    /\ at' = [at EXCEPT ![Run] = "loop", ![stepName] = "skip"]
    /\ stepName' = Run
    /\ UNCHANGED <<text, content, record, status, mu, io, loaded, retried>>

(* The default case (190-197). *)
SkipPendingUnsaved ==
    /\ at[Run] = "loop" /\ mu = Nobody /\ mu' = Run
    /\ WithStatus({"READY", "RUNNING"}) = {} /\ WithStatus({"PENDING"}) # {}
    /\ status' = [s \in Step |-> IF status[s] = "PENDING" THEN "SKIPPED" ELSE status[s]]
    /\ at' = [at EXCEPT ![Run] = "skipping"]
    /\ io' = [io EXCEPT ![Run] = "done"]
    /\ UNCHANGED <<text, content, record, loaded, stepName, retried>>

SkipPending ==
    /\ at[Run] = "loop"
    /\ WithStatus({"READY", "RUNNING"}) = {} /\ WithStatus({"PENDING"}) # {}
    /\ LockAndUpdate(Run, [s \in Step |-> IF status[s] = "PENDING" THEN "SKIPPED" ELSE status[s]],
                     "skipping")
    /\ UNCHANGED <<text, content, record, loaded, stepName, retried>>

(* The loop ends and wg.Wait returns (88, 205). *)
Return ==
    /\ at[Run] = "loop" /\ mu = Nobody
    /\ WithStatus(Final) = Step /\ Working = {}
    /\ at' = [at EXCEPT ![Run] = "returned"]
    /\ UNCHANGED <<text, content, record, status, mu, io, loaded, stepName, retried>>

-----------------------------------------------------------------------------
(* The goroutine of s. *)
Skip(s) ==
    /\ at[s] = "skip" /\ s \in Skippable
    /\ LockAndUpdate(s, [status EXCEPT ![s] = "SKIPPED"], "ending")
    /\ UNCHANGED <<text, content, record, loaded, stepName, retried>>

Begin(s) ==
    /\ at[s] = "skip"
    /\ record' = [record EXCEPT ![s] = "RUNNING"]
    /\ at' = [at EXCEPT ![s] = "exec"]
    /\ UNCHANGED <<text, content, status, mu, io, loaded, stepName, retried>>

(* The record of the success is saved, and MarkBranch called when the      *)
(* success has a branch (146-157).                                         *)
Succeed(s) ==
    /\ at[s] = "exec"
    /\ record' = [record EXCEPT ![s] = "SUCCEEDED"]
    /\ IF s \in Branching
       THEN /\ at' = [at EXCEPT ![s] = "branch"]
            /\ io' = [io EXCEPT ![s] = "load"]
       ELSE /\ at' = [at EXCEPT ![s] = "finish"]
            /\ UNCHANGED io
    /\ UNCHANGED <<text, content, status, mu, loaded, stepName, retried>>

BranchMarked(s) ==
    /\ at[s] = "branch"
    /\ DoneTo(s, "finish")
    /\ UNCHANGED <<text, content, record, status, mu, stepName, retried>>

Finish(s) ==
    /\ at[s] = "finish"
    /\ LockAndUpdate(s, [status EXCEPT ![s] = "SUCCEEDED"], "ending")
    /\ UNCHANGED <<text, content, record, loaded, stepName, retried>>

(* handleFailure (301-312).  When the load has failed RetryStates is nil:  *)
(* it counts as 0, and its increment ends the process.                     *)
Fail(s) ==
    /\ at[s] = "exec" /\ retried[s] < RetryBound
    /\ at' = [at EXCEPT ![s] = "failing"]
    /\ io' = [io EXCEPT ![s] = "load"]
    /\ UNCHANGED <<text, content, record, status, mu, loaded, stepName, retried>>

RetryCount(s) == IF text = "json" THEN content.retry[s] ELSE 0

CountRetryOfAll(s) ==
    /\ at[s] = "failing" /\ io[s] = "load"
    /\ RetryCount(s) < MaxRetries[s] /\ text = "json"
    /\ retried' = [retried EXCEPT ![s] = @ + 1]
    /\ loaded' = [loaded EXCEPT ![s] =
           [content EXCEPT !.retry = [t \in Step |-> content.retry[t] + 1]]]
    /\ io' = [io EXCEPT ![s] = "truncate"]
    /\ UNCHANGED <<text, content, record, status, mu, at, stepName>>

CountRetry(s) ==
    /\ at[s] = "failing" /\ io[s] = "load"
    /\ RetryCount(s) < MaxRetries[s] /\ text = "json"
    /\ retried' = [retried EXCEPT ![s] = @ + 1]
    /\ loaded' = [loaded EXCEPT ![s] = [content EXCEPT !.retry[s] = @ + 1]]
    /\ io' = [io EXCEPT ![s] = "truncate"]
    /\ UNCHANGED <<text, content, record, status, mu, at, stepName>>

Panic(s) ==
    /\ at[s] = "failing" /\ io[s] = "load"
    /\ RetryCount(s) < MaxRetries[s] /\ text # "json"
    /\ at' = [at EXCEPT ![Run] = "crashed"]
    /\ UNCHANGED <<text, content, record, status, mu, io, loaded, stepName, retried>>

RetryCounted(s) ==
    /\ at[s] = "failing"
    /\ DoneTo(s, "backoff")
    /\ UNCHANGED <<text, content, record, status, mu, stepName, retried>>

Backoff(s) ==
    /\ at[s] = "backoff"
    /\ LockAndUpdate(s, [status EXCEPT ![s] = "READY"], "ending")
    /\ UNCHANGED <<text, content, record, loaded, stepName, retried>>

(* markFailed, and then the failure is final (315-320). *)
GiveUp(s) ==
    /\ at[s] = "failing" /\ io[s] = "load"
    /\ RetryCount(s) >= MaxRetries[s]
    /\ record' = [record EXCEPT ![s] = "FAILED"]
    /\ at' = [at EXCEPT ![s] = "failed"]
    /\ io' = [io EXCEPT ![s] = "none"]
    /\ UNCHANGED <<text, content, status, mu, loaded, stepName, retried>>

RecordFailure(s) ==
    /\ at[s] = "failed"
    /\ LockAndUpdate(s, [status EXCEPT ![s] = "FAILED"], "ending")
    /\ UNCHANGED <<text, content, record, loaded, stepName, retried>>

(* The last updateState of s returns, mu is released and s leaves. *)
End(s) ==
    /\ at[s] = "ending"
    /\ DoneTo(s, "none")
    /\ mu' = Nobody
    /\ UNCHANGED <<text, content, record, status, stepName, retried>>

-----------------------------------------------------------------------------
(* The two readers of what a run leaves behind, when Run has returned.     *)

(* runCommand (cli/run.go 64-90): the exit code of "torkflow run". *)
ExitCodeUnchecked == IF content.failed # {} THEN 1 ELSE 0

ExitCode == IF text # "json" \/ content.failed # {} THEN 1 ELSE 0

(* backend.Run (backend.go 132-154, mapStatus 353-364): an unreadable      *)
(* state.json is ignored, and every record that is neither SUCCEEDED nor   *)
(* SKIPPED makes the response "failed".                                    *)
ResponseStatus ==
    IF \/ text = "json" /\ content.failed # {}
       \/ \E s \in Step : record[s] \notin {"none", "SUCCEEDED", "SKIPPED"}
    THEN "failed"
    ELSE "success"

Terminated == at[Run] \in {"returned", "crashed"} /\ UNCHANGED vars

Next ==
    \/ /\ at[Run] # "crashed"
       /\ \/ \E p \in Process : LoadToUpdate(p) \/ Truncate(p) \/ Write(p)
          \/ Unlock \/ Launch \/ SkipPending \/ Return
          \/ \E s \in Step :
                \/ Mark(s) \/ Skip(s) \/ Begin(s) \/ Succeed(s) \/ BranchMarked(s)
                \/ Finish(s) \/ Fail(s) \/ CountRetry(s) \/ Panic(s) \/ RetryCounted(s)
                \/ Backoff(s) \/ GiveUp(s) \/ RecordFailure(s) \/ End(s)
    \/ Terminated

Spec == Init /\ [][Next]_vars

-----------------------------------------------------------------------------
(* Properties.                                                             *)

State == [completed : SUBSET Step, failed : SUBSET Step, branch : SUBSET Step,
          retry : [Step -> Nat]]

(* Type correctness: what is loaded and written is a State, the file is    *)
(* readable, being rewritten or spoilt, and mu has at most one owner.      *)
TypeOK ==
    /\ text \in {"json", "empty", "mixed"} /\ content \in State
    /\ record \in [Step -> {"none", "RUNNING", "SUCCEEDED", "FAILED"}]
    /\ status \in [Step -> Final \cup {"PENDING", "READY", "RUNNING"}]
    /\ mu \in Process \cup {Nobody}
    /\ at \in [Process -> {"none", "skip", "exec", "branch", "finish", "failing", "backoff",
                           "failed", "ending", "loop", "marking", "skipping", "acquire",
                           "returned", "crashed"}]
    /\ io \in [Process -> {"none", "load", "truncate", "write", "done"}]
    /\ loaded \in [Process -> State]
    /\ stepName \in Process
    /\ retried \in [Step -> Nat]

(* However the unlocked changes interleave with updateState, a step is     *)
(* given up (315) only after all the retries its MaxRetries grants: counts *)
(* can be lost, but no step is ever charged for a retry it did not have.   *)
RetriesGranted == \A s \in Step : at[s] = "failed" => retried[s] >= MaxRetries[s]

(* "the sealed state" (backend.go 138): stale copies of the lists may be   *)
(* saved over newer ones while the run lasts, but whoever saves one calls  *)
(* updateState later, so when Run has returned the file lists exactly the  *)
(* steps that failed and those that ended otherwise, or is unreadable.     *)
SealedState ==
    at[Run] = "returned" /\ text = "json" =>
        /\ content.failed = WithStatus({"FAILED"})
        /\ content.completed = WithStatus({"SUCCEEDED", "SKIPPED"})

(* "a failed step can never read as success" (backend.go 140): not in the  *)
(* exit code of the command line, nor in the response of the backend.      *)
FailureReported ==
    at[Run] = "returned" /\ WithStatus({"FAILED"}) # {} =>
        ExitCode = 1 /\ ResponseStatus = "failed"

(* The process panics for want of a retry map (304-305) only when another  *)
(* goroutine has truncated the file and not yet written it, or when two    *)
(* such writes have met before: an undisturbed run never does.             *)
PanicOnlyWhenDisturbed ==
    at[Run] = "crashed" => text = "mixed" \/ \E p \in Process : io[p] = "write"

(* Once two saves have spoilt the file and no copy loaded before is still  *)
(* to be saved, nothing ever makes it readable again: updateState and      *)
(* MarkBranch give up on the error of the load.                            *)
Spoilt == text = "mixed" /\ \A p \in Process : io[p] \notin {"truncate", "write"}

SpoiltForEver == [][Spoilt => Spoilt']_vars

(* "maxRetries: 2" (examples/http-workflow.yaml 52-54): a step is retried  *)
(* at most that many times.                                                *)
RetriesBounded == \A s \in Step : retried[s] <= MaxRetries[s]
=============================================================================
