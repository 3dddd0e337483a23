------------------------------ MODULE Backend ------------------------------
(***************************************************************************)
(* backend.Run (src/internal/backend/backend.go): one process per request, *)
(* each of which makes a run directory of its own; a request to resume     *)
(* reads what the latest directory holds.  What passes from one run to the *)
(* next is files only: the record of each step and context.json.  Both are *)
(* truncated before they are written, and the process may die in between.  *)
(* A value that JSON has no text for (NaN, a map with keys that are no     *)
(* strings) is not written at all, and nobody looks at that error: the     *)
(* outcome "unrecorded" is a step whose input holds such a value, the      *)
(* outcome "unencodable" a success whose output does.                      *)
(*                                                                         *)
(* In a run, steps are released as WorkflowRun has it; what Scheduler and  *)
(* StateFile show of the race for counters and for state.json is not       *)
(* repeated here.                                                          *)
(***************************************************************************)
EXTENDS WorkflowGraph

CONSTANTS
    Outcomes,   \* what executing each step may come to
    Branches,   \* the branch labels a success of each step may return
    Declared,   \* the steps whose output spec.outputs declares
    RunBound    \* BOUND of the model on the number of requests

Saved == {"skip", "retry", "error", "success"}
Unsaved == {"unrecorded", "unencodable"}

ASSUME OutcomesAssumption == Outcomes \in [Step -> SUBSET (Saved \cup Unsaved)]
ASSUME BranchesAssumption == Branches \in [Step -> SUBSET BranchName]
ASSUME DeclaredAssumption == Declared \subseteq Step
ASSUME BoundAssumption == RunBound \in Nat

VARIABLES
    runs,       \* the run directories, in the order of their execution ids
    phase,      \* control point of the process that serves the request
    resume,     \* Request.Resume
    seeds,      \* Engine.SeedCompleted
    status,     \* the status of each step in this run
    taken,      \* the branch of each success of this run, seeds included
    again,      \* the steps of this run that were retried, each at most once
    unrecorded, \* the successes of this run whose record could not be written
    unencodable,\* those of them whose output cannot be encoded
    memory,     \* Engine.Context: the output of each step, 0 for none
    at,         \* control point of the goroutine of each step
    response,   \* what the request was answered
    executed,   \* history: how often each step was executed with success
    success,    \* history: the last success of each step
    last        \* history: how the run before this one ended

requestVars == <<resume, seeds>>
attempts == <<again, unrecorded, unencodable>>
vars == <<runs, phase, requestVars, status, taken, attempts, memory, at, response,
          executed, success, last>>
stepVars == <<status, taken, attempts, memory, at>>
history == <<executed, success, last>>

Final == {"SUCCEEDED", "FAILED", "SKIPPED"}
Zero == [s \in Step |-> 0]
Unbranched == [s \in Step |-> NoBranch]
Quiet == [s \in Step |-> "none"]
NoAnswer == [status |-> "none", listed |-> Zero, outputs |-> Zero]

(* What Store.Init makes, before it has written context.json. *)
NewDir == [record |-> Quiet, branch |-> Unbranched, readable |-> FALSE, context |-> Zero]
Current == runs[Len(runs)]

Init ==
    /\ runs = <<>>
    /\ phase = "idle"
    /\ resume = FALSE /\ seeds = {}
    /\ status = [s \in Step |-> "PENDING"]
    /\ taken = Unbranched /\ again = {} /\ unrecorded = {} /\ unencodable = {}
    /\ memory = Zero
    /\ at = Quiet
    /\ response = NoAnswer
    /\ executed = Zero
    /\ success = [s \in Step |-> [run |-> 0, branch |-> NoBranch, output |-> 0]]
    /\ last = [status |-> [s \in Step |-> "PENDING"], again |-> {}, unrecorded |-> {},
               unencodable |-> {}, resumed |-> FALSE, returned |-> FALSE]

-----------------------------------------------------------------------------
(* Reading the prior run (250-304). *)
SucceededOrRunning(dir) == {s \in Step : dir.record[s] \in {"RUNNING", "SUCCEEDED"}}

Succeeded(dir) == {s \in Step : dir.record[s] = "SUCCEEDED"}

PriorBranches(dir) ==
    [s \in Step |-> IF s \in Succeeded(dir) THEN dir.branch[s] ELSE NoBranch]

PriorOutputsAll(dir) == IF dir.readable THEN dir.context ELSE Zero

PriorOutputs(dir) ==
    [s \in Step |-> IF dir.readable /\ s \in Succeeded(dir) THEN dir.context[s] ELSE 0]

(* A request to run (59-122), afresh or resuming the latest run. *)
Fresh ==
    /\ phase = "idle" /\ Len(runs) < RunBound
    /\ phase' = "mkdir"
    /\ resume' = FALSE
    /\ seeds' = {} /\ taken' = Unbranched /\ memory' = Zero
    /\ response' = NoAnswer
    /\ UNCHANGED <<runs, status, attempts, at, history>>

Resume ==
    /\ phase = "idle" /\ Len(runs) \in 1..(RunBound - 1)
    /\ phase' = "mkdir"
    /\ resume' = TRUE
    /\ seeds' = Succeeded(Current)
    /\ taken' = PriorBranches(Current)
    /\ memory' = PriorOutputs(Current)
    /\ response' = NoAnswer
    /\ UNCHANGED <<runs, status, attempts, at, history>>

(* Store.Init (filestore.go 18-29): the directory exists before its        *)
(* context.json does.                                                      *)
MakeDir ==
    /\ phase = "mkdir"
    /\ runs' = Append(runs, NewDir)
    /\ phase' = "init"
    /\ UNCHANGED <<requestVars, stepVars, response, history>>

InitContext ==
    /\ phase = "init"
    /\ runs' = [runs EXCEPT ![Len(runs)].readable = TRUE, ![Len(runs)].context = memory]
    /\ phase' = "running"
    /\ status' = [s \in Step |-> IF s \in seeds THEN "SUCCEEDED"
                                 ELSE IF s \in Roots THEN "READY" ELSE "PENDING"]
    /\ UNCHANGED <<requestVars, taken, attempts, memory, at, response, history>>

-----------------------------------------------------------------------------
(* The run: how steps are released and given up is WorkflowRun's. *)
Release(t) ==
    /\ phase = "running" /\ status[t] = "PENDING"
    /\ GateOpen(status, taken, t) \/ FallbackDue(status, t)
    /\ status' = [status EXCEPT ![t] = "READY"]
    /\ UNCHANGED <<runs, phase, requestVars, taken, attempts, memory, at, response, history>>

GiveUpPending ==
    /\ phase = "running"
    /\ \A s \in Step : status[s] \notin {"READY", "RUNNING"}
    /\ \E s \in Step : status[s] = "PENDING"
    /\ status' = [s \in Step |-> IF status[s] = "PENDING" THEN "SKIPPED" ELSE status[s]]
    /\ UNCHANGED <<runs, phase, requestVars, taken, attempts, memory, at, response, history>>

(* SnapshotContext (engine.go 179-191) marshals the whole context, and so  *)
(* does SaveContext.                                                       *)
Encodable == \A s \in unencodable : memory[s] = 0

(* The goroutine of s (scheduler.go 106-165).  An empty record, truncated  *)
(* and not yet written, reads like no record.                              *)
Record(s, value) == runs' = [runs EXCEPT ![Len(runs)].record[s] = value]

Skip(s) ==
    /\ phase = "running" /\ status[s] = "READY" /\ Encodable /\ "skip" \in Outcomes[s]
    /\ status' = [status EXCEPT ![s] = "SKIPPED"]
    /\ UNCHANGED <<runs, phase, requestVars, taken, attempts, memory, at, response, history>>

(* Without a snapshot the goroutine returns and leaves s RUNNING (108-112).*)
SnapshotFails(s) ==
    /\ phase = "running" /\ status[s] = "READY" /\ ~Encodable
    /\ status' = [status EXCEPT ![s] = "RUNNING"]
    /\ Record(s, "FAILED")
    /\ UNCHANGED <<phase, requestVars, taken, attempts, memory, at, response, history>>

Start(s) ==
    /\ phase = "running" /\ status[s] = "READY" /\ Encodable
    /\ status' = [status EXCEPT ![s] = "RUNNING"]
    /\ at' = [at EXCEPT ![s] = "exec"]
    /\ Record(s, "RUNNING")
    /\ UNCHANGED <<phase, requestVars, taken, attempts, memory, response, history>>

(* markFailed (336-349): a record that cannot be written stays RUNNING.    *)
RecordFailure(s) ==
    \/ Record(s, "FAILED")
    \/ "unrecorded" \in Outcomes[s] /\ UNCHANGED runs

(* An expression of s refers to the output of a source that has none: the  *)
(* goroutine returns and leaves s RUNNING (132-137).                       *)
BadInput(s) ==
    /\ phase = "running" /\ at[s] = "exec"
    /\ \E e \in SatisfiedEdges(status, taken, s) : memory[e[1]] = 0
    /\ RecordFailure(s)
    /\ at' = [at EXCEPT ![s] = "none"]
    /\ UNCHANGED <<phase, requestVars, status, taken, attempts, memory, response, history>>

(* handleFailure: a retry leaves the record as it is, RUNNING (300-313). *)
Retry(s) ==
    /\ phase = "running" /\ at[s] = "exec" /\ "retry" \in Outcomes[s] /\ s \notin again
    /\ status' = [status EXCEPT ![s] = "READY"]
    /\ again' = again \cup {s}
    /\ at' = [at EXCEPT ![s] = "none"]
    /\ UNCHANGED <<runs, phase, requestVars, taken, unrecorded, unencodable, memory,
                   response, history>>

Fail(s) ==
    /\ phase = "running" /\ at[s] = "exec" /\ "error" \in Outcomes[s]
    /\ RecordFailure(s)
    /\ status' = [status EXCEPT ![s] = "FAILED"]
    /\ at' = [at EXCEPT ![s] = "none"]
    /\ UNCHANGED <<phase, requestVars, taken, attempts, memory, response, history>>

(* A success: the action has had its effect; then SaveStep truncates the   *)
(* record, writes it, and UpdateContext rewrites context.json (140-154).   *)
Succeed(s) ==
    /\ phase = "running" /\ at[s] = "exec" /\ "success" \in Outcomes[s]
    /\ \E b \in Branches[s] :
          /\ taken' = [taken EXCEPT ![s] = b]
          /\ success' = [success EXCEPT ![s] =
                 [run |-> Len(runs), branch |-> b, output |-> executed[s] + 1]]
    /\ executed' = [executed EXCEPT ![s] = @ + 1]
    /\ Record(s, "none")
    /\ at' = [at EXCEPT ![s] = "record"]
    /\ UNCHANGED <<phase, requestVars, status, attempts, memory, response, last>>

(* A success that SaveStep cannot marshal: the record stays RUNNING, and   *)
(* the goroutine goes on to UpdateContext (151-154).                       *)
SucceedUnsaved(s) ==
    /\ phase = "running" /\ at[s] = "exec"
    /\ \E outcome \in Outcomes[s] \cap Unsaved, b \in Branches[s] :
          /\ taken' = [taken EXCEPT ![s] = b]
          /\ success' = [success EXCEPT ![s] =
                 [run |-> Len(runs), branch |-> b, output |-> executed[s] + 1]]
          /\ unencodable' = unencodable \cup (IF outcome = "unencodable" THEN {s} ELSE {})
    /\ unrecorded' = unrecorded \cup {s}
    /\ executed' = [executed EXCEPT ![s] = @ + 1]
    /\ at' = [at EXCEPT ![s] = "publish"]
    /\ UNCHANGED <<runs, phase, requestVars, status, again, memory, response, last>>

SaveStepResponseWord(s) ==
    /\ phase = "running" /\ at[s] = "record"
    /\ runs' = [runs EXCEPT ![Len(runs)].record[s] = "success",
                            ![Len(runs)].branch[s] = taken[s]]
    /\ at' = [at EXCEPT ![s] = "publish"]
    /\ UNCHANGED <<phase, requestVars, status, taken, attempts, memory, response, history>>

SaveStep(s) ==
    /\ phase = "running" /\ at[s] = "record"
    /\ runs' = [runs EXCEPT ![Len(runs)].record[s] = "SUCCEEDED",
                            ![Len(runs)].branch[s] = taken[s]]
    /\ at' = [at EXCEPT ![s] = "publish"]
    /\ UNCHANGED <<phase, requestVars, status, taken, attempts, memory, response, history>>

(* UpdateContext (engine.go 193-204): ContextMu is held from here ...  A   *)
(* context that cannot be marshalled is not saved, and the file stays as   *)
(* it was.                                                                 *)
UpdateContext(s) ==
    /\ phase = "running" /\ at[s] = "publish" /\ \A t \in Step : at[t] # "context"
    /\ memory' = [memory EXCEPT ![s] = success[s].output]
    /\ IF s \in unencodable \/ ~Encodable
       THEN /\ at' = [at EXCEPT ![s] = "finish"]
            /\ UNCHANGED runs
       ELSE /\ at' = [at EXCEPT ![s] = "context"]
            /\ runs' = [runs EXCEPT ![Len(runs)].readable = FALSE]
    /\ UNCHANGED <<phase, requestVars, status, taken, attempts, response, history>>

(* ... to here. *)
SaveContextStale(s) ==
    /\ phase = "running" /\ at[s] = "context"
    /\ runs' = [runs EXCEPT ![Len(runs)].readable = TRUE]
    /\ at' = [at EXCEPT ![s] = "finish"]
    /\ UNCHANGED <<phase, requestVars, status, taken, attempts, memory, response, history>>

SaveContext(s) ==
    /\ phase = "running" /\ at[s] = "context"
    /\ runs' = [runs EXCEPT ![Len(runs)].readable = TRUE, ![Len(runs)].context = memory]
    /\ at' = [at EXCEPT ![s] = "finish"]
    /\ UNCHANGED <<phase, requestVars, status, taken, attempts, memory, response, history>>

Finish(s) ==
    /\ phase = "running" /\ at[s] = "finish"
    /\ status' = [status EXCEPT ![s] = "SUCCEEDED"]
    /\ at' = [at EXCEPT ![s] = "none"]
    /\ UNCHANGED <<runs, phase, requestVars, taken, attempts, memory, response, history>>

-----------------------------------------------------------------------------
(* The run is over (129-166): the status of the response, the steps it     *)
(* lists and the outputs it declares.                                      *)
Recorded == {s \in Step : Current.record[s] # "none"}

(* collectTimeline and mapStatus (308-364), after the seeds (118-120). *)
ListedRecorded == [s \in Step |-> IF s \in Recorded THEN 1 ELSE 0]

Listed == [s \in Step |-> (IF s \in seeds THEN 1 ELSE 0) + (IF s \in Recorded THEN 1 ELSE 0)]

(* Lines 132-165; a declared output that is not there fails the run, and   *)
(* so does a snapshot that cannot be taken for them (171-177).             *)
ResponseStatus ==
    IF \/ \E s \in Step : status[s] = "FAILED"
       \/ \E s \in Recorded : Current.record[s] # "SUCCEEDED"
       \/ \E s \in Declared : memory[s] = 0
       \/ Declared # {} /\ ~Encodable
    THEN "failed" ELSE "success"

EndOfRun(returned) ==
    /\ phase' = "idle" /\ resume' = FALSE
    /\ last' = IF phase = "mkdir" THEN last
               ELSE [status |-> status, again |-> IF returned THEN again ELSE {},
                     unrecorded |-> IF returned THEN unrecorded ELSE {},
                     unencodable |-> IF returned THEN unencodable ELSE {},
                     resumed |-> seeds # {}, returned |-> returned]
    /\ at' = Quiet
    /\ status' = [s \in Step |-> "PENDING"]
    /\ seeds' = {} /\ taken' = Unbranched /\ memory' = Zero
    /\ again' = {} /\ unrecorded' = {} /\ unencodable' = {}

Respond ==
    /\ phase = "running" /\ \A s \in Step : status[s] \in Final /\ at[s] = "none"
    /\ response' = [status |-> ResponseStatus, listed |-> Listed,
                    outputs |-> [s \in Step |-> IF s \in Declared THEN memory[s] ELSE 0]]
    /\ EndOfRun(TRUE)
    /\ UNCHANGED <<runs, executed, success>>

(* The process dies, or is killed because it never ends. *)
Crash ==
    /\ phase # "idle"
    /\ EndOfRun(FALSE)
    /\ UNCHANGED <<runs, response, executed, success>>

Terminated == phase = "idle" /\ Len(runs) = RunBound /\ UNCHANGED vars

Next ==
    \/ Fresh \/ Resume \/ MakeDir \/ InitContext
    \/ GiveUpPending \/ Respond \/ Crash
    \/ \E s \in Step :
          \/ Release(s) \/ Skip(s) \/ SnapshotFails(s) \/ Start(s)
          \/ BadInput(s) \/ Retry(s) \/ Fail(s)
          \/ Succeed(s) \/ SucceedUnsaved(s) \/ SaveStep(s) \/ UpdateContext(s) \/ SaveContext(s) \/ Finish(s)
    \/ Terminated

Spec == Init /\ [][Next]_vars

-----------------------------------------------------------------------------
(* Properties.                                                             *)

Counts == [Step -> Nat]
Directory == [record : [Step -> {"none", "RUNNING", "SUCCEEDED", "FAILED"}],
              branch : [Step -> BranchName], readable : BOOLEAN, context : Counts]
Statuses == [Step -> Final \cup {"PENDING", "READY", "RUNNING"}]
Ends == [status : Statuses, again : SUBSET Step, unrecorded : SUBSET Step,
         unencodable : SUBSET Step, resumed : BOOLEAN, returned : BOOLEAN]

(* Type correctness of the directories, of the process and of the history. *)
TypeOK ==
    /\ runs \in Seq(Directory)
    /\ phase \in {"idle", "mkdir", "init", "running"}
    /\ resume \in BOOLEAN /\ seeds \subseteq Step
    /\ status \in Statuses /\ taken \in [Step -> BranchName] /\ memory \in Counts
    /\ again \subseteq Step /\ unrecorded \subseteq Step /\ unencodable \subseteq Step
    /\ at \in [Step -> {"none", "exec", "record", "publish", "context", "finish"}]
    /\ response \in [status : {"none", "success", "failed"}, listed : Counts, outputs : Counts]
    /\ executed \in Counts
    /\ success \in [Step -> [run : Nat, branch : BranchName, output : Nat]]
    /\ last \in Ends

(* "only steps that did not succeed" (request.schema.json 41-43) and "so   *)
(* branch-conditional outbound edges re-route identically" (engine.go      *)
(* 49-50): what a resumed run takes over did succeed in the prior run,     *)
(* whenever that one died, with the branch it took there, and its output   *)
(* is the one of that success or missing.                                  *)
SeedsSound ==
    phase # "idle" => \A s \in seeds :
        /\ success[s].run = IF phase = "mkdir" THEN Len(runs) ELSE Len(runs) - 1
        /\ taken[s] = success[s].branch
        /\ memory[s] \in {0, success[s].output}

(* No expression ever sees an output of an older run than the success it   *)
(* stands for: what is in the context (283-303, engine.go 193-204) belongs *)
(* to a seed or to a success of this run, and is the output of the last    *)
(* execution of its step.                                                  *)
ContextFresh ==
    \A s \in Step : memory[s] # 0 =>
        /\ s \in seeds \/ success[s].run = Len(runs)
        /\ memory[s] = success[s].output

(* A response of "success" is true (137-165): no step failed, every step   *)
(* that succeeded, in this run or as a seed, is listed exactly once, and   *)
(* each declared output comes from the last execution of its step.         *)
ResponseTruthful ==
    response.status = "success" =>
        /\ \A s \in Step : last.status[s] \in {"SUCCEEDED", "SKIPPED"}
        /\ \A s \in Step : response.listed[s] = IF last.status[s] = "SUCCEEDED" THEN 1 ELSE 0
        /\ \A s \in Declared : response.outputs[s] = success[s].output

(* A response of "failed" has a reason (132-165, 356-364): a step failed, a*)
(* declared output is missing, a step was retried and then skipped by its  *)
(* expression, so that its record is still the one of an attempt, or a     *)
(* success could not be recorded.                                          *)
FailureHasReason ==
    response.status = "failed" /\ phase = "idle" /\ last.returned =>
        \/ \E s \in Step : last.status[s] = "FAILED"
        \/ \E s \in Declared : response.outputs[s] = 0
        \/ \E s \in last.again : last.status[s] = "SKIPPED"
        \/ last.unrecorded # {}

(* The resumption that works: when the prior run was no resumption itself  *)
(* and came to its end, all that succeeded in it is taken over with its    *)
(* branch, unless it could not be recorded, and with its output, unless    *)
(* some output of that run could not be encoded.                           *)
ResumeComplete ==
    [][Resume /\ last.returned /\ ~last.resumed =>
          /\ seeds' = {s \in Step : last.status[s] = "SUCCEEDED"} \ last.unrecorded
          /\ \A s \in seeds' : /\ taken'[s] = success[s].branch
                               /\ last.unencodable = {} => memory'[s] = success[s].output]_vars

(* "seed the run with the steps that already succeeded in the latest prior *)
(* run under this runDir ... and re-execute only the rest" (105-107): a    *)
(* step that ended SUCCEEDED in the prior run is not started by a run that *)
(* resumes it.                                                             *)
SuccessNotRepeated ==
    [][\A s \in Step : resume /\ at[s] = "none" /\ at'[s] = "exec" =>
           last.status[s] # "SUCCEEDED"]_vars

(* "restores the succeeded steps' outputs from the prior run's context, so *)
(* downstream expressions resolve on resume" (282-283).                    *)
SeedOutputsRestored == phase # "idle" => \A s \in seeds : memory[s] # 0
=============================================================================
