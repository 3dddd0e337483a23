------------------------------ MODULE LiveView ------------------------------
(***************************************************************************)
(* "torkflow run --view-dag": runWithOptionalLiveDAG (src/internal/cli/    *)
(* run.go 99-159) starts Engine.Run in a goroutine and draws the workflow  *)
(* on every tick, until the run sends its result.  A frame is a walk of    *)
(* the graph (DagView) and then a look at the record of each step, one     *)
(* file after the other (dag.go 288-326), while the run truncates and      *)
(* writes them.  "torkflow view" without a run draws one frame.            *)
(***************************************************************************)
EXTENDS DagView

CONSTANTS
    Watched,    \* the edges of the workflows whose run is watched
    Rerun,      \* the steps an earlier run with the same execution id may have run
    Printing,   \* the steps whose action is core.stdout
    Failing,    \* the steps that may fail
    Skippable,  \* the steps whose skip expression may be true
    Unsaved,    \* the steps whose input or output JSON may have no text for
    AnyGate,    \* the steps that one of their sources releases
    Fallback    \* the pairs of a step and its fallback step

ASSUME WatchedAssumption == Watched \subseteq [Step \X Name -> Nat]
ASSUME OrderAssumption == Name \subseteq Nat     \* the order of the file names
ASSUME StepsAssumption ==
    Rerun \cup Printing \cup Failing \cup Skippable \cup Unsaved \cup AnyGate \subseteq Step
ASSUME FallbackAssumption == Fallback \subseteq Step \X Step

VARIABLES
    left,     \* records an earlier run with this execution id has left
    run,      \* control point of Engine.Run
    status,   \* the status of each step in the run
    record,   \* what the file of each step holds, "torn" when truncated
    writing,  \* the record SaveStep is about to write for each step
    retried,  \* the steps that have been retried
    lost,     \* the steps whose last record could not be marshalled
    gone,     \* the steps whose goroutine has left them RUNNING
    encodable,\* Engine.Context can be marshalled
    tty,      \* isInteractiveTTY
    at,       \* control point of the command
    last,     \* the frame being drawn is the final view
    unread,   \* the files of this frame that are not read yet
    read,     \* what the others held
    shown,    \* the frame on the screen
    screen,   \* the primary or the alternate screen of the terminal
    printed   \* how often the primary screen got the output of each step

attempts == <<retried, lost, gone, encodable>>
runVars == <<left, run, status, record, writing, attempts>>
frameVars == <<last, unread, read>>
terminal == <<tty, shown, screen, printed>>
vars == <<edges, walkVars, runVars, at, frameVars, terminal>>

Final == {"SUCCEEDED", "FAILED", "SKIPPED"}
Nothing == [s \in Step |-> "none"]

Init ==
    /\ StartWalk
    /\ run \in {"none", "starting"}
    /\ run = "starting" => edges \in Watched
    /\ left \in [Step -> {"none", "SUCCEEDED"}]
    /\ \A s \in Step : left[s] # "none" => s \in Rerun /\ run # "none"
    /\ record = left
    /\ status = [s \in Step |-> "PENDING"]
    /\ writing = Nothing
    /\ retried = {} /\ lost = {} /\ gone = {} /\ encodable = TRUE
    /\ tty \in IF run = "none" THEN {FALSE} ELSE BOOLEAN
    /\ at = IF run = "none" THEN "walk" ELSE "open"
    /\ last = (run = "none")
    /\ unread = {} /\ read = Nothing /\ shown = Nothing
    /\ screen = "primary" /\ printed = [s \in Step |-> 0]

-----------------------------------------------------------------------------
(* Engine.Run, as far as it is seen: Store.Init (filestore.go 18-24) makes *)
(* the directory of the records or keeps the one that is there, and the    *)
(* scheduler makes the steps without a source READY (scheduler.go 41-51).  *)
Sources(s) == {r \in Step : edges[r, s] > 0}

StoreInit ==
    /\ run = "starting"
    /\ run' = "running"
    /\ status' = [s \in Step |-> IF Sources(s) = {} THEN "READY" ELSE "PENDING"]
    /\ UNCHANGED <<edges, walkVars, left, record, writing, attempts, at, frameVars, terminal>>

Running ==
    /\ run = "running"
    /\ UNCHANGED <<edges, walkVars, left, run, at, frameVars, tty, shown, screen>>

(* A success releases a step through its gate (271-298), a failure through *)
(* a fallback (322-330), both some time after the status, or never: the    *)
(* edge may have another label, or its increment be lost.                  *)
Cause(t, succeeded, failed) ==
    \/ Sources(t) \subseteq succeeded
    \/ t \in AnyGate /\ Sources(t) \cap succeeded # {}
    \/ \E r \in failed : <<r, t>> \in Fallback

EndedAs(end) == {r \in Step : status[r] = end}

Release(t) ==
    /\ Running
    /\ status[t] = "PENDING" /\ Cause(t, EndedAs("SUCCEEDED"), EndedAs("FAILED"))
    /\ status' = [status EXCEPT ![t] = "READY"]
    /\ UNCHANGED <<record, writing, attempts, printed>>

(* When nothing is READY or RUNNING, what is PENDING is skipped (190-197), *)
(* and no record is made of that.                                          *)
SkipPending ==
    /\ Running
    /\ \A s \in Step : status[s] \notin {"READY", "RUNNING"}
    /\ \E s \in Step : status[s] = "PENDING"
    /\ status' = [s \in Step |-> IF status[s] = "PENDING" THEN "SKIPPED" ELSE status[s]]
    /\ UNCHANGED <<record, writing, attempts, printed>>

(* SaveStep (54-61): the file is truncated here and written in WriteRecord;*)
(* the status of a step that ends follows its record.  What cannot be      *)
(* marshalled leaves the file as it is, and nobody looks at the error.     *)
Save(s, value) ==
    /\ record' = [record EXCEPT ![s] = "torn"]
    /\ writing' = [writing EXCEPT ![s] = value]

WriteRecord(s) ==
    /\ writing[s] # "none"
    /\ record' = [record EXCEPT ![s] = writing[s]]
    /\ writing' = [writing EXCEPT ![s] = "none"]
    /\ status' = IF writing[s] \in Final /\ s \notin gone
                 THEN [status EXCEPT ![s] = writing[s]] ELSE status
    /\ UNCHANGED <<edges, walkVars, left, run, attempts, at, frameVars, terminal>>

(* The goroutine of s (106-165), from its snapshot to the first record.    *)
Ready(s) == Running /\ status[s] = "READY"

Start(s) ==
    /\ Ready(s) /\ encodable
    /\ status' = [status EXCEPT ![s] = "RUNNING"]
    /\ Save(s, "RUNNING")
    /\ UNCHANGED <<attempts, printed>>

Skip(s) ==
    /\ Ready(s) /\ encodable /\ s \in Skippable
    /\ status' = [status EXCEPT ![s] = "SKIPPED"]
    /\ UNCHANGED <<record, writing, attempts, printed>>

(* Without a snapshot the goroutine returns and the step stays RUNNING     *)
(* (109-112) ...                                                           *)
SnapshotFails(s) ==
    /\ Ready(s) /\ ~encodable
    /\ status' = [status EXCEPT ![s] = "RUNNING"]
    /\ gone' = gone \cup {s}
    /\ Save(s, "FAILED")
    /\ UNCHANGED <<retried, lost, encodable, printed>>

Executing(s) == Running /\ status[s] = "RUNNING" /\ writing[s] = "none" /\ s \notin gone

(* ... and so it does without its input (132-137).                         *)
BadInput(s) ==
    /\ Executing(s) /\ s \in Failing
    /\ gone' = gone \cup {s}
    /\ \/ Save(s, "FAILED")
       \/ s \in Unsaved /\ UNCHANGED <<record, writing>>
    /\ UNCHANGED <<status, retried, lost, encodable, printed>>

(* handleFailure (300-320): before a retry the record stays as it is.      *)
Retrying(s) ==
    /\ Executing(s) /\ s \in Failing
    /\ status' = [status EXCEPT ![s] = "READY"]
    /\ retried' = retried \cup {s}
    /\ UNCHANGED <<lost, gone, encodable, printed>>

RetryRecorded(s) ==
    Retrying(s) /\ record' = [record EXCEPT ![s] = "FAILED"] /\ UNCHANGED writing

Retry(s) == Retrying(s) /\ UNCHANGED <<record, writing>>

GiveUp(s) ==
    /\ Executing(s) /\ s \in Failing
    /\ Save(s, "FAILED")
    /\ UNCHANGED <<status, attempts, printed>>

GiveUpUnsaved(s) ==
    /\ Executing(s) /\ s \in Failing /\ s \in Unsaved
    /\ status' = [status EXCEPT ![s] = "FAILED"]
    /\ lost' = lost \cup {s}
    /\ UNCHANGED <<record, writing, retried, gone, encodable, printed>>

(* core.stdout prints to the screen of the moment (actions.go 237); the    *)
(* record with its output follows (146-152).                               *)
PutOut(s) == printed' = IF s \in Printing /\ screen = "primary"
                       THEN [printed EXCEPT ![s] = @ + 1] ELSE printed

Succeed(s) ==
    /\ Executing(s)
    /\ Save(s, "SUCCEEDED")
    /\ PutOut(s)
    /\ UNCHANGED <<status, attempts>>

(* An output that cannot be marshalled spoils the context as well (154).   *)
SucceedUnsaved(s) ==
    /\ Executing(s) /\ s \in Unsaved
    /\ status' = [status EXCEPT ![s] = "SUCCEEDED"]
    /\ lost' = lost \cup {s}
    /\ encodable' \in {encodable, FALSE}
    /\ PutOut(s)
    /\ UNCHANGED <<record, writing, retried, gone>>

(* Run returns when all its goroutines have (205); errCh has room for the  *)
(* result (104-107).                                                       *)
EndedOrEnding == {s \in Step : status[s] \in Final \/ writing[s] \in Final}
Ended == {s \in Step : status[s] \in Final}

Return ==
    /\ run = "running" /\ Ended = Step
    /\ run' = "returned"
    /\ UNCHANGED <<edges, walkVars, left, status, record, writing, attempts, at,
                   frameVars, terminal>>

-----------------------------------------------------------------------------
(* The command.  An interactive one switches to the alternate screen when  *)
(* the run has been started already (105-120).                             *)
Open ==
    /\ at = "open"
    /\ at' = "walk"
    /\ screen' = IF tty THEN "alternate" ELSE "primary"
    /\ UNCHANGED <<edges, walkVars, runVars, frameVars, tty, shown, printed>>

Walk ==
    /\ at = "walk"
    /\ \E cur \in Name : Visit(cur)
    /\ UNCHANGED <<runVars, at, frameVars, terminal>>

(* loadRuntimeStepStatuses: the files there are, in the order of their     *)
(* names; one that cannot be parsed gives no status.                       *)
ListNew ==
    /\ at = "walk" /\ queue = {}
    /\ at' = "read"
    /\ unread' = {s \in Step : record[s] # "none" /\ read[s] = "none"}
    /\ UNCHANGED <<edges, walkVars, runVars, last, read, terminal>>

ListNothing ==
    /\ at = "walk" /\ queue = {}
    /\ at' = "read"
    /\ unread' = Step
    /\ read' = Nothing
    /\ UNCHANGED <<edges, walkVars, runVars, last, terminal>>

List ==
    /\ at = "walk" /\ queue = {}
    /\ at' = "read"
    /\ unread' = {s \in Step : record[s] # "none"}
    /\ read' = Nothing
    /\ UNCHANGED <<edges, walkVars, runVars, last, terminal>>

EndedOnly(text) == IF text \in Final THEN text ELSE "none"
Parsed(text) == IF text = "torn" THEN "none" ELSE text

ReadFile ==
    /\ at = "read" /\ unread # {}
    /\ unread' = unread \ {Min(unread)}
    /\ read' = [read EXCEPT ![Min(unread)] = Parsed(record[Min(unread)])]
    /\ UNCHANGED <<edges, walkVars, runVars, at, last, terminal>>

(* The frame is printed (134, 141-149); after the final view an            *)
(* interactive command is back on the primary screen.                      *)
Show ==
    /\ at = "read" /\ unread = {}
    /\ shown' = read
    /\ at' = IF ~last THEN "wait" ELSE IF tty THEN "replay" ELSE "returned"
    /\ screen' = IF last THEN "primary" ELSE screen
    /\ UNCHANGED <<edges, walkVars, runVars, frameVars, tty, printed>>

(* The select (138-157). *)
Tick ==
    /\ at = "wait"
    /\ at' = "walk"
    /\ RestartWalk
    /\ UNCHANGED <<edges, runVars, frameVars, terminal>>

ResultShown == run = "returned" /\ \A s \in Step : shown[s] # "none"
ResultReady == run = "returned"

TakeResult ==
    /\ at = "wait" /\ ResultReady
    /\ at' = "walk"
    /\ last' = TRUE
    /\ RestartWalk
    /\ UNCHANGED <<edges, runVars, unread, read, terminal>>

(* replayCoreStdoutOutputs (169-199) reads the records once more.          *)
Replay ==
    /\ at = "replay"
    /\ at' = "returned"
    /\ printed' = [s \in Step |->
          IF s \in Printing /\ record[s] = "SUCCEEDED" THEN printed[s] + 1 ELSE printed[s]]
    /\ UNCHANGED <<edges, walkVars, runVars, frameVars, tty, shown, screen>>

Terminated == at = "returned" /\ UNCHANGED vars

Command == Open \/ Walk \/ List \/ ReadFile \/ Show \/ Replay

Next ==
    \/ StoreInit \/ SkipPending \/ Return
    \/ \E s \in Step :
          \/ Release(s) \/ Start(s) \/ Skip(s) \/ SnapshotFails(s) \/ WriteRecord(s)
          \/ BadInput(s) \/ Retry(s) \/ GiveUp(s) \/ GiveUpUnsaved(s)
          \/ Succeed(s) \/ SucceedUnsaved(s)
    \/ Command \/ Tick \/ TakeResult
    \/ Terminated

Spec == Init /\ [][Next]_vars

(* The command's goroutine runs, the ticker ticks, and a select that finds *)
(* both channels ready again and again takes each of them some time (it    *)
(* picks at random).  The run may stand still: a step may never end.       *)
Fairness == WF_vars(Command) /\ WF_vars(Tick) /\ SF_vars(TakeResult)

FairSpec == Spec /\ Fairness

-----------------------------------------------------------------------------
(* Properties.                                                             *)

(* The final view (141) shows how each step that was executed has ended,   *)
(* unless its last record could not be marshalled: that one is shown as    *)
(* running for ever, and so is one that was retried and then skipped.  A   *)
(* step that was not executed keeps the badge of an earlier run.           *)
FinalViewTrue ==
    at = "returned" /\ run = "returned" =>
        \A s \in Step :
            /\ status[s] # "SKIPPED" =>
                 shown[s] = IF s \in lost THEN "RUNNING" ELSE status[s]
            /\ status[s] = "SKIPPED" =>
                 shown[s] = IF s \in retried THEN "RUNNING" ELSE left[s]

(* A step may fall back to unknown while its record is rewritten (304-317),*)
(* but never from an end: in a directory of its own, a run whose step is   *)
(* shown as ended is never shown going back, retries included.             *)
EndedStaysEnded ==
    [][\A s \in Step : left[s] = "none" /\ shown[s] \in {"SUCCEEDED", "FAILED"} =>
           shown'[s] = shown[s]]_vars

(* A frame is no snapshot, for the files are read one after the other      *)
(* (300-304), yet it never shows a step as started without showing what    *)
(* has released it: the sources that its gate asks for as succeeded, or    *)
(* a step whose fallback it is as failed (as running, if the record of     *)
(* that end could not be marshalled).                                      *)
ShownAs(end, frame) ==
    {r \in EndedAs(end) : frame[r] = IF r \in lost THEN "RUNNING" ELSE end}

EffectNotBeforeCause ==
    \A t \in Step : left[t] = "none" /\ shown[t] # "none" =>
        Cause(t, ShownAs("SUCCEEDED", shown), ShownAs("FAILED", shown))

(* Nothing that core.stdout has printed is lost with the alternate screen  *)
(* (112-120, 146-152): when the command returns, the primary screen has    *)
(* the output of each success, once, or twice when it was printed before   *)
(* the switch, and none of a step that was never executed.  Only what has  *)
(* no record cannot be replayed.                                           *)
OutputKept ==
    at = "returned" => \A s \in Printing :
        /\ status[s] = "SUCCEEDED" =>
             printed[s] \in IF ~tty THEN {1} ELSE IF s \in lost THEN {0, 1} ELSE {1, 2}
        /\ status[s] # "SUCCEEDED" /\ left[s] = "none" => printed[s] = 0

(* The command returns after the run has, however fast the ticks come.     *)
CommandEnds == run = "returned" ~> at = "returned"

(* A step that runs and runs is shown running in the end.                  *)
ViewCatchesUp ==
    \A s \in Step :
        <>[](record[s] = "RUNNING") => <>[](shown[s] = "RUNNING")
=============================================================================
