-------------------------- MODULE LiveViewProofs --------------------------
(***************************************************************************)
(* Proofs about LiveView, for every workflow, every directory an earlier   *)
(* run may have left and every interleaving of the run with the command:   *)
(* what is on the screen is true of the run as far as a reader of files    *)
(* that change under it can promise, and no output is lost.                *)
(***************************************************************************)
EXTENDS LiveView, DagViewProofs

(* The type of the variables of a watched run.  The edges and the walk of  *)
(* the frame belong to DagView.                                            *)
Records == {"none", "RUNNING", "FAILED", "SUCCEEDED"}

TypeOK ==
    /\ left \in [Step -> {"none", "SUCCEEDED"}]
    /\ run \in {"none", "starting", "running", "returned"}
    /\ status \in [Step -> Final \cup {"PENDING", "READY", "RUNNING"}]
    /\ record \in [Step -> Records \cup {"torn"}]
    /\ writing \in [Step -> Records]
    /\ retried \subseteq Step /\ lost \subseteq Step /\ gone \subseteq Step
    /\ encodable \in BOOLEAN
    /\ tty \in BOOLEAN
    /\ at \in {"open", "walk", "read", "wait", "replay", "returned"}
    /\ last \in BOOLEAN
    /\ unread \subseteq Step
    /\ read \in [Step -> Records] /\ shown \in [Step -> Records]
    /\ screen \in {"primary", "alternate"}
    /\ printed \in [Step -> Nat]

(* What the file of a step holds that is not being executed: what an       *)
(* earlier run has left, until the first attempt, and from then on the     *)
(* RUNNING of the latest attempt.                                          *)
Before(s) == IF s \in retried THEN "RUNNING" ELSE left[s]

(* A record is torn only while the run rewrites it; otherwise it tells the *)
(* status of an executed step, unless the goroutine has gone or the record *)
(* of the end was lost.                                                    *)
RecordOf(s) ==
    /\ writing[s] # "none" => record[s] = "torn" /\ status[s] = "RUNNING"
    /\ writing[s] = "none" /\ status[s] \in {"PENDING", "READY", "SKIPPED"} =>
         record[s] = Before(s)
    /\ writing[s] = "none" /\ status[s] = "RUNNING" =>
         record[s] = "RUNNING" \/ (s \in gone /\ record[s] = "FAILED")
    /\ status[s] \in {"SUCCEEDED", "FAILED"} =>
         record[s] = IF s \in lost THEN "RUNNING" ELSE status[s]
    /\ s \in lost => status[s] \in {"SUCCEEDED", "FAILED"}
    /\ s \in gone => status[s] = "RUNNING" /\ writing[s] \in {"none", "FAILED"}

RecordsFollow == \A s \in Step : RecordOf(s)

(* What has been executed, or will be, had a cause first.                  *)
Executed(s) == s \in retried \/ status[s] \notin {"PENDING", "SKIPPED"}

CausesFirst ==
    \A t \in Step : Executed(t) => Cause(t, EndedAs("SUCCEEDED"), EndedAs("FAILED"))

(* The control points of the run and of the command.                       *)
RunStages ==
    /\ run \notin {"running", "returned"} =>
         /\ \A s \in Step : status[s] = "PENDING" /\ writing[s] = "none"
         /\ retried = {}
    /\ run = "returned" => \A s \in Step : status[s] \in Final
    /\ run = "none" => ~tty
    /\ last => run \in {"none", "returned"}
    /\ at \in {"replay", "returned"} => last
    /\ at = "replay" => tty

(* What a frame knows, on the screen or while it is read: an end that it   *)
(* shows is the one recorded, whatever the screen shows as ended is still  *)
(* to be read or has been read again, and the same goes for the causes of  *)
(* whatever it found recorded.                                             *)
EndsAreRecorded(frame) ==
    \A s \in Step :
        left[s] = "none" /\ frame[s] \in {"FAILED", "SUCCEEDED"} => record[s] = frame[s]

EndsAreReread ==
    at = "read" => \A s \in Step :
        left[s] = "none" /\ shown[s] \in {"FAILED", "SUCCEEDED"} =>
            s \in unread \/ read[s] = shown[s]

ToShow(end) ==
    {r \in EndedAs(end) : r \in unread \/ read[r] = IF r \in lost THEN "RUNNING" ELSE end}

CausesAreRead ==
    at = "read" => \A t \in Step :
        left[t] = "none" /\ (t \in unread \/ read[t] # "none") =>
            Cause(t, ToShow("SUCCEEDED"), ToShow("FAILED"))

(* The frame of the final view is drawn from records that do not change.   *)
FinalFrame ==
    last /\ run = "returned" =>
        /\ at = "read" => \A s \in Step : s \in unread \/ read[s] = record[s]
        /\ at \in {"replay", "returned"} => shown = record

(* The output of a success is on the primary screen once, unless the       *)
(* alternate screen has swallowed it; the replay adds it once more, if it  *)
(* has a record.                                                           *)
Succeeding(s) == status[s] = "SUCCEEDED" \/ writing[s] = "SUCCEEDED"

OutputCounted ==
    /\ ~tty \/ at = "open" => screen = "primary"
    /\ \A s \in Printing :
         ~(tty /\ at = "returned") =>
             printed[s] \in IF ~Succeeding(s) THEN {0}
                            ELSE IF tty THEN {0, 1} ELSE {1}
    /\ tty /\ at = "returned" => \A s \in Printing :
         /\ status[s] = "SUCCEEDED" => printed[s] \in IF s \in lost THEN {0, 1} ELSE {1, 2}
         /\ status[s] # "SUCCEEDED" /\ left[s] = "none" => printed[s] = 0

RunInv == TypeOK /\ RecordsFollow /\ CausesFirst /\ RunStages

FrameInv ==
    /\ EndsAreRecorded(read) /\ EndsAreRecorded(shown) /\ EndsAreReread
    /\ CausesAreRead /\ EffectNotBeforeCause /\ FinalFrame

IInv == RunInv /\ FrameInv /\ OutputCounted

-----------------------------------------------------------------------------
(* The run.                                                                *)

Goroutine(s) ==
    \/ Release(s) \/ Start(s) \/ Skip(s) \/ SnapshotFails(s) \/ WriteRecord(s)
    \/ BadInput(s) \/ Retry(s) \/ GiveUp(s) \/ GiveUpUnsaved(s)
    \/ Succeed(s) \/ SucceedUnsaved(s)

RunStep == StoreInit \/ SkipPending \/ Return \/ \E s \in Step : Goroutine(s)

CommandStep == Command \/ Tick \/ TakeResult \/ UNCHANGED vars

LEMMA InitInv == Init => IInv
<1> SUFFICES ASSUME Init PROVE IInv
  OBVIOUS
<1>1. TypeOK
  BY StepAssumption DEF Init, TypeOK, Records, Nothing, Final
<1>2. RecordsFollow /\ CausesFirst
  BY DEF Init, RecordsFollow, RecordOf, CausesFirst, Before, Executed, Nothing
<1>3. RunStages
  BY DEF Init, RunStages, Nothing, Final
<1>4. FrameInv
  BY DEF Init, FrameInv, EndsAreRecorded, EndsAreReread, CausesAreRead,
         EffectNotBeforeCause, FinalFrame, Nothing
<1>5. OutputCounted
  BY StepsAssumption DEF Init, OutputCounted, Succeeding, Nothing
<1> QED
  BY <1>1, <1>2, <1>3, <1>4, <1>5 DEF IInv, RunInv

(* The run leaves the frame and the terminal to the command.               *)
LEMMA FrameLeft ==
    ASSUME RunStep
    PROVE  UNCHANGED <<edges, left, at, last, unread, read, shown, tty, screen>>
BY DEF RunStep, Goroutine, StoreInit, SkipPending, Return, Release, Start, Skip, SnapshotFails,
       WriteRecord, BadInput, Retry, Retrying, GiveUp, GiveUpUnsaved, Succeed, SucceedUnsaved,
       Running, Ready, Executing, frameVars, terminal

(* Nobody touches the step of a goroutine that has ended or gone.          *)
Settled(s) == status[s] \in Final \/ (s \in gone /\ writing[s] = "none")

LEMMA SettledStays ==
    ASSUME RunInv, RunStep, NEW s \in Step, Settled(s)
    PROVE  Settled(s)' /\ status'[s] = status[s] /\ record'[s] = record[s]
           /\ (s \in lost' <=> s \in lost)
<1> USE DEF RunInv, TypeOK, Settled, Final
<1>0. /\ s \in lost => status[s] \in {"SUCCEEDED", "FAILED"}
      /\ s \in gone => status[s] = "RUNNING"
      /\ writing[s] # "none" => status[s] = "RUNNING"
  BY DEF RecordsFollow, RecordOf
<1>1. CASE StoreInit \/ Return
  BY <1>0, <1>1 DEF StoreInit, Return, RunStages, attempts
<1>2. CASE SkipPending
  BY <1>0, <1>2 DEF SkipPending, attempts
<1>3. ASSUME NEW t \in Step, Goroutine(t)
      PROVE  Settled(s)' /\ status'[s] = status[s] /\ record'[s] = record[s]
             /\ (s \in lost' <=> s \in lost)
  <2>1. s # t
    BY <1>0, <1>3 DEF Goroutine, Release, Start, Skip, SnapshotFails, WriteRecord, BadInput, Retry,
          Retrying, GiveUp, GiveUpUnsaved, Succeed, SucceedUnsaved, Ready, Executing
  <2>2. CASE Release(t) \/ Start(t) \/ Skip(t) \/ SnapshotFails(t)
    BY <2>1, <2>2 DEF Release, Start, Skip, SnapshotFails, Save, attempts
  <2>3. CASE WriteRecord(t) \/ BadInput(t) \/ Retry(t) \/ GiveUp(t)
    BY <2>1, <2>3 DEF WriteRecord, BadInput, Retry, Retrying, GiveUp, Save, attempts
  <2>4. CASE GiveUpUnsaved(t) \/ Succeed(t) \/ SucceedUnsaved(t)
    BY <2>1, <2>4 DEF GiveUpUnsaved, Succeed, SucceedUnsaved, Save, attempts
  <2> QED
    BY <1>3, <2>2, <2>3, <2>4 DEF Goroutine
<1> QED
  BY <1>1, <1>2, <1>3 DEF RunStep

(* A step that has ended keeps its end, so a cause remains one.            *)
LEMMA EndsGrow ==
    ASSUME RunInv, RunStep
    PROVE  /\ EndedAs("SUCCEEDED") \subseteq EndedAs("SUCCEEDED")'
           /\ EndedAs("FAILED") \subseteq EndedAs("FAILED")'
<1>1. \A s \in Step : status[s] \in Final => status'[s] = status[s]
  BY SettledStays DEF Settled
<1> QED
  BY <1>1 DEF EndedAs, Final

LEMMA CausesStay ==
    ASSUME RunInv, RunStep
    PROVE  CausesFirst'
<1> SUFFICES ASSUME NEW t \in Step, Executed(t)'
             PROVE  Cause(t, EndedAs("SUCCEEDED"), EndedAs("FAILED"))'
  BY DEF CausesFirst
<1>1. Cause(t, EndedAs("SUCCEEDED"), EndedAs("FAILED"))
  <2>1. CASE Executed(t)
    BY <2>1 DEF RunInv, CausesFirst
  <2>2. CASE ~Executed(t)
    <3>1. t \notin retried /\ status[t] \in {"PENDING", "SKIPPED"}
      BY <2>2 DEF Executed
    <3>2. ~SkipPending /\ ~Return
      BY <3>1 DEF SkipPending, Return, attempts, Executed, RunInv, TypeOK
    <3>3. CASE StoreInit
      <4>1. Sources(t) = {}
        BY <3>1, <3>3 DEF StoreInit, attempts, Executed
      <4> QED
        BY <4>1 DEF Cause
    <3>4. ASSUME NEW s \in Step, Goroutine(s)
          PROVE  Cause(t, EndedAs("SUCCEEDED"), EndedAs("FAILED"))
      <4>1. s = t => Release(s) \/ WriteRecord(s)
        BY <3>1, <3>4 DEF Goroutine, Start, Skip, SnapshotFails, BadInput, Retry, Retrying, GiveUp,
              GiveUpUnsaved, Succeed, SucceedUnsaved, Ready, Executing
      <4>2. ~WriteRecord(t)
        BY <3>1 DEF WriteRecord, RunInv, RecordsFollow, RecordOf
      <4>3. s = t
        BY <3>1, <3>4 DEF Goroutine, Release, Start, Skip, SnapshotFails, WriteRecord, BadInput, Retry,
              Retrying, GiveUp, GiveUpUnsaved, Succeed, SucceedUnsaved, attempts, Executed, RunInv, TypeOK
      <4> QED
        BY <4>1, <4>2, <4>3 DEF Release
    <3> QED
      BY <3>2, <3>3, <3>4 DEF RunStep
  <2> QED
    BY <2>1, <2>2
<1>2. Sources(t)' = Sources(t)
  BY FrameLeft DEF Sources
<1> QED
  BY <1>1, <1>2, EndsGrow DEF Cause

LEMMA RecordsFollowKept ==
    ASSUME RunInv, RunStep
    PROVE  RecordsFollow'
<1> USE DEF RunInv
<1>0. left' = left
  BY FrameLeft
<1>1. CASE StoreInit
  <2> SUFFICES ASSUME NEW s \in Step PROVE RecordOf(s)'
    BY DEF RecordsFollow
  <2>1. RecordOf(s) /\ status[s] = "PENDING" /\ writing[s] = "none"
    BY <1>1 DEF RecordsFollow, StoreInit, RunStages
  <2> QED
    BY <1>0, <1>1, <2>1 DEF StoreInit, RecordOf, Before, attempts
<1>2. CASE SkipPending
  <2> SUFFICES ASSUME NEW s \in Step PROVE RecordOf(s)'
    BY DEF RecordsFollow
  <2>1. RecordOf(s) /\ status'[s] = IF status[s] = "PENDING" THEN "SKIPPED" ELSE status[s]
    BY <1>2 DEF RecordsFollow, SkipPending
  <2> QED
    BY <1>0, <1>2, <2>1 DEF SkipPending, RecordOf, Before, attempts
<1>3. CASE Return
  BY <1>0, <1>3 DEF Return, RecordsFollow, RecordOf, Before, attempts
<1>4. ASSUME NEW t \in Step, Goroutine(t)
      PROVE  RecordsFollow'
  <2> SUFFICES ASSUME NEW s \in Step PROVE RecordOf(s)'
    BY DEF RecordsFollow
  <2>0. RecordOf(s)
    BY DEF RecordsFollow
  <2> USE <1>0, <2>0 DEF TypeOK, Records, Final, RecordOf, Before, Save, attempts
  <2>1. CASE Release(t)
    BY <2>1 DEF Release
  <2>2. CASE Start(t)
    BY <2>2 DEF Start, Ready
  <2>3. CASE Skip(t)
    BY <2>3 DEF Skip, Ready
  <2>4. CASE SnapshotFails(t)
    BY <2>4 DEF SnapshotFails, Ready
  <2>5. CASE WriteRecord(t)
    <3>1. CASE s = t
      BY <2>5, <3>1 DEF WriteRecord
    <3>2. CASE s # t
      BY <2>5, <3>2 DEF WriteRecord
    <3> QED
      BY <3>1, <3>2
  <2>6. CASE BadInput(t)
    BY <2>6 DEF BadInput, Executing
  <2>7. CASE Retry(t)
    BY <2>7 DEF Retry, Retrying, Executing
  <2>8. CASE GiveUp(t)
    BY <2>8 DEF GiveUp, Executing
  <2>9. CASE GiveUpUnsaved(t)
    BY <2>9 DEF GiveUpUnsaved, Executing
  <2>10. CASE Succeed(t)
    BY <2>10 DEF Succeed, Executing
  <2>11. CASE SucceedUnsaved(t)
    BY <2>11 DEF SucceedUnsaved, Executing
  <2> QED
    BY <1>4, <2>1, <2>2, <2>3, <2>4, <2>5, <2>6, <2>7, <2>8, <2>9, <2>10, <2>11 DEF Goroutine
<1> QED
  BY <1>1, <1>2, <1>3, <1>4 DEF RunStep

LEMMA RunTypeKept ==
    ASSUME RunInv, RunStep
    PROVE  TypeOK'
<1> USE DEF RunInv, TypeOK, Final, Records, attempts, frameVars, terminal
<1>1. CASE StoreInit
  BY <1>1 DEF StoreInit
<1>2. CASE SkipPending
  BY <1>2 DEF SkipPending, Running
<1>3. CASE Return
  BY <1>3 DEF Return
<1>4. ASSUME NEW t \in Step, Goroutine(t)
      PROVE  TypeOK'
  <2> USE DEF Running, Ready, Executing, Save
  <2>1. CASE Release(t) \/ Start(t) \/ Skip(t)
    BY <2>1 DEF Release, Start, Skip
  <2>2. CASE SnapshotFails(t) \/ BadInput(t)
    BY <2>2 DEF SnapshotFails, BadInput
  <2>3. CASE WriteRecord(t)
    BY <2>3 DEF WriteRecord
  <2>4. CASE Retry(t) \/ GiveUp(t) \/ GiveUpUnsaved(t)
    BY <2>4 DEF Retry, Retrying, GiveUp, GiveUpUnsaved
  <2>5. CASE Succeed(t)
    BY <2>5 DEF Succeed, PutOut
  <2>6. CASE SucceedUnsaved(t)
    <3>1. printed' \in [Step -> Nat]
      BY <2>6 DEF SucceedUnsaved, PutOut
    <3>2. encodable' \in BOOLEAN
      BY <2>6, Zenon DEF SucceedUnsaved
    <3> QED
      BY <2>6, <3>1, <3>2 DEF SucceedUnsaved
  <2> QED
    BY <1>4, <2>1, <2>2, <2>3, <2>4, <2>5, <2>6 DEF Goroutine
<1> QED
  BY <1>1, <1>2, <1>3, <1>4 DEF RunStep

LEMMA RunStagesKept ==
    ASSUME RunInv, RunStep
    PROVE  RunStages'
<1> USE DEF RunInv, RunStages, Final
<1>1. UNCHANGED <<at, last, tty>>
  BY FrameLeft
<1>2. CASE StoreInit \/ Return
  BY <1>1, <1>2 DEF StoreInit, Return, Ended, attempts
<1>3. CASE SkipPending
  BY <1>1, <1>3 DEF SkipPending, Running
<1>4. ASSUME NEW t \in Step, Goroutine(t)
      PROVE  run = "running" /\ run' = "running"
  <2>1. CASE WriteRecord(t)
    <3>1. status[t] = "RUNNING" /\ writing[t] # "none" /\ run' = run
      BY <2>1 DEF WriteRecord, RecordsFollow, RecordOf
    <3> QED
      BY <3>1 DEF TypeOK
  <2> QED
    BY <1>4, <2>1 DEF Goroutine, Release, Start, Skip, SnapshotFails, BadInput, Retry, Retrying,
          GiveUp, GiveUpUnsaved, Succeed, SucceedUnsaved, Running, Ready, Executing
<1> QED
  BY <1>1, <1>2, <1>3, <1>4 DEF RunStep

LEMMA RunInvKept ==
    ASSUME RunInv, RunStep
    PROVE  RunInv'
BY RunTypeKept, RecordsFollowKept, CausesStay, RunStagesKept DEF RunInv

(* What a frame has read or still has to read of an end stays true of it.  *)
LEMMA FrameInvWhileRunning ==
    ASSUME RunInv, FrameInv, RunStep
    PROVE  FrameInv'
<1>1. /\ edges' = edges /\ left' = left /\ at' = at /\ last' = last /\ unread' = unread
      /\ read' = read /\ shown' = shown
  BY FrameLeft
<1>2. \A s \in Step : Settled(s) =>
          /\ status'[s] = status[s] /\ record'[s] = record[s]
          /\ s \in lost' <=> s \in lost
  BY SettledStays
<1>9. \A s \in Step : status[s] \in {"SUCCEEDED", "FAILED"} =>
          /\ status'[s] = status[s]
          /\ s \in lost' <=> s \in lost
  BY <1>2 DEF Settled, Final
<1>3. \A s \in Step : Sources(s)' = Sources(s)
  BY <1>1 DEF Sources
<1>4. EndsAreRecorded(read)' /\ EndsAreRecorded(shown)'
  <2>1. \A s \in Step : left[s] = "none" /\ record[s] \in {"FAILED", "SUCCEEDED"} => Settled(s)
    BY DEF RunInv, TypeOK, RecordsFollow, RecordOf, Before, Final, Settled
  <2> QED
    BY <1>1, <1>2, <2>1 DEF FrameInv, EndsAreRecorded
<1>5. EndsAreReread'
  BY <1>1 DEF FrameInv, EndsAreReread
<1>6. CausesAreRead'
  <2> SUFFICES ASSUME at = "read", NEW t \in Step, left[t] = "none", t \in unread \/ read[t] # "none"
               PROVE  Cause(t, ToShow("SUCCEEDED"), ToShow("FAILED"))'
    BY <1>1 DEF CausesAreRead
  <2>1. Cause(t, ToShow("SUCCEEDED"), ToShow("FAILED"))
    BY DEF FrameInv, CausesAreRead
  <2>2. /\ ToShow("SUCCEEDED") \subseteq ToShow("SUCCEEDED")'
        /\ ToShow("FAILED") \subseteq ToShow("FAILED")'
    BY <1>1, <1>9 DEF ToShow, EndedAs
  <2> QED
    BY <1>3, <2>1, <2>2 DEF Cause
<1>7. EffectNotBeforeCause'
  <2> SUFFICES ASSUME NEW t \in Step, left[t] = "none", shown[t] # "none"
               PROVE  Cause(t, ShownAs("SUCCEEDED", shown), ShownAs("FAILED", shown))'
    BY <1>1 DEF EffectNotBeforeCause
  <2>1. Cause(t, ShownAs("SUCCEEDED", shown), ShownAs("FAILED", shown))
    BY DEF FrameInv, EffectNotBeforeCause
  <2>2. /\ ShownAs("SUCCEEDED", shown) \subseteq ShownAs("SUCCEEDED", shown)'
        /\ ShownAs("FAILED", shown) \subseteq ShownAs("FAILED", shown)'
    BY <1>1, <1>9 DEF ShownAs, EndedAs
  <2> QED
    BY <1>3, <2>1, <2>2 DEF Cause
<1>8. FinalFrame'
  <2> SUFFICES ASSUME last, run' = "returned"
               PROVE  FinalFrame'
    BY <1>1 DEF FinalFrame
  <2>1. run = "returned"
    <3>1. run \in {"none", "returned"}
      BY DEF RunInv, RunStages
    <3>2. run' = run
      BY <3>1 DEF RunStep, Goroutine, StoreInit, SkipPending, Return, Release, Start, Skip,
         SnapshotFails, WriteRecord, BadInput, Retry, Retrying, GiveUp, GiveUpUnsaved, Succeed,
         SucceedUnsaved, Running, Ready, Executing
    <3> QED
      BY <3>2
  <2>2. \A s \in Step : record'[s] = record[s]
    BY <1>2, <2>1 DEF RunInv, RunStages, Settled
  <2>3. record' = record
    <3>1. record \in [Step -> Records \cup {"torn"}] /\ record' \in [Step -> Records \cup {"torn"}]
      BY RunTypeKept DEF RunInv, TypeOK
    <3> QED
      BY <2>2, <3>1
  <2> QED
    BY <1>1, <2>1, <2>3 DEF FrameInv, FinalFrame
<1> QED
  BY <1>4, <1>5, <1>6, <1>7, <1>8 DEF FrameInv

LEMMA OutputWhileRunning ==
    ASSUME RunInv, OutputCounted, RunStep
    PROVE  OutputCounted'
<1> USE DEF RunInv
<1>1. /\ left' = left /\ at' = at /\ tty' = tty /\ screen' = screen
  BY FrameLeft
<1>2. Printing \subseteq Step
  BY StepsAssumption
<1>3. CASE at = "returned"
  <2>1. run \in {"none", "returned"}
    BY <1>3 DEF RunStages
  <2>2. \A s \in Step : writing[s] = "none" /\ status[s] \in Final \cup {"PENDING"}
    BY <2>1 DEF RunStages, RecordsFollow, RecordOf, Final
  <2>3. UNCHANGED <<status, writing, lost, printed>>
    BY <2>1, <2>2 DEF RunStep, Goroutine, StoreInit, SkipPending, Return, Release, Start, Skip,
          SnapshotFails, WriteRecord, BadInput, Retry, Retrying, GiveUp, GiveUpUnsaved, Succeed,
          SucceedUnsaved, Running, Ready, Executing, attempts, terminal
  <2> QED
    BY <1>1, <1>3, <2>3 DEF OutputCounted, Succeeding
<1>4. CASE at # "returned"
  <2> SUFFICES ASSUME NEW s \in Printing
               PROVE  printed'[s] \in IF ~Succeeding(s)' THEN {0} ELSE IF tty THEN {0, 1} ELSE {1}
    BY <1>1, <1>4 DEF OutputCounted
  <2>1. printed[s] \in IF ~Succeeding(s) THEN {0} ELSE IF tty THEN {0, 1} ELSE {1}
    BY <1>4 DEF OutputCounted
  <2>2. CASE StoreInit \/ Return \/ SkipPending
    <3>1. printed' = printed /\ Succeeding(s)' = Succeeding(s)
      BY <1>2, <2>2 DEF StoreInit, Return, SkipPending, Succeeding, RunStages, terminal
    <3> QED
      BY <2>1, <3>1
  <2>3. ASSUME NEW t \in Step, Release(t) \/ Start(t) \/ Skip(t) \/ SnapshotFails(t)
        PROVE  printed'[s] = printed[s] /\ Succeeding(s)' = Succeeding(s)
    BY <1>2, <2>3 DEF Release, Start, Skip, SnapshotFails, Ready, Save, Succeeding, TypeOK,
                      RecordsFollow, RecordOf
  <2>4. ASSUME NEW t \in Step, BadInput(t) \/ Retry(t) \/ GiveUp(t) \/ GiveUpUnsaved(t)
        PROVE  printed'[s] = printed[s] /\ Succeeding(s)' = Succeeding(s)
    BY <1>2, <2>4 DEF BadInput, Retry, Retrying, GiveUp, GiveUpUnsaved, Executing, Save, Succeeding,
                      TypeOK, RecordsFollow, RecordOf
  <2>5. ASSUME NEW t \in Step, WriteRecord(t)
        PROVE  printed'[s] = printed[s] /\ Succeeding(s)' = Succeeding(s)
    BY <1>2, <2>5 DEF WriteRecord, Succeeding, TypeOK, RecordsFollow, RecordOf, Final, terminal
  <2>6. ASSUME NEW t \in Step, Succeed(t) \/ SucceedUnsaved(t), s # t
        PROVE  printed'[s] = printed[s] /\ Succeeding(s)' = Succeeding(s)
    BY <1>2, <2>6 DEF Succeed, SucceedUnsaved, PutOut, Save, Succeeding, TypeOK
  <2>7. ASSUME Succeed(s) \/ SucceedUnsaved(s)
        PROVE  printed'[s] \in (IF tty THEN {0, 1} ELSE {1}) /\ Succeeding(s)'
    <3>1. ~Succeeding(s) /\ printed[s] = 0
      BY <1>2, <2>1, <2>7 DEF Succeed, SucceedUnsaved, Executing, Succeeding
    <3>2. Succeeding(s)'
      BY <1>2, <2>7 DEF Succeed, SucceedUnsaved, Save, TypeOK, Succeeding
    <3>3. printed'[s] = IF screen = "primary" THEN 1 ELSE 0
      <4>1. PutOut(s)
        BY <2>7 DEF Succeed, SucceedUnsaved
      <4> QED
        BY <1>2, <3>1, <4>1 DEF PutOut, TypeOK
    <3>4. ~tty => screen = "primary"
      BY DEF OutputCounted
    <3> QED
      BY <3>2, <3>3, <3>4 DEF TypeOK
  <2>8. ASSUME NEW t \in Step, Goroutine(t)
        PROVE  printed'[s] \in IF ~Succeeding(s)' THEN {0} ELSE IF tty THEN {0, 1} ELSE {1}
    <3>1. CASE Succeed(t) \/ SucceedUnsaved(t)
      <4>1. CASE s = t
        BY <2>7, <3>1, <4>1
      <4>2. CASE s # t
        BY <2>1, <2>6, <3>1, <4>2
      <4> QED
        BY <4>1, <4>2
    <3>2. CASE ~(Succeed(t) \/ SucceedUnsaved(t))
      BY <2>1, <2>3, <2>4, <2>5, <2>8, <3>2 DEF Goroutine
    <3> QED
      BY <3>1, <3>2
  <2> QED
    BY <2>2, <2>8 DEF RunStep
<1> QED
  BY <1>3, <1>4

-----------------------------------------------------------------------------
(* The command.                                                            *)

(* The first of the files that are left is one of them.                    *)
LEMMA FirstFile ==
    ASSUME unread \subseteq Step, unread # {}
    PROVE  Min(unread) \in unread
<1>1. unread \in SUBSET Nat
  BY StepAssumption, OrderAssumption
<1> QED
  BY <1>1, MinOfNats

(* The command leaves the run alone.                                       *)
LEMMA RunLeft ==
    ASSUME CommandStep
    PROVE  UNCHANGED <<edges, left, run, status, record, writing, attempts, tty>>
BY DEF CommandStep, Command, Open, Walk, Visit, List, ReadFile, Show, Replay, Tick, TakeResult,
       runVars, terminal, vars

LEMMA RunInvWithCommand ==
    ASSUME RunInv, CommandStep
    PROVE  RunInv'
<1> USE DEF RunInv
<1>1. UNCHANGED <<edges, left, run, status, record, writing, attempts, tty>>
  BY RunLeft
<1>2. RecordsFollow' /\ CausesFirst'
  BY <1>1 DEF RecordsFollow, RecordOf, CausesFirst, Before, Executed, Cause, EndedAs, Sources, attempts
<1>3. RunStages'
  BY <1>1 DEF CommandStep, Command, Open, Walk, List, ReadFile, Show, Replay, Tick, TakeResult,
              ResultReady, RunStages, frameVars, vars, TypeOK, attempts
<1>4. TypeOK'
  <2>1. CASE Open \/ Walk \/ Tick \/ TakeResult \/ UNCHANGED vars
    BY <1>1, <2>1 DEF attempts, Open, Walk, Tick, TakeResult, TypeOK, frameVars, terminal, vars
  <2>2. CASE List
    BY <1>1, <2>2 DEF attempts, List, TypeOK, Nothing, Records, terminal
  <2>3. CASE ReadFile
    <3>1. Min(unread) \in Step
      BY <2>3, FirstFile DEF ReadFile, TypeOK
    <3>2. Parsed(record[Min(unread)]) \in Records
      BY <3>1 DEF TypeOK, Records, Parsed
    <3> QED
      BY <1>1, <2>3, <3>1, <3>2 DEF attempts, ReadFile, TypeOK, terminal
  <2>4. CASE Show
    BY <1>1, <2>4 DEF attempts, Show, TypeOK, frameVars
  <2>5. CASE Replay
    <3>1. printed' \in [Step -> Nat]
      BY <2>5 DEF Replay, TypeOK
    <3> QED
      BY <1>1, <2>5, <3>1 DEF attempts, Replay, TypeOK, frameVars
  <2> QED
    BY <2>1, <2>2, <2>3, <2>4, <2>5 DEF CommandStep, Command
<1> QED
  BY <1>2, <1>3, <1>4

(* Nothing new on the screen and no frame under way: what was shown stays  *)
(* true.                                                                   *)
LEMMA FrameInvBetweenFrames ==
    ASSUME RunInv, FrameInv, UNCHANGED <<edges, left, run, status, record, lost, read, shown>>,
           at' \notin {"read", "replay", "returned"}
    PROVE  FrameInv'
<1>1. \A s \in Step : Sources(s)' = Sources(s)
  BY DEF Sources
<1>2. EndsAreRecorded(read)' /\ EndsAreRecorded(shown)'
  BY DEF FrameInv, EndsAreRecorded
<1>3. EndsAreReread' /\ CausesAreRead' /\ FinalFrame'
  BY DEF EndsAreReread, CausesAreRead, FinalFrame
<1>4. EffectNotBeforeCause'
  BY <1>1 DEF FrameInv, EffectNotBeforeCause, Cause, ShownAs, EndedAs
<1> QED
  BY <1>2, <1>3, <1>4 DEF FrameInv

(* When the directory is listed, every record that is there is still to be *)
(* read, and so is the record of each of its causes.                       *)
LEMMA FrameInvWithList ==
    ASSUME RunInv, FrameInv, List
    PROVE  FrameInv'
<1>1. UNCHANGED <<edges, left, run, status, record, lost, shown, last>>
  BY DEF List, runVars, attempts, terminal
<1>2. /\ at' = "read" /\ unread' = {s \in Step : record[s] # "none"}
      /\ read' = [s \in Step |-> "none"]
  BY DEF List, Nothing
<1>3. \A s \in Step : Sources(s)' = Sources(s) /\ Sources(s) \subseteq Step
  BY <1>1 DEF Sources
<1>4. EndsAreRecorded(read)' /\ EndsAreRecorded(shown)'
  BY <1>1, <1>2 DEF FrameInv, EndsAreRecorded
<1>5. EndsAreReread'
  BY <1>1, <1>2 DEF FrameInv, EndsAreRecorded, EndsAreReread
<1>6. CausesAreRead'
  <2> SUFFICES ASSUME NEW t \in Step, left[t] = "none", record[t] # "none"
               PROVE  Cause(t, ToShow("SUCCEEDED"), ToShow("FAILED"))'
    BY <1>1, <1>2 DEF CausesAreRead
  <2>1. Executed(t)
    BY DEF RunInv, RecordsFollow, RecordOf, Before, Executed
  <2>2. Cause(t, EndedAs("SUCCEEDED"), EndedAs("FAILED"))
    BY <2>1 DEF RunInv, CausesFirst
  <2>3. \A r \in Step : status[r] \in {"SUCCEEDED", "FAILED"} => record[r] # "none"
    BY DEF RunInv, RecordsFollow, RecordOf
  <2>4. /\ EndedAs("SUCCEEDED") \subseteq ToShow("SUCCEEDED")'
        /\ EndedAs("FAILED") \subseteq ToShow("FAILED")'
    BY <1>1, <1>2, <2>3 DEF EndedAs, ToShow
  <2> QED
    BY <1>3, <2>2, <2>4 DEF Cause
<1>7. EffectNotBeforeCause'
  BY <1>1, <1>3 DEF FrameInv, EffectNotBeforeCause, Cause, ShownAs, EndedAs
<1>8. FinalFrame'
  BY <1>1, <1>2 DEF FinalFrame
<1> QED
  BY <1>4, <1>5, <1>6, <1>7, <1>8 DEF FrameInv

(* One file more is read: its record is an end only for good, and a source *)
(* that has succeeded is read as that.                                     *)
LEMMA FrameInvWithReadFile ==
    ASSUME RunInv, FrameInv, ReadFile
    PROVE  FrameInv'
<1>0. \E m \in unread : Min(unread) = m
  BY FirstFile DEF ReadFile, RunInv, TypeOK
<1> PICK m \in unread : Min(unread) = m
  BY <1>0
<1>1. UNCHANGED <<edges, left, run, status, record, lost, shown, last>> /\ at = "read" /\ at' = "read"
  BY DEF ReadFile, runVars, attempts, terminal
<1>2. unread' = unread \ {m} /\ read' = [read EXCEPT ![m] = Parsed(record[m])]
  BY DEF ReadFile
<1>3. \A s \in Step : Sources(s)' = Sources(s) /\ Sources(s) \subseteq Step
  BY <1>1 DEF Sources
<1>4. /\ m \in Step /\ read'[m] = Parsed(record[m])
      /\ \A s \in Step : s # m => read'[s] = read[s]
  BY <1>2 DEF RunInv, TypeOK
<1>5. EndsAreRecorded(read)' /\ EndsAreRecorded(shown)'
  BY <1>1, <1>4 DEF FrameInv, EndsAreRecorded, Parsed
<1>6. EndsAreReread'
  BY <1>1, <1>2, <1>4 DEF FrameInv, EndsAreRecorded, EndsAreReread, Parsed
<1>7. CausesAreRead'
  <2> SUFFICES ASSUME NEW t \in Step, left[t] = "none", t \in unread' \/ read'[t] # "none"
               PROVE  Cause(t, ToShow("SUCCEEDED"), ToShow("FAILED"))'
    BY <1>1 DEF CausesAreRead
  <2>1. t \in unread \/ read[t] # "none"
    BY <1>2, <1>4
  <2>2. Cause(t, ToShow("SUCCEEDED"), ToShow("FAILED"))
    BY <1>1, <2>1 DEF FrameInv, CausesAreRead
  <2>3. \A r \in Step : status[r] \in {"SUCCEEDED", "FAILED"} =>
            record[r] = IF r \in lost THEN "RUNNING" ELSE status[r]
    BY DEF RunInv, RecordsFollow, RecordOf
  <2>4. /\ ToShow("SUCCEEDED") \subseteq ToShow("SUCCEEDED")'
        /\ ToShow("FAILED") \subseteq ToShow("FAILED")'
    BY <1>1, <1>2, <1>4, <2>3 DEF EndedAs, ToShow, Parsed
  <2> QED
    BY <1>3, <2>2, <2>4 DEF Cause
<1>8. EffectNotBeforeCause'
  BY <1>1, <1>3 DEF FrameInv, EffectNotBeforeCause, Cause, ShownAs, EndedAs
<1>9. FinalFrame'
  <2> SUFFICES ASSUME last, run = "returned", NEW s \in Step
               PROVE  s \in unread' \/ read'[s] = record[s]
    BY <1>1 DEF FinalFrame
  <2>1. s \in unread \/ read[s] = record[s]
    BY <1>1 DEF FrameInv, FinalFrame
  <2>2. record[m] # "torn"
    BY <1>4 DEF RunInv, TypeOK, RunStages, RecordsFollow, RecordOf, Before, Final
  <2> QED
    BY <1>2, <1>4, <2>1, <2>2 DEF Parsed
<1> QED
  BY <1>5, <1>6, <1>7, <1>8, <1>9 DEF FrameInv

(* A complete frame is shown.                                              *)
LEMMA FrameInvWithShow ==
    ASSUME RunInv, FrameInv, Show
    PROVE  FrameInv'
<1>1. UNCHANGED <<edges, left, run, status, record, lost, last, unread, read>>
  BY DEF Show, runVars, attempts, frameVars
<1>2. /\ at = "read" /\ unread = {} /\ shown' = read
      /\ at' \in {"wait", "replay", "returned"}
  BY DEF Show
<1>3. \A s \in Step : Sources(s)' = Sources(s) /\ Sources(s) \subseteq Step
  BY <1>1 DEF Sources
<1>4. EndsAreRecorded(read)' /\ EndsAreRecorded(shown)'
  BY <1>1, <1>2 DEF FrameInv, EndsAreRecorded
<1>5. EndsAreReread' /\ CausesAreRead'
  BY <1>2 DEF EndsAreReread, CausesAreRead
<1>6. EffectNotBeforeCause'
  <2> SUFFICES ASSUME NEW t \in Step, left[t] = "none", read[t] # "none"
               PROVE  Cause(t, ShownAs("SUCCEEDED", shown), ShownAs("FAILED", shown))'
    BY <1>1, <1>2 DEF EffectNotBeforeCause
  <2>1. Cause(t, ToShow("SUCCEEDED"), ToShow("FAILED"))
    BY <1>2 DEF FrameInv, CausesAreRead
  <2>2. /\ ToShow("SUCCEEDED") \subseteq ShownAs("SUCCEEDED", shown)'
        /\ ToShow("FAILED") \subseteq ShownAs("FAILED", shown)'
    BY <1>1, <1>2 DEF ToShow, ShownAs, EndedAs
  <2> QED
    BY <1>3, <2>1, <2>2 DEF Cause
<1>7. FinalFrame'
  <2> SUFFICES ASSUME last, run = "returned"
               PROVE  read = record
    BY <1>1, <1>2 DEF FinalFrame
  <2>1. \A s \in Step : read[s] = record[s]
    BY <1>2 DEF FrameInv, FinalFrame
  <2> QED
    BY <2>1 DEF RunInv, TypeOK
<1> QED
  BY <1>4, <1>5, <1>6, <1>7 DEF FrameInv

LEMMA FrameInvWithReplay ==
    ASSUME RunInv, FrameInv, Replay
    PROVE  FrameInv'
<1>1. /\ UNCHANGED <<edges, left, run, status, record, lost, last, unread, read, shown>>
      /\ at = "replay" /\ at' = "returned"
  BY DEF Replay, runVars, attempts, frameVars
<1>2. \A s \in Step : Sources(s)' = Sources(s)
  BY <1>1 DEF Sources
<1>3. EndsAreRecorded(read)' /\ EndsAreRecorded(shown)'
  BY <1>1 DEF FrameInv, EndsAreRecorded
<1>4. EndsAreReread' /\ CausesAreRead' /\ FinalFrame'
  BY <1>1 DEF FrameInv, EndsAreReread, CausesAreRead, FinalFrame
<1>5. EffectNotBeforeCause'
  BY <1>1, <1>2 DEF FrameInv, EffectNotBeforeCause, Cause, ShownAs, EndedAs
<1> QED
  BY <1>3, <1>4, <1>5 DEF FrameInv

LEMMA FrameInvWithCommand ==
    ASSUME RunInv, FrameInv, CommandStep
    PROVE  FrameInv'
<1>1. CASE Open \/ Tick \/ TakeResult
  <2>1. /\ UNCHANGED <<edges, left, run, status, record, lost, read, shown>>
        /\ at' \notin {"read", "replay", "returned"}
    BY <1>1 DEF Open, Tick, TakeResult, runVars, attempts, frameVars, terminal
  <2> QED
    BY <2>1, FrameInvBetweenFrames
<1>2. CASE Walk
  <2>1. /\ UNCHANGED <<edges, left, run, status, record, lost, read, shown>>
        /\ at' \notin {"read", "replay", "returned"}
    BY <1>2 DEF Walk, Visit, runVars, attempts, frameVars, terminal
  <2> QED
    BY <2>1, FrameInvBetweenFrames
<1>3. CASE UNCHANGED vars
  <2>1. UNCHANGED <<edges, left, run, status, record, lost, last, unread, read, shown, at>>
    BY <1>3 DEF vars, runVars, attempts, frameVars, terminal
  <2>2. \A s \in Step : Sources(s)' = Sources(s)
    BY <2>1 DEF Sources
  <2>3. EffectNotBeforeCause' /\ CausesAreRead'
    BY <2>1, <2>2 DEF FrameInv, EffectNotBeforeCause, CausesAreRead, Cause, ShownAs, ToShow, EndedAs
  <2> QED
    BY <2>1, <2>3 DEF FrameInv, EndsAreRecorded, EndsAreReread, FinalFrame
<1> QED
  BY <1>1, <1>2, <1>3, FrameInvWithList, FrameInvWithReadFile, FrameInvWithShow, FrameInvWithReplay
     DEF CommandStep, Command

LEMMA OutputWithCommand ==
    ASSUME RunInv, OutputCounted, CommandStep
    PROVE  OutputCounted'
<1>1. UNCHANGED <<left, run, status, record, writing, lost, tty>>
  BY RunLeft DEF attempts
<1>2. Printing \subseteq Step
  BY StepsAssumption
<1>3. CASE Open
  BY <1>1, <1>3 DEF Open, OutputCounted, Succeeding, RunInv, TypeOK
<1>4. CASE Walk \/ List \/ ReadFile \/ Tick \/ TakeResult \/ UNCHANGED vars
  <2>1. /\ UNCHANGED <<screen, printed>>
        /\ at' = at \/ (at' \notin {"open", "returned"} /\ at # "returned")
    BY <1>4 DEF Walk, List, ReadFile, Tick, TakeResult, vars, terminal
  <2> QED
    BY <1>1, <2>1 DEF OutputCounted, Succeeding
<1>5. CASE Show
  BY <1>1, <1>5 DEF Show, OutputCounted, Succeeding, RunInv, TypeOK
<1>6. CASE Replay
  <2>1. /\ tty /\ at = "replay" /\ at' = "returned" /\ run = "returned" /\ screen' = screen
        /\ \A s \in Printing : printed'[s] = IF record[s] = "SUCCEEDED" THEN printed[s] + 1
                                             ELSE printed[s]
    BY <1>2, <1>6 DEF Replay, RunInv, RunStages, TypeOK
  <2>2. \A s \in Printing : /\ printed[s] \in {0, 1}
                            /\ ~Succeeding(s) => printed[s] = 0
    BY <2>1 DEF OutputCounted
  <2>3. \A s \in Printing : status[s] = "SUCCEEDED" =>
            record[s] = IF s \in lost THEN "RUNNING" ELSE "SUCCEEDED"
    BY <1>2 DEF RunInv, RecordsFollow, RecordOf
  <2>4. \A s \in Printing : status[s] # "SUCCEEDED" /\ left[s] = "none" =>
            record[s] # "SUCCEEDED" /\ ~Succeeding(s)
    BY <1>2, <2>1 DEF RunInv, RunStages, RecordsFollow, RecordOf, TypeOK, Final, Before, Succeeding
  <2> QED
    BY <1>1, <2>1, <2>2, <2>3, <2>4 DEF OutputCounted
<1> QED
  BY <1>3, <1>4, <1>5, <1>6 DEF CommandStep, Command

-----------------------------------------------------------------------------
(* All of it is an invariant of the run and the command together: records  *)
(* follow statuses, frames follow records, and outputs are counted.        *)
THEOREM FramesFollow == Spec => []IInv
<1>1. Init => IInv
  BY InitInv
<1>2. IInv /\ [Next]_vars => IInv'
  <2> SUFFICES ASSUME IInv, [Next]_vars PROVE IInv'
    OBVIOUS
  <2>1. CASE RunStep
    BY <2>1, RunInvKept, FrameInvWhileRunning, OutputWhileRunning DEF IInv
  <2>2. CASE CommandStep
    BY <2>2, RunInvWithCommand, FrameInvWithCommand, OutputWithCommand DEF IInv
  <2> QED
    BY <2>1, <2>2 DEF Next, RunStep, Goroutine, CommandStep, Terminated
<1> QED
  BY <1>1, <1>2, PTL DEF Spec

(* The final view tells the truth of every step, given what the run could  *)
(* write to its record: it has been drawn from the records of a run that   *)
(* had returned.                                                           *)
THEOREM FinalViewIsTrue == Spec => []FinalViewTrue
<1>1. IInv => FinalViewTrue
  <2> SUFFICES ASSUME IInv, at = "returned", run = "returned", NEW s \in Step
               PROVE  /\ status[s] # "SKIPPED" =>
                           shown[s] = IF s \in lost THEN "RUNNING" ELSE status[s]
                      /\ status[s] = "SKIPPED" =>
                           shown[s] = IF s \in retried THEN "RUNNING" ELSE left[s]
    BY DEF FinalViewTrue
  <2>1. shown = record
    BY DEF IInv, RunInv, RunStages, FrameInv, FinalFrame
  <2>2. status[s] \in Final /\ writing[s] = "none"
    BY DEF IInv, RunInv, RunStages, RecordsFollow, RecordOf, Final
  <2> QED
    BY <2>1, <2>2 DEF IInv, RunInv, RecordsFollow, RecordOf, Before, Final
<1> QED
  BY <1>1, FramesFollow, PTL

(* No frame shows an effect without its cause.                             *)
THEOREM CausesAreShown == Spec => []EffectNotBeforeCause
<1>1. IInv => EffectNotBeforeCause
  BY DEF IInv, FrameInv
<1> QED
  BY <1>1, FramesFollow, PTL

(* The switch to the alternate screen loses no output and the replay       *)
(* invents none.                                                           *)
THEOREM OutputIsKept == Spec => []OutputKept
<1>1. IInv => OutputKept
  <2> SUFFICES ASSUME IInv, at = "returned", NEW s \in Printing
               PROVE  /\ status[s] = "SUCCEEDED" =>
                           printed[s] \in IF ~tty THEN {1} ELSE IF s \in lost THEN {0, 1} ELSE {1, 2}
                      /\ status[s] # "SUCCEEDED" /\ left[s] = "none" => printed[s] = 0
    BY DEF OutputKept
  <2>1. s \in Step
    BY StepsAssumption
  <2>2. writing[s] = "none"
    BY <2>1 DEF IInv, RunInv, RunStages, RecordsFollow, RecordOf, Final
  <2> QED
    BY <2>1, <2>2 DEF IInv, OutputCounted, Succeeding
<1> QED
  BY <1>1, FramesFollow, PTL

(* A step whose end has been shown is shown so in every later frame.       *)
THEOREM EndsStayShown == Spec => EndedStaysEnded
<1>1. IInv /\ [Next]_vars =>
        [\A s \in Step : left[s] = "none" /\ shown[s] \in {"SUCCEEDED", "FAILED"} =>
             shown'[s] = shown[s]]_vars
  <2> SUFFICES ASSUME IInv, Next, NEW s \in Step, left[s] = "none",
                      shown[s] \in {"SUCCEEDED", "FAILED"}
               PROVE  shown'[s] = shown[s]
    OBVIOUS
  <2>1. CASE Show
    BY <2>1 DEF Show, IInv, FrameInv, EndsAreReread
  <2>2. CASE ~Show
    BY <2>2, FrameLeft DEF Next, Command, RunStep, Goroutine, Open, Walk, List, ReadFile, Replay, Tick,
       TakeResult, Terminated, vars, terminal
  <2> QED
    BY <2>1, <2>2
<1> QED
  BY <1>1, FramesFollow, PTL DEF Spec, EndedStaysEnded

-----------------------------------------------------------------------------
(* Each frame is a walk of its own over the same edges.                    *)
LEMMA WalkInvAlways == Spec => []WalkInv
<1>1. Init => WalkInv
  BY StartWalkInv DEF Init
<1>2. WalkInv /\ [Next]_vars => WalkInv'
  <2> SUFFICES ASSUME WalkInv, [Next]_vars PROVE WalkInv'
    OBVIOUS
  <2>1. CASE Walk
    BY <2>1, VisitInv DEF Walk
  <2>2. CASE Tick \/ TakeResult
    BY <2>2, RestartWalkInv DEF Tick, TakeResult
  <2>3. CASE ~Walk /\ ~Tick /\ ~TakeResult
    <3>1. UNCHANGED <<edges, walkVars>>
      BY <2>3 DEF Next, Command, Open, List, ReadFile, Show, Replay, Terminated, vars,
                  StoreInit, SkipPending, Return, Release, Start, Skip, SnapshotFails, WriteRecord,
                  BadInput, Retry, Retrying, GiveUp, GiveUpUnsaved, Succeed, SucceedUnsaved,
                  Running, Ready, Executing
    <3> QED
      BY <3>1, SameWalk
  <2> QED
    BY <2>1, <2>2, <2>3
<1> QED
  BY <1>1, <1>2, PTL DEF Spec

(* Every stage that is drawn is right, for every workflow file, cyclic or  *)
(* not: the levels of a finished walk are the lengths of the longest ways, *)
(* and the names without one are those that a cycle reaches.               *)
THEOREM StagesAreTrue == Spec => []StagesAreDepths
BY WalkInvAlways, WalkEndsInDepths, PTL

=============================================================================
