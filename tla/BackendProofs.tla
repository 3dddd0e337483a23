--------------------------- MODULE BackendProofs ---------------------------
(***************************************************************************)
(* Proofs about Backend, for every workflow, every number of requests and  *)
(* a death of the process at any point: what a run takes over is true, and *)
(* its context holds no output that is out of date.                        *)
(***************************************************************************)
EXTENDS Backend, SequenceTheorems, TLAPS

Value == {"none", "RUNNING", "SUCCEEDED", "FAILED"}
Point == {"none", "exec", "record", "publish", "context", "finish"}

(* The part of TypeOK that the argument needs.                             *)
Types ==
    /\ runs \in Seq(Directory)
    /\ phase \in {"idle", "mkdir", "init", "running"}
    /\ phase \in {"init", "running"} => Len(runs) > 0
    /\ seeds \subseteq Step /\ (seeds # {} => Len(runs) > 0)
    /\ status \in Statuses /\ taken \in [Step -> BranchName] /\ memory \in Counts
    /\ at \in [Step -> Point]
    /\ executed \in Counts
    /\ success \in [Step -> [run : Nat, branch : BranchName, output : Nat]]

(***************************************************************************)
(* What the newest directory says of a step that it calls SUCCEEDED.       *)
(***************************************************************************)
DirSound(s) ==
    Len(runs) > 0 /\ Current.record[s] = "SUCCEEDED" =>
        /\ success[s].run = Len(runs)
        /\ Current.branch[s] = success[s].branch
        /\ Current.context[s] \in {0, success[s].output}

SeedSound(s) ==
    s \in seeds =>
        /\ phase # "idle"
        /\ success[s].run = IF phase = "mkdir" THEN Len(runs) ELSE Len(runs) - 1
        /\ taken[s] = success[s].branch
        /\ memory[s] \in {0, success[s].output}
        /\ phase = "running" => status[s] = "SUCCEEDED"

MemorySound(s) ==
    memory[s] # 0 =>
        /\ s \in seeds \/ (phase = "running" /\ success[s].run = Len(runs))
        /\ memory[s] = success[s].output

(* A step has no output before its UpdateContext, and what context.json    *)
(* holds of it is in memory too.                                           *)
CallSound(s) ==
    /\ at[s] # "none" => phase = "running" /\ status[s] = "RUNNING"
    /\ phase = "running" /\ status[s] \in {"PENDING", "READY"} => memory[s] = 0
    /\ at[s] \in {"exec", "record", "publish"} => memory[s] = 0
    /\ at[s] \in {"record", "publish", "context", "finish"} =>
          success[s].run = Len(runs) /\ taken[s] = success[s].branch
    /\ at[s] = "exec" => Current.record[s] # "SUCCEEDED"
    /\ phase = "init" => Current.record[s] = "none" /\ Current.context[s] = 0
    /\ phase = "running" /\ Current.context[s] # 0 => Current.context[s] = memory[s]

StepSound(s) == DirSound(s) /\ SeedSound(s) /\ MemorySound(s) /\ CallSound(s)

IInv == Types /\ \A s \in Step : StepSound(s)

DirOf(s) == <<Current.record[s], Current.branch[s], Current.context[s]>>

(* A step is as sound as before when nothing of its own has changed.       *)
LEMMA StepKept ==
    ASSUME NEW r \in Step, StepSound(r), UNCHANGED <<phase, seeds>>, Len(runs') = Len(runs),
           DirOf(r)' = DirOf(r), status'[r] = status[r], taken'[r] = taken[r],
           memory'[r] = memory[r], at'[r] = at[r], success'[r] = success[r]
    PROVE  StepSound(r)'
  BY DEF StepSound, DirSound, SeedSound, MemorySound, CallSound, DirOf

LEMMA CurrentType ==
    ASSUME Types, Len(runs) > 0
    PROVE  Current \in Directory
  BY LenProperties, ElementOfSeq DEF Types, Current

(* A change of the newest directory. *)
LEMMA DirChange ==
    ASSUME Types, Len(runs) > 0, NEW d \in Directory, runs' = [runs EXCEPT ![Len(runs)] = d]
    PROVE  runs' \in Seq(Directory) /\ Len(runs') = Len(runs) /\ Current' = d
<1>1. runs' \in Seq(Directory) /\ Len(runs') = Len(runs)
  BY ExceptSeq DEF Types
<1>2. Len(runs) \in DOMAIN runs
  BY LenProperties DEF Types
<1> QED
  BY <1>1, <1>2 DEF Current

LEMMA RecordChange ==
    ASSUME Types, Len(runs) > 0, NEW s \in Step, NEW v \in Value, Record(s, v)
    PROVE  /\ runs' \in Seq(Directory) /\ Len(runs') = Len(runs)
           /\ Current'.record[s] = v /\ Current'.context[s] = Current.context[s]
           /\ \A r \in Step \ {s} : DirOf(r)' = DirOf(r)
<1> DEFINE d == [Current EXCEPT !.record[s] = v]
<1>1. Current \in Directory
  BY CurrentType
<1>2. d \in Directory
  BY <1>1 DEF Directory, Value
<1>3. runs' = [runs EXCEPT ![Len(runs)] = d]
  BY DEF Record, Current
<1>4. runs' \in Seq(Directory) /\ Len(runs') = Len(runs) /\ Current' = d
  BY <1>2, <1>3, DirChange
<1> QED
  BY <1>1, <1>4 DEF Directory, DirOf

(* What a step of s alone leaves to be shown. *)
OthersKept(s) ==
    /\ UNCHANGED <<phase, seeds>> /\ Len(runs') = Len(runs)
    /\ \A r \in Step \ {s} :
          /\ DirOf(r)' = DirOf(r) /\ status'[r] = status[r] /\ taken'[r] = taken[r]
          /\ memory'[r] = memory[r] /\ at'[r] = at[r] /\ success'[r] = success[r]

LEMMA OwnStep ==
    ASSUME IInv, NEW s \in Step, OthersKept(s), Types', StepSound(s)'
    PROVE  IInv'
  BY StepKept DEF IInv, OthersKept

(* A step that leaves the directories alone. *)
LEMMA SameRuns ==
    ASSUME UNCHANGED runs
    PROVE  Len(runs') = Len(runs) /\ \A r \in Step : DirOf(r)' = DirOf(r)
  BY DEF DirOf, Current

LEMMA CallStep ==
    ASSUME IInv, NEW s \in Step,
           \/ Release(s) \/ Skip(s) \/ SnapshotFails(s) \/ Start(s)
           \/ BadInput(s) \/ Retry(s) \/ Fail(s)
           \/ Succeed(s) \/ SucceedUnsaved(s) \/ SaveStep(s) \/ UpdateContext(s) \/ SaveContext(s) \/ Finish(s)
    PROVE  IInv'
<1> USE DEF IInv
<1>0. phase = "running" /\ Len(runs) > 0 /\ Types /\ StepSound(s) /\ Current \in Directory
  <2>1. phase = "running"
    BY DEF Release, Skip, SnapshotFails, Start, BadInput, Retry, Fail, RecordFailure,
         Succeed, SucceedUnsaved, SaveStep, UpdateContext,
           SaveContext, Finish
  <2> QED
    BY <2>1, CurrentType DEF Types
<1>1. UNCHANGED phase /\ UNCHANGED seeds
  BY DEF Release, Skip, SnapshotFails, Start, BadInput, Retry, Fail, RecordFailure,
         Succeed, SucceedUnsaved, SaveStep, UpdateContext,
         SaveContext, Finish, requestVars
<1>a. CASE Release(s) \/ Skip(s) \/ Retry(s) \/ Finish(s)
  <2>1. UNCHANGED <<runs, taken, memory, executed, success>>
    BY <1>a DEF Release, Skip, Retry, Finish, history
  <2>2. /\ \E v \in {"READY", "SKIPPED", "SUCCEEDED"} : status' = [status EXCEPT ![s] = v]
        /\ UNCHANGED at \/ at' = [at EXCEPT ![s] = "none"]
    BY <1>a DEF Release, Skip, Retry, Finish
  <2>3. Types'
    BY <1>0, <1>1, <2>1, <2>2 DEF Types, Statuses, Final, Point
  <2>4. OthersKept(s)
    BY <1>0, <1>1, <2>1, <2>2, SameRuns DEF OthersKept, Types, Statuses
  <2>5. /\ at[s] \in {"none", "exec", "finish"} /\ at'[s] = "none"
        /\ s \in seeds => status'[s] = "SUCCEEDED"
        /\ status'[s] \in {"PENDING", "READY"} => memory[s] = 0
    BY <1>0, <1>a, <2>2
    DEF Release, Skip, Retry, Finish, StepSound, SeedSound, CallSound, Types, Statuses, Point
  <2>6. DirOf(s)' = DirOf(s) /\ Len(runs') = Len(runs)
    BY <2>1, SameRuns
  <2>7. StepSound(s)'
    BY <1>0, <1>1, <2>1, <2>5, <2>6
    DEF StepSound, DirSound, SeedSound, MemorySound, CallSound, DirOf
  <2> QED
    BY <2>3, <2>4, <2>7, OwnStep
<1>b. CASE Start(s) \/ SnapshotFails(s) \/ BadInput(s) \/ Fail(s)
  <2>1. UNCHANGED <<taken, memory, executed, success>>
    BY <1>b DEF Start, SnapshotFails, BadInput, Fail, history
  <2>2. /\ UNCHANGED status \/ \E v \in {"RUNNING", "FAILED"} : status' = [status EXCEPT ![s] = v]
        /\ UNCHANGED at \/ \E p \in {"none", "exec"} : at' = [at EXCEPT ![s] = p]
    BY <1>b DEF Start, SnapshotFails, BadInput, Fail
  <2>3. UNCHANGED runs \/ \E v \in {"RUNNING", "FAILED"} : Record(s, v)
    BY <1>b DEF Start, SnapshotFails, BadInput, Fail, RecordFailure
  <2>4. /\ runs' \in Seq(Directory) /\ Len(runs') = Len(runs)
        /\ Current'.record[s] = "SUCCEEDED" => Current' = Current
        /\ Current'.context[s] = Current.context[s]
        /\ \A r \in Step \ {s} : DirOf(r)' = DirOf(r)
    <3>1. CASE UNCHANGED runs
      BY <1>0, <3>1, SameRuns DEF Types, Current
    <3>2. ASSUME NEW v \in {"RUNNING", "FAILED"}, Record(s, v)
          PROVE  /\ runs' \in Seq(Directory) /\ Len(runs') = Len(runs)
                 /\ Current'.record[s] = v /\ Current'.context[s] = Current.context[s]
                 /\ \A r \in Step \ {s} : DirOf(r)' = DirOf(r)
      BY <1>0, <3>2, RecordChange DEF Value
    <3> QED
      BY <2>3, <3>1, <3>2
  <2>5. Types'
    BY <1>0, <1>1, <2>1, <2>2, <2>4 DEF Types, Statuses, Final, Point
  <2>6. OthersKept(s)
    BY <1>0, <1>1, <2>1, <2>2, <2>4 DEF OthersKept, Types, Statuses
  <2>7. /\ s \notin seeds /\ status'[s] \in {"RUNNING", "FAILED"}
        /\ at'[s] \in {"none", "exec"} /\ memory[s] = 0
        /\ at'[s] = "exec" => status'[s] = "RUNNING"
    BY <1>0, <1>b
    DEF Start, SnapshotFails, BadInput, Fail, StepSound, SeedSound, CallSound, Types, Statuses
  <2>9. at'[s] = "exec" => Current'.record[s] # "SUCCEEDED"
    <3>1. CASE Start(s)
      <4>1. Record(s, "RUNNING")
        BY <3>1 DEF Start
      <4> QED
        BY <1>0, <4>1, RecordChange DEF Value
    <3>2. CASE SnapshotFails(s) \/ BadInput(s) \/ Fail(s)
      BY <1>0, <3>2 DEF SnapshotFails, BadInput, Fail, Types, StepSound, CallSound
    <3> QED
      BY <1>b, <3>1, <3>2
  <2>8. StepSound(s)'
    BY <1>0, <1>1, <2>1, <2>4, <2>7, <2>9
    DEF StepSound, DirSound, SeedSound, MemorySound, CallSound
  <2> QED
    BY <2>5, <2>6, <2>8, OwnStep
<1>c. CASE Succeed(s)
  <2>1. PICK b \in Branches[s] :
           /\ taken' = [taken EXCEPT ![s] = b]
           /\ success' = [success EXCEPT ![s] =
                 [run |-> Len(runs), branch |-> b, output |-> executed[s] + 1]]
    BY <1>c DEF Succeed
  <2>2. /\ UNCHANGED <<status, memory>> /\ at[s] = "exec" /\ at' = [at EXCEPT ![s] = "record"]
        /\ executed' = [executed EXCEPT ![s] = @ + 1] /\ Record(s, "none")
    BY <1>c DEF Succeed
  <2>3. /\ runs' \in Seq(Directory) /\ Len(runs') = Len(runs)
        /\ Current'.record[s] = "none" /\ Current'.context[s] = Current.context[s]
        /\ \A r \in Step \ {s} : DirOf(r)' = DirOf(r)
    BY <1>0, <2>2, RecordChange DEF Value
  <2>4. b \in BranchName /\ executed[s] + 1 \in Nat /\ Len(runs) \in Nat
    BY <1>0, BranchesAssumption, LenProperties DEF Types, Counts
  <2>5. success' \in [Step -> [run : Nat, branch : BranchName, output : Nat]]
    BY <1>0, <2>1, <2>4 DEF Types
  <2>6. Types'
    BY <1>0, <1>1, <2>1, <2>2, <2>3, <2>4, <2>5 DEF Types, Statuses, Counts, Point
  <2>7. OthersKept(s)
    BY <1>0, <1>1, <2>1, <2>2, <2>3 DEF OthersKept, Types
  <2>8. s \notin seeds /\ memory[s] = 0 /\ status[s] = "RUNNING"
    BY <1>0, <2>2 DEF StepSound, SeedSound, CallSound
  <2>9. /\ success'[s].run = Len(runs) /\ success'[s].branch = b /\ taken'[s] = b
        /\ at'[s] = "record"
    BY <1>0, <2>1, <2>2 DEF Types
  <2>10. StepSound(s)'
    BY <1>0, <1>1, <2>2, <2>3, <2>8, <2>9
    DEF StepSound, DirSound, SeedSound, MemorySound, CallSound
  <2> QED
    BY <2>6, <2>7, <2>10, OwnStep
<1>u. CASE SucceedUnsaved(s)
  <2>1. PICK b \in Branches[s] :
           /\ taken' = [taken EXCEPT ![s] = b]
           /\ success' = [success EXCEPT ![s] =
                 [run |-> Len(runs), branch |-> b, output |-> executed[s] + 1]]
    BY <1>u DEF SucceedUnsaved
  <2>2. /\ UNCHANGED <<runs, status, memory>> /\ at[s] = "exec"
        /\ at' = [at EXCEPT ![s] = "publish"] /\ executed' = [executed EXCEPT ![s] = @ + 1]
    BY <1>u DEF SucceedUnsaved
  <2>3. Len(runs') = Len(runs) /\ Current' = Current /\ \A r \in Step : DirOf(r)' = DirOf(r)
    BY <2>2, SameRuns DEF Current
  <2>4. b \in BranchName /\ executed[s] + 1 \in Nat /\ Len(runs) \in Nat
    BY <1>0, BranchesAssumption, LenProperties DEF Types, Counts
  <2>5. success' \in [Step -> [run : Nat, branch : BranchName, output : Nat]]
    BY <1>0, <2>1, <2>4 DEF Types
  <2>6. Types'
    BY <1>0, <1>1, <2>1, <2>2, <2>4, <2>5 DEF Types, Statuses, Counts, Point
  <2>7. OthersKept(s)
    BY <1>0, <1>1, <2>1, <2>2, <2>3 DEF OthersKept, Types
  <2>8. s \notin seeds /\ memory[s] = 0 /\ status[s] = "RUNNING"
    BY <1>0, <2>2 DEF StepSound, SeedSound, CallSound
  <2>9. /\ success'[s].run = Len(runs) /\ success'[s].branch = b /\ taken'[s] = b
        /\ at'[s] = "publish"
    BY <1>0, <2>1, <2>2 DEF Types
  <2>10. StepSound(s)'
    <3>1. Current.record[s] # "SUCCEEDED"
      BY <1>0, <2>2 DEF StepSound, CallSound
    <3> QED
      BY <1>0, <1>1, <2>2, <2>3, <2>8, <2>9, <3>1
      DEF StepSound, DirSound, SeedSound, MemorySound, CallSound
  <2> QED
    BY <2>6, <2>7, <2>10, OwnStep
<1>d. CASE SaveStep(s)
  <2>1. /\ UNCHANGED <<status, taken, memory, executed, success>>
        /\ at[s] = "record" /\ at' = [at EXCEPT ![s] = "publish"]
    BY <1>d DEF SaveStep, history
  <2> DEFINE d == [Current EXCEPT !.record[s] = "SUCCEEDED", !.branch[s] = taken[s]]
  <2>2. d \in Directory
    BY <1>0 DEF Directory, Types
  <2>3. runs' = [runs EXCEPT ![Len(runs)] = d]
    BY <1>0, <1>d DEF SaveStep, Current, Types
  <2>4. runs' \in Seq(Directory) /\ Len(runs') = Len(runs) /\ Current' = d
    BY <1>0, <2>2, <2>3, DirChange
  <2>5. /\ Current'.branch[s] = taken[s] /\ Current'.context[s] = Current.context[s]
        /\ \A r \in Step \ {s} : DirOf(r)' = DirOf(r)
    BY <1>0, <2>4 DEF Directory, DirOf
  <2>6. Types'
    BY <1>0, <1>1, <2>1, <2>4 DEF Types, Point
  <2>7. OthersKept(s)
    BY <1>0, <1>1, <2>1, <2>4, <2>5 DEF OthersKept, Types
  <2>8. at'[s] = "publish"
    BY <1>0, <2>1 DEF Types
  <2>9. StepSound(s)'
    BY <1>0, <1>1, <2>1, <2>4, <2>5, <2>8
    DEF StepSound, DirSound, SeedSound, MemorySound, CallSound
  <2> QED
    BY <2>6, <2>7, <2>9, OwnStep
<1>e. CASE UpdateContext(s)
  <2>1. /\ UNCHANGED <<status, taken, executed, success>> /\ at[s] = "publish"
        /\ \E p \in {"context", "finish"} : at' = [at EXCEPT ![s] = p]
        /\ memory' = [memory EXCEPT ![s] = success[s].output]
        /\ UNCHANGED runs \/ runs' = [runs EXCEPT ![Len(runs)].readable = FALSE]
    BY <1>e DEF UpdateContext, history
  <2>2. PICK d \in Directory : /\ runs' = [runs EXCEPT ![Len(runs)] = d]
                               /\ d.record = Current.record /\ d.branch = Current.branch
                               /\ d.context = Current.context
    <3>1. CASE UNCHANGED runs
      <4>1. runs = [runs EXCEPT ![Len(runs)] = Current]
        BY <1>0, LenProperties DEF Types, Current
      <4> QED
        BY <1>0, <3>1, <4>1
    <3>2. CASE runs' = [runs EXCEPT ![Len(runs)].readable = FALSE]
      <4> DEFINE d == [Current EXCEPT !.readable = FALSE]
      <4>1. runs' = [runs EXCEPT ![Len(runs)] = d]
        BY <3>2 DEF Current
      <4>2. /\ d \in Directory /\ d.record = Current.record /\ d.branch = Current.branch
            /\ d.context = Current.context
        BY <1>0 DEF Directory
      <4> QED
        BY <4>1, <4>2
    <3> QED
      BY <2>1, <3>1, <3>2
  <2>4. runs' \in Seq(Directory) /\ Len(runs') = Len(runs) /\ Current' = d
    BY <1>0, <2>2, DirChange
  <2>5. \A r \in Step : DirOf(r)' = DirOf(r)
    BY <2>2, <2>4 DEF DirOf
  <2>6. success[s].output \in Nat
    BY <1>0 DEF Types
  <2>7. Types'
    BY <1>0, <1>1, <2>1, <2>4, <2>6 DEF Types, Counts, Point
  <2>8. OthersKept(s)
    BY <1>0, <1>1, <2>1, <2>4, <2>5 DEF OthersKept, Types, Counts
  <2>9. at'[s] \in {"context", "finish"} /\ memory'[s] = success[s].output
    BY <1>0, <2>1 DEF Types, Counts
  <2>10. s \notin seeds /\ success[s].run = Len(runs) /\ Current.context[s] = 0
    BY <1>0, <2>1 DEF StepSound, SeedSound, CallSound
  <2>11. StepSound(s)'
    BY <1>0, <1>1, <2>1, <2>4, <2>5, <2>9, <2>10
    DEF StepSound, DirSound, SeedSound, MemorySound, CallSound, DirOf
  <2> QED
    BY <2>7, <2>8, <2>11, OwnStep
<1>f. CASE SaveContext(s)
  <2>1. /\ UNCHANGED <<status, taken, memory, executed, success>>
        /\ at[s] = "context" /\ at' = [at EXCEPT ![s] = "finish"]
    BY <1>f DEF SaveContext, history
  <2> DEFINE d == [Current EXCEPT !.readable = TRUE, !.context = memory]
  <2>2. d \in Directory
    BY <1>0 DEF Directory, Types
  <2>3. runs' = [runs EXCEPT ![Len(runs)] = d]
    BY <1>f DEF SaveContext, Current
  <2>4. runs' \in Seq(Directory) /\ Len(runs') = Len(runs) /\ Current' = d
    BY <1>0, <2>2, <2>3, DirChange
  <2>5. Current'.record = Current.record /\ Current'.branch = Current.branch /\ Current'.context = memory
    BY <1>0, <2>4 DEF Directory
  <2>6. Types'
    BY <1>0, <1>1, <2>1, <2>4 DEF Types, Point
  <2>7. \A r \in Step \ {s} : at'[r] = at[r]
    BY <1>0, <2>1 DEF Types
  <2>8. at'[s] = "finish"
    BY <1>0, <2>1 DEF Types
  <2>9. ASSUME NEW r \in Step PROVE StepSound(r)'
    <3>1. StepSound(r) /\ (at'[r] = at[r] \/ r = s)
      BY <2>7
    <3>2. DirSound(r)'
      BY <1>0, <2>1, <2>4, <2>5, <3>1 DEF StepSound, DirSound, MemorySound
    <3>3. SeedSound(r)' /\ MemorySound(r)'
      BY <1>1, <2>1, <2>4, <3>1 DEF StepSound, SeedSound, MemorySound
    <3>4. CallSound(r)'
      BY <1>0, <1>1, <2>1, <2>4, <2>5, <2>8, <3>1 DEF StepSound, CallSound
    <3> QED
      BY <3>2, <3>3, <3>4 DEF StepSound
  <2> QED
    BY <2>6, <2>9
<1> QED
  BY <1>a, <1>b, <1>c, <1>u, <1>d, <1>e, <1>f

LEMMA IInvStep == IInv /\ [Next]_vars => IInv'
<1> SUFFICES ASSUME IInv, [Next]_vars PROVE IInv'
  OBVIOUS
<1> USE DEF IInv
<1>0. Len(runs) \in Nat /\ Zero \in Counts /\ Unbranched \in [Step -> BranchName]
  BY LenProperties, BranchAssumption DEF Types, Zero, Counts, Unbranched
<1>a. CASE Fresh
  <2>1. /\ phase = "idle" /\ phase' = "mkdir" /\ seeds' = {} /\ taken' = Unbranched
        /\ memory' = Zero /\ UNCHANGED <<runs, status, at, executed, success>>
    BY <1>a DEF Fresh, history
  <2>2. Types'
    BY <1>0, <2>1 DEF Types
  <2>3. \A r \in Step : StepSound(r)'
    BY <2>1, SameRuns
    DEF StepSound, DirSound, SeedSound, MemorySound, CallSound, Zero, Types, DirOf
  <2> QED
    BY <2>2, <2>3
<1>b. CASE Resume
  <2>1. /\ phase = "idle" /\ phase' = "mkdir" /\ Len(runs) > 0
        /\ seeds' = Succeeded(Current) /\ taken' = PriorBranches(Current)
        /\ memory' = PriorOutputs(Current) /\ UNCHANGED <<runs, status, at, executed, success>>
    BY <1>0, <1>b DEF Resume, history
  <2>2. Current \in Directory
    BY <2>1, CurrentType
  <2>3. Types'
    <3>1. taken' \in [Step -> BranchName]
      BY <2>1, <2>2, BranchAssumption DEF PriorBranches, Directory
    <3>2. memory' \in Counts
      BY <2>1, <2>2 DEF PriorOutputs, Directory, Counts
    <3> QED
      BY <2>1, <3>1, <3>2 DEF Types, Succeeded
  <2>4. ASSUME NEW r \in Step PROVE StepSound(r)'
    <3>1. StepSound(r) /\ DirOf(r)' = DirOf(r) /\ Len(runs') = Len(runs)
      BY <2>1, SameRuns
    <3>2. r \in seeds' <=> Current.record[r] = "SUCCEEDED"
      BY <2>1 DEF Succeeded
    <3>3. r \in seeds' => taken'[r] = Current.branch[r]
      BY <2>1 DEF PriorBranches, Succeeded
    <3>4. memory'[r] \in IF r \in seeds' THEN {0, Current.context[r]} ELSE {0}
      BY <2>1 DEF PriorOutputs, Succeeded
    <3> QED
      BY <2>1, <3>1, <3>2, <3>3, <3>4
      DEF StepSound, DirSound, SeedSound, MemorySound, CallSound, DirOf
  <2> QED
    BY <2>3, <2>4
<1>c. CASE MakeDir
  <2>1. /\ phase = "mkdir" /\ phase' = "init" /\ runs' = Append(runs, NewDir)
        /\ UNCHANGED <<seeds, status, taken, memory, at, executed, success>>
    BY <1>c DEF MakeDir, requestVars, stepVars, history
  <2>2. NewDir \in Directory
    BY <1>0 DEF NewDir, Directory, Quiet, Counts
  <2>3. /\ runs' \in Seq(Directory) /\ Len(runs') = Len(runs) + 1
        /\ Current' = NewDir
    BY <2>1, <2>2, AppendProperties DEF Types, Current
  <2>4. Types'
    BY <1>0, <2>1, <2>3 DEF Types
  <2>5. \A r \in Step : Current'.record[r] = "none" /\ Current'.context[r] = 0
    BY <2>3 DEF NewDir, Quiet, Zero
  <2>6. \A r \in Step : StepSound(r)'
    BY <1>0, <2>1, <2>3, <2>5 DEF StepSound, DirSound, SeedSound, MemorySound, CallSound
  <2> QED
    BY <2>4, <2>6
<1>d. CASE InitContext
  <2>1. /\ phase = "init" /\ phase' = "running" /\ Len(runs) > 0
        /\ UNCHANGED <<seeds, taken, memory, at, executed, success>>
        /\ status' = [s \in Step |-> IF s \in seeds THEN "SUCCEEDED"
                                     ELSE IF s \in Roots THEN "READY" ELSE "PENDING"]
    BY <1>d DEF InitContext, requestVars, history, Types
  <2> DEFINE d == [Current EXCEPT !.readable = TRUE, !.context = memory]
  <2>2. Current \in Directory
    BY <2>1, CurrentType
  <2>3. d \in Directory
    BY <2>2 DEF Directory, Types
  <2>4. runs' = [runs EXCEPT ![Len(runs)] = d]
    BY <1>d DEF InitContext, Current
  <2>5. runs' \in Seq(Directory) /\ Len(runs') = Len(runs) /\ Current' = d
    BY <2>1, <2>3, <2>4, DirChange
  <2>6. Current'.record = Current.record /\ Current'.context = memory
    BY <2>2, <2>5 DEF Directory
  <2>7. Types'
    BY <2>1, <2>5 DEF Types, Statuses, Final
  <2>8. \A r \in Step : StepSound(r)'
    BY <2>1, <2>5, <2>6 DEF StepSound, DirSound, SeedSound, MemorySound, CallSound
  <2> QED
    BY <2>7, <2>8
<1>e. CASE GiveUpPending
  <2>1. /\ UNCHANGED <<runs, phase, seeds, taken, memory, at, executed, success>>
        /\ status' = [s \in Step |-> IF status[s] = "PENDING" THEN "SKIPPED" ELSE status[s]]
    BY <1>e DEF GiveUpPending, requestVars, history
  <2>2. Types'
    BY <2>1 DEF Types, Statuses, Final
  <2>3. \A r \in Step : StepSound(r)'
    BY <2>1, SameRuns DEF StepSound, DirSound, SeedSound, MemorySound, CallSound, DirOf
  <2> QED
    BY <2>2, <2>3
<1>f. CASE Respond \/ Crash
  <2>1. /\ phase' = "idle" /\ seeds' = {} /\ taken' = Unbranched /\ memory' = Zero
        /\ at' = Quiet /\ status' = [s \in Step |-> "PENDING"]
        /\ UNCHANGED <<runs, executed, success>>
    BY <1>f DEF Respond, Crash, EndOfRun
  <2>2. Types'
    BY <1>0, <2>1 DEF Types, Statuses, Quiet, Point
  <2>3. \A r \in Step : StepSound(r)'
    BY <2>1, SameRuns
    DEF StepSound, DirSound, SeedSound, MemorySound, CallSound, DirOf, Zero, Quiet
  <2> QED
    BY <2>2, <2>3
<1>g. CASE UNCHANGED vars
  <2>1. UNCHANGED <<runs, phase, seeds, status, taken, memory, at, executed, success>>
    BY <1>g DEF vars, requestVars
  <2>2. Types'
    BY <2>1 DEF Types
  <2>3. \A r \in Step : StepSound(r)'
    BY <2>1, SameRuns, StepKept
  <2> QED
    BY <2>2, <2>3
<1> QED
  BY <1>a, <1>b, <1>c, <1>d, <1>e, <1>f, <1>g, CallStep DEF Next, Terminated

LEMMA IInvAlways == Spec => []IInv
<1>1. Init => IInv
  <2> SUFFICES ASSUME Init PROVE IInv
    OBVIOUS
  <2>1. runs = <<>> /\ runs \in Seq(Directory) /\ Len(runs) = 0
    BY EmptySeq DEF Init
  <2>2. success \in [Step -> [run : Nat, branch : BranchName, output : Nat]]
    BY BranchAssumption DEF Init
  <2>3. Types
    BY <2>1, <2>2, BranchAssumption
    DEF Init, Types, Statuses, Final, Unbranched, Zero, Counts, Quiet, Point
  <2>4. \A s \in Step : StepSound(s)
    BY <2>1 DEF Init, StepSound, DirSound, SeedSound, MemorySound, CallSound, Zero, Quiet
  <2> QED
    BY <2>3, <2>4 DEF IInv
<1> QED
  BY <1>1, IInvStep, PTL DEF Spec

(* However often and wherever the processes before it died, a resumed run  *)
(* takes over only what succeeded in the run before it, with the branch    *)
(* and, if there is one, the output of that success.                       *)
THEOREM SeedsAreSound == Spec => []SeedsSound
<1>1. IInv => SeedsSound
  BY DEF IInv, Types, StepSound, SeedSound, SeedsSound
<1> QED
  BY <1>1, IInvAlways, PTL

(* An output in the context is that of the last execution of its step, by  *)
(* this run or by the one it was taken over from.                          *)
THEOREM ContextIsFresh == Spec => []ContextFresh
<1>1. IInv => ContextFresh
  BY DEF IInv, StepSound, MemorySound, ContextFresh
<1> QED
  BY <1>1, IInvAlways, PTL

(***************************************************************************)
(* What the response is made of.  RecordSound: the record of a step and    *)
(* its status tell the same story, but for a step that was retried.        *)
(***************************************************************************)
Recording == {"publish", "context", "finish"}

RecordSound(s) ==
    /\ phase = "running" =>
           /\ s \in seeds => Current.record[s] = "none"
           /\ at[s] = "exec" => Current.record[s] = "RUNNING"
           /\ at[s] \in Recording \/ (s \notin seeds /\ status[s] = "SUCCEEDED") =>
                 Current.record[s] = IF s \in unrecorded THEN "RUNNING" ELSE "SUCCEEDED"
           /\ Current.record[s] = "SUCCEEDED" => at[s] \in Recording \/ status[s] = "SUCCEEDED"
           /\ Current.record[s] = "RUNNING" =>
                 \/ status[s] \in {"RUNNING", "FAILED"} \/ s \in unrecorded
                 \/ s \in again /\ status[s] \in {"READY", "SKIPPED"}
           /\ Current.record[s] = "FAILED" => status[s] \in {"RUNNING", "FAILED"}
           /\ s \in unrecorded => at[s] \in Recording \/ status[s] = "SUCCEEDED"
           /\ s \in unencodable => s \in unrecorded
    /\ phase # "running" => s \notin unrecorded /\ s \notin unencodable

(* Answers: a response is given to nobody while a request is served.       *)
Answers ==
    /\ resume \in BOOLEAN
    /\ again \subseteq Step /\ unrecorded \subseteq Step /\ unencodable \subseteq Step
    /\ response \in [status : {"none", "success", "failed"}, listed : Counts, outputs : Counts]
    /\ last \in Ends
    /\ phase # "idle" => response.status = "none"
    /\ ResponseTruthful /\ FailureHasReason

Inv2 == IInv /\ (\A s \in Step : RecordSound(s)) /\ Answers

LEMMA RecordKept ==
    ASSUME NEW r \in Step, RecordSound(r), UNCHANGED <<phase, seeds>>,
           Current'.record[r] = Current.record[r], status'[r] = status[r], at'[r] = at[r],
           r \in again' <=> r \in again, r \in unrecorded' <=> r \in unrecorded,
           r \in unencodable' <=> r \in unencodable
    PROVE  RecordSound(r)'
  BY DEF RecordSound

LEMMA RecordCallStep ==
    ASSUME IInv, NEW s \in Step, \A r \in Step : RecordSound(r),
           \/ Release(s) \/ Skip(s) \/ SnapshotFails(s) \/ Start(s)
           \/ BadInput(s) \/ Retry(s) \/ Fail(s)
           \/ Succeed(s) \/ SucceedUnsaved(s) \/ SaveStep(s) \/ UpdateContext(s) \/ SaveContext(s) \/ Finish(s)
    PROVE  \A r \in Step : RecordSound(r)'
<1>0. /\ phase = "running" /\ phase' = phase /\ seeds' = seeds
      /\ Types /\ StepSound(s) /\ RecordSound(s) /\ Len(runs) > 0 /\ Current \in Directory
  <2>1. phase = "running" /\ phase' = phase /\ seeds' = seeds
    BY DEF Release, Skip, SnapshotFails, Start, BadInput, Retry, Fail, RecordFailure,
         Succeed, SucceedUnsaved, SaveStep, UpdateContext,
           SaveContext, Finish, requestVars
  <2> QED
    BY <2>1, CurrentType DEF IInv, Types
<1>1. ASSUME \A r \in Step \ {s} : Current'.record[r] = Current.record[r],
             UNCHANGED status \/ \E v : status' = [status EXCEPT ![s] = v],
             UNCHANGED at \/ \E p : at' = [at EXCEPT ![s] = p],
             again' \in {again, again \cup {s}},
             unrecorded' \in {unrecorded, unrecorded \cup {s}},
             unencodable' \in {unencodable, unencodable \cup {s}}, RecordSound(s)'
      PROVE  \A r \in Step : RecordSound(r)'
  <2>1. \A r \in Step \ {s} :
           /\ status'[r] = status[r] /\ at'[r] = at[r] /\ (r \in again' <=> r \in again)
           /\ (r \in unrecorded' <=> r \in unrecorded)
           /\ (r \in unencodable' <=> r \in unencodable)
    BY <1>0, <1>1 DEF Types, Statuses
  <2> QED
    BY <1>0, <1>1, <2>1, RecordKept
<1>2. ASSUME NEW v \in Value, Record(s, v)
      PROVE  Current'.record[s] = v /\ \A r \in Step \ {s} : Current'.record[r] = Current.record[r]
  BY <1>0, <1>2, RecordChange DEF DirOf
<1>a. CASE Release(s)
  <2>1. /\ Current' = Current /\ UNCHANGED <<at, again, unrecorded, unencodable>>
        /\ status[s] = "PENDING" /\ status' = [status EXCEPT ![s] = "READY"]
    BY <1>a DEF Release, Current, attempts
  <2>2. status'[s] = "READY" /\ at[s] = "none" /\ s \notin seeds
    BY <1>0, <2>1 DEF Types, Statuses, StepSound, CallSound, SeedSound
  <2>3. RecordSound(s)'
    BY <1>0, <2>1, <2>2 DEF RecordSound, Recording
  <2> QED
    BY <1>1, <2>1, <2>3
<1>b. CASE Skip(s)
  <2>1. /\ Current' = Current /\ UNCHANGED <<at, again, unrecorded, unencodable>>
        /\ status[s] = "READY" /\ status' = [status EXCEPT ![s] = "SKIPPED"]
    BY <1>b DEF Skip, Current, attempts
  <2>2. status'[s] = "SKIPPED" /\ at[s] = "none" /\ s \notin seeds
    BY <1>0, <2>1 DEF Types, Statuses, StepSound, CallSound, SeedSound
  <2>3. RecordSound(s)'
    BY <1>0, <2>1, <2>2 DEF RecordSound, Recording
  <2> QED
    BY <1>1, <2>1, <2>3
<1>c. CASE Start(s)
  <2>1. /\ status[s] = "READY" /\ status' = [status EXCEPT ![s] = "RUNNING"]
        /\ at' = [at EXCEPT ![s] = "exec"] /\ UNCHANGED <<again, unrecorded, unencodable>> /\ Record(s, "RUNNING")
    BY <1>c DEF Start, attempts
  <2>2. status'[s] = "RUNNING" /\ at'[s] = "exec" /\ s \notin seeds
    BY <1>0, <2>1 DEF Types, Statuses, StepSound, SeedSound
  <2>3. Current'.record[s] = "RUNNING" /\ \A r \in Step \ {s} : Current'.record[r] = Current.record[r]
    BY <1>2, <2>1 DEF Value
  <2>4. RecordSound(s)'
    <3>1. s \notin unrecorded' /\ s \notin unencodable'
      BY <1>0, <2>1 DEF RecordSound, Recording, StepSound, CallSound
    <3> QED
      BY <1>0, <2>2, <2>3, <3>1 DEF RecordSound, Recording
  <2> QED
    BY <1>1, <2>1, <2>3, <2>4
<1>d. CASE SnapshotFails(s) \/ BadInput(s) \/ Fail(s)
  <2>1. /\ status[s] = "READY" \/ at[s] = "exec"
        /\ \/ status' = [status EXCEPT ![s] = "RUNNING"]
           \/ at[s] = "exec" /\ UNCHANGED status
           \/ status' = [status EXCEPT ![s] = "FAILED"]
        /\ UNCHANGED at \/ at' = [at EXCEPT ![s] = "none"]
        /\ at[s] = "exec" => at' = [at EXCEPT ![s] = "none"]
        /\ UNCHANGED <<again, unrecorded, unencodable>>
        /\ Record(s, "FAILED") \/ (at[s] = "exec" /\ UNCHANGED runs)
    <3>1. CASE SnapshotFails(s)
      <4>1. status[s] = "READY"
        BY <3>1 DEF SnapshotFails
      <4>2. at[s] = "none"
        BY <1>0, <4>1 DEF Types, StepSound, CallSound
      <4> QED
        BY <3>1, <4>1, <4>2 DEF SnapshotFails, attempts
    <3>2. CASE BadInput(s) \/ Fail(s)
      BY <3>2 DEF BadInput, Fail, RecordFailure, attempts
    <3> QED
      BY <1>d, <3>1, <3>2
  <2>2. /\ status'[s] \in {"RUNNING", "FAILED"} /\ at'[s] = "none" /\ s \notin seeds
        /\ at[s] \in {"none", "exec"} /\ status[s] # "SUCCEEDED"
    BY <1>0, <2>1 DEF Types, Statuses, StepSound, SeedSound, CallSound
  <2>3. /\ Current'.record[s] \in {"RUNNING", "FAILED"}
        /\ \A r \in Step \ {s} : Current'.record[r] = Current.record[r]
    <3>1. CASE Record(s, "FAILED")
      BY <1>2, <3>1 DEF Value
    <3>2. CASE at[s] = "exec" /\ UNCHANGED runs
      BY <1>0, <3>2 DEF RecordSound, Current
    <3> QED
      BY <2>1, <3>1, <3>2
  <2>4. RecordSound(s)'
    BY <1>0, <2>1, <2>2, <2>3 DEF RecordSound, Recording
  <2> QED
    BY <1>1, <2>1, <2>3, <2>4
<1>e. CASE Retry(s)
  <2>1. /\ Current' = Current /\ at[s] = "exec" /\ at' = [at EXCEPT ![s] = "none"]
        /\ status' = [status EXCEPT ![s] = "READY"] /\ again' = again \cup {s}
        /\ UNCHANGED <<unrecorded, unencodable>>
    BY <1>e DEF Retry, Current, attempts
  <2>2. status'[s] = "READY" /\ at'[s] = "none" /\ s \notin seeds /\ s \in again'
    BY <1>0, <2>1 DEF Types, Statuses, StepSound, CallSound, SeedSound
  <2>3. Current'.record[s] = "RUNNING"
    BY <1>0, <2>1 DEF RecordSound
  <2>4. RecordSound(s)'
    <3>1. s \notin unrecorded' /\ s \notin unencodable'
      BY <1>0, <2>1 DEF RecordSound, Recording, StepSound, CallSound
    <3> QED
      BY <1>0, <2>2, <2>3, <3>1 DEF RecordSound, Recording
  <2> QED
    BY <1>1, <2>1, <2>4
<1>f. CASE Succeed(s)
  <2>1. /\ at[s] = "exec" /\ UNCHANGED <<status, again, unrecorded, unencodable>>
        /\ at' = [at EXCEPT ![s] = "record"] /\ Record(s, "none")
    BY <1>f DEF Succeed, attempts
  <2>2. status[s] = "RUNNING" /\ at'[s] = "record" /\ s \notin seeds
    BY <1>0, <2>1 DEF Types, StepSound, CallSound, SeedSound
  <2>3. Current'.record[s] = "none" /\ \A r \in Step \ {s} : Current'.record[r] = Current.record[r]
    BY <1>2, <2>1 DEF Value
  <2>4. RecordSound(s)'
    BY <1>0, <2>1, <2>2, <2>3 DEF RecordSound, Recording
  <2> QED
    BY <1>1, <2>1, <2>3, <2>4
<1>u. CASE SucceedUnsaved(s)
  <2>1. /\ at[s] = "exec" /\ UNCHANGED <<status, again>> /\ Current' = Current
        /\ at' = [at EXCEPT ![s] = "publish"] /\ unrecorded' = unrecorded \cup {s}
        /\ unencodable' \in {unencodable, unencodable \cup {s}}
    BY <1>u DEF SucceedUnsaved, Current
  <2>2. status[s] = "RUNNING" /\ at'[s] = "publish" /\ s \notin seeds /\ s \in unrecorded'
    BY <1>0, <2>1 DEF Types, StepSound, CallSound, SeedSound
  <2>3. Current'.record[s] = "RUNNING"
    BY <1>0, <2>1 DEF RecordSound
  <2>4. RecordSound(s)'
    BY <1>0, <2>1, <2>2, <2>3 DEF RecordSound, Recording
  <2> QED
    BY <1>1, <2>1, <2>4
<1>g. CASE SaveStep(s)
  <2>1. /\ at[s] = "record" /\ UNCHANGED <<status, again, unrecorded, unencodable>> /\ at' = [at EXCEPT ![s] = "publish"]
    BY <1>g DEF SaveStep, attempts
  <2> DEFINE d == [Current EXCEPT !.record[s] = "SUCCEEDED", !.branch[s] = taken[s]]
  <2>2. d \in Directory
    BY <1>0 DEF Directory, Types
  <2>3. runs' = [runs EXCEPT ![Len(runs)] = d]
    BY <1>0, <1>g DEF SaveStep, Current, Types
  <2>4. Current' = d
    BY <1>0, <2>2, <2>3, DirChange
  <2>5. /\ Current'.record[s] = "SUCCEEDED"
        /\ \A r \in Step \ {s} : Current'.record[r] = Current.record[r]
    BY <1>0, <2>4 DEF Directory
  <2>6. status[s] = "RUNNING" /\ at'[s] = "publish" /\ s \notin seeds /\ s \notin unrecorded
    BY <1>0, <2>1 DEF Types, StepSound, CallSound, SeedSound, RecordSound, Recording
  <2>7. RecordSound(s)'
    BY <1>0, <2>1, <2>5, <2>6 DEF RecordSound, Recording
  <2> QED
    BY <1>1, <2>1, <2>5, <2>7
<1>h. CASE UpdateContext(s) \/ SaveContext(s)
  <2>1. /\ at[s] \in Recording /\ UNCHANGED <<status, again, unrecorded, unencodable>>
        /\ \E p \in {"context", "finish"} : at' = [at EXCEPT ![s] = p]
    BY <1>h DEF UpdateContext, SaveContext, Recording, attempts
  <2>2. PICK d \in Directory : runs' = [runs EXCEPT ![Len(runs)] = d] /\ d.record = Current.record
    <3>1. [Current EXCEPT !.readable = FALSE] \in Directory
          /\ [Current EXCEPT !.readable = FALSE].record = Current.record
      BY <1>0 DEF Directory
    <3>2. [Current EXCEPT !.readable = TRUE, !.context = memory] \in Directory
          /\ [Current EXCEPT !.readable = TRUE, !.context = memory].record = Current.record
      BY <1>0 DEF Directory, Types
    <3>3. CASE UpdateContext(s)
      <4>1. CASE UNCHANGED runs
        <5>1. runs = [runs EXCEPT ![Len(runs)] = Current]
          BY <1>0, LenProperties DEF Types, Current
        <5> QED
          BY <1>0, <4>1, <5>1
      <4>2. CASE runs' = [runs EXCEPT ![Len(runs)].readable = FALSE]
        BY <3>1, <4>2 DEF Current
      <4> QED
        BY <3>3, <4>1, <4>2 DEF UpdateContext
    <3>4. CASE SaveContext(s)
      BY <3>2, <3>4 DEF SaveContext, Current
    <3> QED
      BY <1>h, <3>3, <3>4
  <2>3. Current' = d
    BY <1>0, <2>2, DirChange
  <2>4. at'[s] \in Recording
    BY <1>0, <2>1 DEF Types, Recording
  <2>5. RecordSound(s)'
    BY <1>0, <2>1, <2>2, <2>3, <2>4 DEF RecordSound
  <2> QED
    BY <1>1, <2>1, <2>2, <2>3, <2>5
<1>i. CASE Finish(s)
  <2>1. /\ Current' = Current /\ at[s] = "finish" /\ at' = [at EXCEPT ![s] = "none"]
        /\ status' = [status EXCEPT ![s] = "SUCCEEDED"] /\ UNCHANGED <<again, unrecorded, unencodable>>
    BY <1>i DEF Finish, Current, attempts
  <2>2. status'[s] = "SUCCEEDED" /\ at'[s] = "none" /\ s \notin seeds
    BY <1>0, <2>1 DEF Types, Statuses, StepSound, CallSound, SeedSound
  <2>3. RecordSound(s)'
    BY <1>0, <2>1, <2>2 DEF RecordSound, Recording
  <2> QED
    BY <1>1, <2>1, <2>3
<1> QED
  BY <1>a, <1>b, <1>c, <1>d, <1>e, <1>f, <1>u, <1>g, <1>h, <1>i

LEMMA RecordStep ==
    ASSUME IInv, \A r \in Step : RecordSound(r), [Next]_vars
    PROVE  \A r \in Step : RecordSound(r)'
<1>a. CASE Fresh \/ Resume \/ MakeDir \/ Respond \/ Crash
  <2>1. \A r \in Step : r \notin unrecorded' /\ r \notin unencodable'
    BY <1>a DEF Fresh, Resume, MakeDir, Respond, Crash, EndOfRun, stepVars, attempts, RecordSound
  <2>2. phase' # "running"
    BY <1>a DEF Fresh, Resume, MakeDir, Respond, Crash, EndOfRun
  <2> QED
    BY <2>1, <2>2 DEF RecordSound
<1>b. CASE InitContext
  <2>1. /\ phase = "init" /\ Len(runs) > 0 /\ Types
        /\ UNCHANGED <<seeds, at, unrecorded, unencodable>>
        /\ status' = [s \in Step |-> IF s \in seeds THEN "SUCCEEDED"
                                     ELSE IF s \in Roots THEN "READY" ELSE "PENDING"]
    BY <1>b DEF InitContext, requestVars, attempts, IInv, Types
  <2> DEFINE d == [Current EXCEPT !.readable = TRUE, !.context = memory]
  <2>2. d \in Directory /\ d.record = Current.record
    BY <2>1, CurrentType DEF Directory, Types
  <2>3. runs' = [runs EXCEPT ![Len(runs)] = d]
    BY <1>b DEF InitContext, Current
  <2>4. Current' = d
    BY <2>1, <2>2, <2>3, DirChange
  <2>5. \A r \in Step : Current.record[r] = "none" /\ at[r] = "none"
    BY <2>1 DEF IInv, StepSound, CallSound
  <2> QED
    BY <2>1, <2>2, <2>4, <2>5 DEF RecordSound, Recording
<1>c. CASE GiveUpPending
  <2>1. /\ phase = "running" /\ UNCHANGED <<phase, seeds, at, again, unrecorded, unencodable>> /\ Current' = Current
        /\ status' = [s \in Step |-> IF status[s] = "PENDING" THEN "SKIPPED" ELSE status[s]]
    BY <1>c DEF GiveUpPending, requestVars, Current, attempts
  <2>2. ASSUME NEW r \in Step PROVE RecordSound(r)'
    <3>1. RecordSound(r) /\ StepSound(r)
      BY DEF IInv
    <3>2. status'[r] = IF status[r] = "PENDING" THEN "SKIPPED" ELSE status[r]
      BY <2>1
    <3>3. status[r] = "PENDING" => r \notin seeds /\ at[r] = "none"
      BY <2>1, <3>1 DEF StepSound, SeedSound, CallSound
    <3> QED
      BY <2>1, <3>1, <3>2, <3>3 DEF RecordSound, Recording
  <2> QED
    BY <2>2
<1>d. CASE UNCHANGED vars
  BY <1>d DEF vars, requestVars, attempts, RecordSound, Current
<1> QED
  BY <1>a, <1>b, <1>c, <1>d, RecordCallStep DEF Next, Terminated

(* The response of a run is right, given that its records are.             *)
LEMMA Responded ==
    ASSUME Inv2, Respond
    PROVE  ResponseTruthful' /\ FailureHasReason'
<1>1. /\ phase = "running" /\ Types /\ Current \in Directory
      /\ \A s \in Step : status[s] \in Final /\ at[s] = "none" /\ StepSound(s) /\ RecordSound(s)
  BY CurrentType DEF Respond, Inv2, IInv, Types
<1>2. /\ response' = [status |-> ResponseStatus, listed |-> Listed,
                      outputs |-> [s \in Step |-> IF s \in Declared THEN memory[s] ELSE 0]]
      /\ last' = [status |-> status, again |-> again, unrecorded |-> unrecorded,
                  unencodable |-> unencodable, resumed |-> seeds # {}, returned |-> TRUE]
      /\ success' = success
  BY <1>1 DEF Respond, EndOfRun
<1>3. /\ response'.status = ResponseStatus /\ response'.listed = Listed
      /\ \A s \in Declared : response'.outputs[s] = memory[s]
      /\ last'.status = status /\ last'.again = again /\ last'.unrecorded = unrecorded
  BY <1>2, DeclaredAssumption
<1>4. \A s \in Step : Current.record[s] \in {"none", "RUNNING", "SUCCEEDED", "FAILED"}
  BY <1>1 DEF Directory
<1>5. ASSUME ResponseStatus = "success", NEW s \in Step
      PROVE  /\ status[s] \in {"SUCCEEDED", "SKIPPED"}
             /\ Listed[s] = IF status[s] = "SUCCEEDED" THEN 1 ELSE 0
  <2>1. status[s] # "FAILED" /\ (s \in Recorded => Current.record[s] = "SUCCEEDED")
    BY <1>5 DEF ResponseStatus
  <2>2. status[s] \in {"SUCCEEDED", "SKIPPED"}
    BY <1>1, <2>1 DEF Final
  <2>3. s \in seeds => status[s] = "SUCCEEDED" /\ s \notin Recorded
    BY <1>1 DEF StepSound, SeedSound, RecordSound, Recorded
  <2>4. s \notin seeds => (s \in Recorded <=> status[s] = "SUCCEEDED")
    BY <1>1, <2>1 DEF RecordSound, Recorded, Recording
  <2> QED
    BY <2>2, <2>3, <2>4 DEF Listed
<1>6. ASSUME ResponseStatus = "success", NEW s \in Declared PROVE memory[s] = success[s].output
  BY <1>1, <1>6, DeclaredAssumption DEF ResponseStatus, StepSound, MemorySound
<1>7. ResponseTruthful'
  BY <1>2, <1>3, <1>5, <1>6 DEF ResponseTruthful
<1>8. ASSUME ResponseStatus = "failed"
      PROVE  \/ \E s \in Step : status[s] = "FAILED"
             \/ \E s \in Declared : memory[s] = 0
             \/ \E s \in again : status[s] = "SKIPPED"
             \/ unrecorded # {}
  <2>1. CASE \E s \in Recorded : Current.record[s] # "SUCCEEDED"
    <3>1. PICK s \in Step : Current.record[s] \in {"RUNNING", "FAILED"}
      BY <1>4, <2>1 DEF Recorded
    <3> QED
      BY <1>1, <3>1 DEF RecordSound, Final
  <2>2. CASE ~Encodable
    <3>1. PICK s \in unencodable : memory[s] # 0
      BY <2>2 DEF Encodable
    <3>2. s \in unrecorded
      BY <1>1, <3>1 DEF RecordSound, Inv2, Answers
    <3> QED
      BY <3>2
  <2> QED
    BY <1>8, <2>1, <2>2 DEF ResponseStatus
<1>9. FailureHasReason'
  BY <1>3, <1>8 DEF FailureHasReason
<1> QED
  BY <1>7, <1>9

LEMMA AnswersStep ==
    ASSUME Inv2, [Next]_vars
    PROVE  Answers'
<1>0. Answers /\ Types /\ phase \in {"idle", "mkdir", "init", "running"}
  BY DEF Inv2, IInv, Types
<1>1. ASSUME response' = NoAnswer PROVE
        /\ response' \in [status : {"none", "success", "failed"}, listed : Counts, outputs : Counts]
        /\ response'.status = "none" /\ ResponseTruthful' /\ FailureHasReason'
  BY <1>1 DEF NoAnswer, Counts, Zero, ResponseTruthful, FailureHasReason
<1>a. CASE Fresh \/ Resume
  <2>1. response' = NoAnswer /\ resume' \in BOOLEAN /\ UNCHANGED <<again, unrecorded, unencodable, last>>
    BY <1>a DEF Fresh, Resume, attempts, history
  <2> QED
    BY <1>0, <1>1, <2>1 DEF Answers
<1>b. ASSUME phase # "idle", UNCHANGED <<response, resume, last>>, again' \subseteq Step,
             unrecorded' \subseteq Step, unencodable' \subseteq Step
      PROVE  Answers'
  <2>1. response'.status = "none"
    BY <1>0, <1>b DEF Answers
  <2> QED
    BY <1>0, <1>b, <2>1 DEF Answers, ResponseTruthful, FailureHasReason
<1>c. CASE MakeDir \/ InitContext \/ GiveUpPending
  BY <1>0, <1>b, <1>c
  DEF MakeDir, InitContext, GiveUpPending, requestVars, stepVars, attempts, history, Answers
<1>d. ASSUME NEW s \in Step,
             \/ Release(s) \/ Skip(s) \/ SnapshotFails(s) \/ Start(s)
             \/ BadInput(s) \/ Retry(s) \/ Fail(s)
             \/ Succeed(s) \/ SucceedUnsaved(s) \/ SaveStep(s) \/ UpdateContext(s) \/ SaveContext(s) \/ Finish(s)
      PROVE  Answers'
  <2>1. phase = "running" /\ UNCHANGED <<response, resume, last>>
    BY <1>d DEF Release, Skip, SnapshotFails, Start, BadInput, Retry, Fail, RecordFailure,
         Succeed, SucceedUnsaved, SaveStep, UpdateContext,
                SaveContext, Finish, requestVars, history
  <2>2. /\ again' \in {again, again \cup {s}}
        /\ unrecorded' \in {unrecorded, unrecorded \cup {s}}
        /\ unencodable' \in {unencodable, unencodable \cup {s}}
    BY <1>d DEF Release, Skip, SnapshotFails, Start, BadInput, Retry, Fail, RecordFailure,
         Succeed, SucceedUnsaved, SaveStep, UpdateContext,
                SaveContext, Finish, attempts
  <2> QED
    BY <1>0, <1>b, <2>1, <2>2 DEF Answers
<1>e. CASE Crash
  <2>1. /\ phase # "idle" /\ phase' = "idle" /\ resume' = FALSE
        /\ again' = {} /\ unrecorded' = {} /\ unencodable' = {}
        /\ UNCHANGED response
        /\ last' \in {last, [status |-> status, again |-> {}, unrecorded |-> {},
                             unencodable |-> {}, resumed |-> seeds # {}, returned |-> FALSE]}
    BY <1>e DEF Crash, EndOfRun
  <2>2. response'.status = "none"
    BY <1>0, <2>1 DEF Answers
  <2>3. last' \in Ends
    <3>1. {} \in SUBSET Step /\ FALSE \in BOOLEAN /\ (seeds # {}) \in BOOLEAN
      OBVIOUS
    <3>2. [status |-> status, again |-> {}, unrecorded |-> {}, unencodable |-> {},
           resumed |-> seeds # {}, returned |-> FALSE] \in Ends
      BY <1>0, <3>1 DEF Types, Ends
    <3> QED
      BY <1>0, <2>1, <3>2 DEF Answers
  <2>4. /\ resume' \in BOOLEAN /\ again' \subseteq Step
        /\ unrecorded' \subseteq Step /\ unencodable' \subseteq Step
        /\ response' \in [status : {"none", "success", "failed"}, listed : Counts, outputs : Counts]
    BY <1>0, <2>1 DEF Answers
  <2>5. ResponseTruthful' /\ FailureHasReason'
    BY <2>2 DEF ResponseTruthful, FailureHasReason
  <2> QED
    BY <2>1, <2>2, <2>3, <2>4, <2>5 DEF Answers
<1>f. CASE Respond
  <2>1. /\ phase = "running" /\ phase' = "idle" /\ resume' = FALSE
        /\ again' = {} /\ unrecorded' = {} /\ unencodable' = {}
        /\ response' = [status |-> ResponseStatus, listed |-> Listed,
                        outputs |-> [s \in Step |-> IF s \in Declared THEN memory[s] ELSE 0]]
        /\ last' = [status |-> status, again |-> again, unrecorded |-> unrecorded,
                    unencodable |-> unencodable, resumed |-> seeds # {}, returned |-> TRUE]
    BY <1>f DEF Respond, EndOfRun
  <2>2. Listed \in Counts /\ ResponseStatus \in {"success", "failed"}
    BY DEF Listed, Counts, ResponseStatus
  <2>3. [s \in Step |-> IF s \in Declared THEN memory[s] ELSE 0] \in Counts
    BY <1>0 DEF Types, Counts
  <2>4. last' \in Ends
    BY <1>0, <2>1 DEF Answers, Types, Ends
  <2> QED
    BY <1>0, <1>f, <2>1, <2>2, <2>3, <2>4, Responded DEF Answers
<1>g. CASE UNCHANGED vars
  BY <1>0, <1>g DEF vars, requestVars, attempts, Answers, ResponseTruthful, FailureHasReason
<1> QED
  BY <1>a, <1>c, <1>d, <1>e, <1>f, <1>g DEF Next, Terminated

LEMMA Inv2Always == Spec => []Inv2
<1>1. Init /\ IInv => Inv2
  <2> SUFFICES ASSUME Init, IInv PROVE Inv2
    OBVIOUS
  <2>1. \A s \in Step : RecordSound(s)
    BY DEF Init, RecordSound
  <2>2. /\ response = NoAnswer /\ resume = FALSE /\ phase = "idle"
        /\ again = {} /\ unrecorded = {} /\ unencodable = {}
        /\ last = [status |-> [s \in Step |-> "PENDING"], again |-> {}, unrecorded |-> {},
                   unencodable |-> {}, resumed |-> FALSE, returned |-> FALSE]
    BY DEF Init
  <2>3. Answers
    BY <2>2
    DEF Answers, Ends, NoAnswer, Counts, Zero, Statuses, ResponseTruthful, FailureHasReason
  <2> QED
    BY <2>1, <2>3 DEF Inv2
<1>2. Inv2 /\ IInv' /\ [Next]_vars => Inv2'
  BY RecordStep, AnswersStep DEF Inv2
<1> QED
  BY <1>1, <1>2, IInvAlways, PTL DEF Spec

(* The state of the directories, the process and the history stays in its  *)
(* types.                                                                  *)
THEOREM TypeCorrect == Spec => []TypeOK
<1>1. Inv2 => TypeOK
  BY DEF Inv2, IInv, Types, Answers, TypeOK, Point
<1> QED
  BY <1>1, Inv2Always, PTL

(* A response of "success" is true: no step failed, each success of this   *)
(* run and each seed is listed once, and the declared outputs are those of *)
(* the last executions.                                                    *)
THEOREM ResponsesAreTrue == Spec => []ResponseTruthful
<1>1. Inv2 => ResponseTruthful
  BY DEF Inv2, Answers
<1> QED
  BY <1>1, Inv2Always, PTL

(* A response of "failed" has a step that failed, an output that is missing*)
(* or a step that was skipped after a retry, or a success whose record     *)
(* could not be written.                                                   *)
THEOREM FailuresHaveReasons == Spec => []FailureHasReason
<1>1. Inv2 => FailureHasReason
  BY DEF Inv2, Answers
<1> QED
  BY <1>1, Inv2Always, PTL

(***************************************************************************)
(* What the next run finds.  context.json is readable again whenever the   *)
(* mutex of the context is free, and it then has the output of every       *)
(* success that has gone past its SaveContext, if all could be encoded.    *)
(***************************************************************************)
ContextSaved(s) ==
    phase = "running" =>
        /\ at[s] = "context" => memory[s] = success[s].output
        /\ at[s] = "finish" \/ (s \notin seeds /\ status[s] = "SUCCEEDED") =>
              /\ memory[s] = success[s].output
              /\ unencodable = {} => Current.context[s] = success[s].output

ContextReadable ==
    phase = "running" => Current.readable \/ \E s \in Step : at[s] = "context"

(* The newest directory after a run that resumed nothing and has returned. *)
LastComplete ==
    phase \in {"idle", "mkdir"} /\ last.returned /\ ~last.resumed =>
        /\ Current.readable
        /\ \A s \in Step :
              /\ Current.record[s] = "SUCCEEDED" <=>
                    last.status[s] = "SUCCEEDED" /\ s \notin last.unrecorded
              /\ last.status[s] = "SUCCEEDED" /\ last.unencodable = {} =>
                    Current.context[s] = success[s].output

Inv3 == Inv2 /\ (\A s \in Step : ContextSaved(s)) /\ ContextReadable /\ LastComplete

LEMMA ContextUntouched ==
    ASSUME Types, Len(runs) > 0, NEW s \in Step, NEW v \in Value,
           \/ Record(s, v)
           \/ runs' = [runs EXCEPT ![Len(runs)].record[s] = v, ![Len(runs)].branch[s] = taken[s]]
    PROVE  Current'.context = Current.context /\ Current'.readable = Current.readable
<1>1. Current \in Directory
  BY CurrentType
<1>2. PICK d \in Directory : /\ runs' = [runs EXCEPT ![Len(runs)] = d]
                             /\ d.context = Current.context /\ d.readable = Current.readable
  <2>1. [Current EXCEPT !.record[s] = v] \in Directory
    BY <1>1 DEF Directory, Value
  <2>2. [Current EXCEPT !.record[s] = v, !.branch[s] = taken[s]] \in Directory
    BY <1>1 DEF Directory, Value, Types
  <2>3. CASE Record(s, v)
    BY <1>1, <2>1, <2>3 DEF Record, Current, Directory
  <2>4. CASE runs' = [runs EXCEPT ![Len(runs)].record[s] = v, ![Len(runs)].branch[s] = taken[s]]
    <3> DEFINE d == [Current EXCEPT !.record[s] = v, !.branch[s] = taken[s]]
    <3>1. runs' = [runs EXCEPT ![Len(runs)] = d]
      BY <1>1, <2>4 DEF Current
    <3>2. d.context = Current.context /\ d.readable = Current.readable
      BY <1>1 DEF Directory
    <3> QED
      BY <2>2, <3>1, <3>2
  <2> QED
    BY <2>3, <2>4
<1>3. Current' = d
  BY <1>2, DirChange
<1> QED
  BY <1>2, <1>3

(* What a step of s alone leaves to be shown of the context. *)
LEMMA ContextKept ==
    ASSUME NEW s \in Step, \A r \in Step : ContextSaved(r), ContextReadable,
           phase = "running", UNCHANGED <<phase, seeds, memory>>, Types,
           UNCHANGED runs \/ (/\ Current'.context = Current.context
                              /\ Current'.readable = Current.readable),
           UNCHANGED status \/ \E v : status' = [status EXCEPT ![s] = v],
           UNCHANGED at \/ \E p : at' = [at EXCEPT ![s] = p],
           at[s] # "context", unencodable' = {} => unencodable = {},
           \A r \in Step \ {s} : success'[r] = success[r],
           ContextSaved(s)'
    PROVE  (\A r \in Step : ContextSaved(r)') /\ ContextReadable'
<1>1. Current'.context = Current.context /\ Current'.readable = Current.readable
  BY DEF Current
<1>2. \A r \in Step \ {s} : status'[r] = status[r] /\ at'[r] = at[r]
  BY DEF Types, Statuses
<1>3. \A r \in Step \ {s} : ContextSaved(r)'
  BY <1>1, <1>2 DEF ContextSaved
<1>4. ContextReadable'
  BY <1>1, <1>2 DEF ContextReadable
<1> QED
  BY <1>3, <1>4

LEMMA ContextCallStep ==
    ASSUME IInv, NEW s \in Step, \A r \in Step : ContextSaved(r), ContextReadable,
           \/ Release(s) \/ Skip(s) \/ SnapshotFails(s) \/ Start(s)
           \/ BadInput(s) \/ Retry(s) \/ Fail(s)
           \/ Succeed(s) \/ SucceedUnsaved(s) \/ SaveStep(s) \/ UpdateContext(s) \/ SaveContext(s) \/ Finish(s)
    PROVE  (\A r \in Step : ContextSaved(r)') /\ ContextReadable'
<1>0. /\ phase = "running" /\ phase' = phase /\ seeds' = seeds
      /\ Types /\ StepSound(s) /\ ContextSaved(s) /\ Len(runs) > 0 /\ Current \in Directory
  <2>1. phase = "running" /\ phase' = phase /\ seeds' = seeds
    BY DEF Release, Skip, SnapshotFails, Start, BadInput, Retry, Fail, RecordFailure,
         Succeed, SucceedUnsaved, SaveStep, UpdateContext,
           SaveContext, Finish, requestVars
  <2> QED
    BY <2>1, CurrentType DEF IInv, Types
<1>a. CASE Release(s) \/ Skip(s) \/ Retry(s)
  <2>1. /\ UNCHANGED <<runs, memory, success, unencodable>>
        /\ \E v \in {"READY", "SKIPPED"} : status' = [status EXCEPT ![s] = v]
        /\ UNCHANGED at \/ at' = [at EXCEPT ![s] = "none"]
        /\ status[s] \in {"PENDING", "READY"} \/ at[s] = "exec"
    BY <1>a DEF Release, Skip, Retry, history, attempts
  <2>2. at[s] \in {"none", "exec"} /\ at'[s] = "none" /\ status'[s] # "SUCCEEDED"
    BY <1>0, <1>a, <2>1 DEF Retry, Release, Skip, Types, Statuses, StepSound, CallSound
  <2>3. ContextSaved(s)'
    BY <2>2 DEF ContextSaved
  <2> QED
    BY <1>0, <2>1, <2>2, <2>3, ContextKept
<1>b. CASE Start(s) \/ SnapshotFails(s) \/ BadInput(s) \/ Fail(s)
  <2>1. /\ UNCHANGED <<memory, success>>
        /\ UNCHANGED status \/ \E v \in {"RUNNING", "FAILED"} : status' = [status EXCEPT ![s] = v]
        /\ UNCHANGED at \/ \E p \in {"none", "exec"} : at' = [at EXCEPT ![s] = p]
        /\ status[s] = "READY" \/ at[s] = "exec"
        /\ UNCHANGED unencodable
    BY <1>b DEF Start, SnapshotFails, BadInput, Fail, history, attempts
  <2>2. /\ at[s] \in {"none", "exec"} /\ at'[s] \in {"none", "exec"}
        /\ status'[s] # "SUCCEEDED"
    BY <1>0, <2>1 DEF Types, Statuses, StepSound, CallSound
  <2>3. ContextSaved(s)'
    BY <2>2 DEF ContextSaved
  <2>4. UNCHANGED runs \/ \E v \in {"RUNNING", "FAILED"} : Record(s, v)
    BY <1>b DEF Start, SnapshotFails, BadInput, Fail, RecordFailure
  <2>5. UNCHANGED runs \/ (/\ Current'.context = Current.context
                           /\ Current'.readable = Current.readable)
    BY <1>0, <2>4, ContextUntouched DEF Value
  <2> QED
    BY <1>0, <2>1, <2>2, <2>3, <2>5, ContextKept
<1>c. CASE Succeed(s)
  <2>1. /\ UNCHANGED <<memory, status, unencodable>> /\ at[s] = "exec" /\ at' = [at EXCEPT ![s] = "record"]
        /\ Record(s, "none")
        /\ \E b : success' = [success EXCEPT ![s] =
               [run |-> Len(runs), branch |-> b, output |-> executed[s] + 1]]
    BY <1>c DEF Succeed, attempts
  <2>2. at'[s] = "record" /\ status'[s] = "RUNNING" /\ \A r \in Step \ {s} : success'[r] = success[r]
    BY <1>0, <2>1 DEF Types, StepSound, CallSound
  <2>3. ContextSaved(s)'
    BY <2>2 DEF ContextSaved
  <2>4. Current'.context = Current.context /\ Current'.readable = Current.readable
    BY <1>0, <2>1, ContextUntouched DEF Value
  <2> QED
    BY <1>0, <2>1, <2>2, <2>3, <2>4, ContextKept
<1>u. CASE SucceedUnsaved(s)
  <2>1. /\ UNCHANGED <<runs, memory, status>> /\ at[s] = "exec"
        /\ at' = [at EXCEPT ![s] = "publish"]
        /\ unencodable' \in {unencodable, unencodable \cup {s}}
        /\ \E b : success' = [success EXCEPT ![s] =
               [run |-> Len(runs), branch |-> b, output |-> executed[s] + 1]]
    BY <1>u DEF SucceedUnsaved
  <2>2. at'[s] = "publish" /\ status'[s] = "RUNNING" /\ \A r \in Step \ {s} : success'[r] = success[r]
    BY <1>0, <2>1 DEF Types, StepSound, CallSound
  <2>3. ContextSaved(s)'
    BY <2>2 DEF ContextSaved
  <2>4. unencodable' = {} => unencodable = {}
    BY <2>1
  <2> QED
    BY <1>0, <2>1, <2>2, <2>3, <2>4, ContextKept
<1>d. CASE SaveStep(s)
  <2>1. /\ UNCHANGED <<memory, status, success, unencodable>>
        /\ at[s] = "record" /\ at' = [at EXCEPT ![s] = "publish"]
        /\ runs' = [runs EXCEPT ![Len(runs)].record[s] = "SUCCEEDED",
                                ![Len(runs)].branch[s] = taken[s]]
    BY <1>d DEF SaveStep, history, attempts
  <2>2. at'[s] = "publish" /\ status'[s] = "RUNNING"
    BY <1>0, <2>1 DEF Types, StepSound, CallSound
  <2>3. ContextSaved(s)'
    BY <2>2 DEF ContextSaved
  <2>4. Current'.context = Current.context /\ Current'.readable = Current.readable
    BY <1>0, <2>1, ContextUntouched DEF Value
  <2> QED
    BY <1>0, <2>1, <2>2, <2>3, <2>4, ContextKept
<1>e. CASE UpdateContext(s)
  <2>1. /\ UNCHANGED <<status, success, unencodable>> /\ at[s] = "publish"
        /\ \A r \in Step : at[r] # "context"
        /\ memory' = [memory EXCEPT ![s] = success[s].output]
    BY <1>e DEF UpdateContext, history, attempts
  <2>2. /\ status[s] = "RUNNING" /\ memory'[s] = success[s].output
        /\ \A r \in Step \ {s} : memory'[r] = memory[r]
    BY <1>0, <2>1 DEF Types, Counts, StepSound, CallSound
  <2>a. CASE s \in unencodable \/ ~Encodable
    <3>1. at' = [at EXCEPT ![s] = "finish"] /\ Current' = Current
      BY <1>e, <2>a DEF UpdateContext, Current
    <3>2. unencodable # {}
      BY <2>a DEF Encodable
    <3>3. at'[s] = "finish" /\ \A r \in Step \ {s} : at'[r] = at[r]
      BY <1>0, <3>1 DEF Types
    <3>4. \A r \in Step : ContextSaved(r)'
      BY <1>0, <2>1, <2>2, <3>1, <3>2, <3>3 DEF ContextSaved
    <3>5. ContextReadable'
      BY <1>0, <2>1, <3>1 DEF ContextReadable
    <3> QED
      BY <3>4, <3>5
  <2>b. CASE ~(s \in unencodable \/ ~Encodable)
    <3> DEFINE d == [Current EXCEPT !.readable = FALSE]
    <3>1. d \in Directory /\ d.context = Current.context
      BY <1>0 DEF Directory
    <3>2. runs' = [runs EXCEPT ![Len(runs)] = d] /\ at' = [at EXCEPT ![s] = "context"]
      BY <1>e, <2>b DEF UpdateContext, Current
    <3>3. Current' = d
      BY <1>0, <3>1, <3>2, DirChange
    <3>4. at'[s] = "context" /\ \A r \in Step \ {s} : at'[r] = at[r]
      BY <1>0, <3>2 DEF Types
    <3>5. \A r \in Step : ContextSaved(r)'
      BY <1>0, <2>1, <2>2, <3>1, <3>3, <3>4 DEF ContextSaved
    <3> QED
      BY <3>4, <3>5 DEF ContextReadable
  <2> QED
    BY <2>a, <2>b
<1>f. CASE SaveContext(s)
  <2>1. /\ UNCHANGED <<status, memory, success, unencodable>>
        /\ at[s] = "context" /\ at' = [at EXCEPT ![s] = "finish"]
        /\ runs' = [runs EXCEPT ![Len(runs)].readable = TRUE, ![Len(runs)].context = memory]
    BY <1>f DEF SaveContext, history, attempts
  <2> DEFINE d == [Current EXCEPT !.readable = TRUE, !.context = memory]
  <2>2. d \in Directory /\ d.context = memory /\ d.readable
    BY <1>0 DEF Directory, Types
  <2>3. runs' = [runs EXCEPT ![Len(runs)] = d]
    BY <2>1 DEF Current
  <2>4. Current' = d
    BY <1>0, <2>2, <2>3, DirChange
  <2>5. at'[s] = "finish" /\ memory[s] = success[s].output /\ \A r \in Step \ {s} : at'[r] = at[r]
    BY <1>0, <2>1 DEF Types, ContextSaved
  <2>6. \A r \in Step : ContextSaved(r)'
    BY <1>0, <2>1, <2>2, <2>4, <2>5 DEF ContextSaved
  <2> QED
    BY <2>2, <2>4, <2>6 DEF ContextReadable
<1>g. CASE Finish(s)
  <2>1. /\ UNCHANGED <<runs, memory, success, unencodable>>
        /\ status' = [status EXCEPT ![s] = "SUCCEEDED"]
        /\ at[s] = "finish" /\ at' = [at EXCEPT ![s] = "none"]
    BY <1>g DEF Finish, history, attempts
  <2>2. at'[s] = "none" /\ Current' = Current
    BY <1>0, <2>1 DEF Types, Current
  <2>3. ContextSaved(s)'
    BY <1>0, <2>1, <2>2 DEF ContextSaved
  <2> QED
    BY <1>0, <2>1, <2>3, ContextKept
<1> QED
  BY <1>a, <1>b, <1>c, <1>u, <1>d, <1>e, <1>f, <1>g

LEMMA ContextStep ==
    ASSUME IInv, \A r \in Step : ContextSaved(r), ContextReadable, [Next]_vars
    PROVE  (\A r \in Step : ContextSaved(r)') /\ ContextReadable'
<1>a. CASE Fresh \/ Resume \/ MakeDir \/ Respond \/ Crash
  BY <1>a DEF Fresh, Resume, MakeDir, Respond, Crash, EndOfRun, ContextSaved, ContextReadable
<1>b. CASE InitContext
  <2>1. /\ phase = "init" /\ Len(runs) > 0 /\ Types /\ UNCHANGED <<seeds, at>>
        /\ status' = [s \in Step |-> IF s \in seeds THEN "SUCCEEDED"
                                     ELSE IF s \in Roots THEN "READY" ELSE "PENDING"]
    BY <1>b DEF InitContext, requestVars, IInv, Types
  <2> DEFINE d == [Current EXCEPT !.readable = TRUE, !.context = memory]
  <2>2. d \in Directory /\ d.readable
    BY <2>1, CurrentType DEF Directory, Types
  <2>3. runs' = [runs EXCEPT ![Len(runs)] = d]
    BY <1>b DEF InitContext, Current
  <2>4. Current' = d
    BY <2>1, <2>2, <2>3, DirChange
  <2>5. \A r \in Step : at[r] = "none"
    BY <2>1 DEF IInv, StepSound, CallSound
  <2> QED
    BY <2>1, <2>2, <2>4, <2>5 DEF ContextSaved, ContextReadable
<1>c. CASE GiveUpPending
  <2>1. /\ UNCHANGED <<phase, seeds, at, memory, success, unencodable>> /\ Current' = Current
        /\ status' = [s \in Step |-> IF status[s] = "PENDING" THEN "SKIPPED" ELSE status[s]]
    BY <1>c DEF GiveUpPending, requestVars, history, attempts, Current
  <2> QED
    BY <2>1 DEF ContextSaved, ContextReadable
<1>d. CASE UNCHANGED vars
  BY <1>d DEF vars, requestVars, history, attempts, ContextSaved, ContextReadable, Current
<1> QED
  BY <1>a, <1>b, <1>c, <1>d, ContextCallStep DEF Next, Terminated

LEMMA LastStep ==
    ASSUME Inv3, [Next]_vars
    PROVE  LastComplete'
<1>a. CASE Respond
  <2>1. /\ phase = "running" /\ UNCHANGED <<runs, success>>
        /\ \A s \in Step : status[s] \in Final /\ at[s] = "none"
        /\ last' = [status |-> status, again |-> again, unrecorded |-> unrecorded,
                    unencodable |-> unencodable, resumed |-> seeds # {}, returned |-> TRUE]
    BY <1>a DEF Respond, EndOfRun
  <2>2. /\ Current' = Current /\ last'.status = status /\ last'.resumed = (seeds # {})
        /\ last'.unrecorded = unrecorded /\ last'.unencodable = unencodable
    BY <2>1 DEF Current
  <2>3. Current.readable
    BY <2>1 DEF Inv3, ContextReadable
  <2>4. ASSUME seeds = {}, NEW s \in Step
        PROVE  /\ Current.record[s] = "SUCCEEDED" <=> status[s] = "SUCCEEDED" /\ s \notin unrecorded
               /\ status[s] = "SUCCEEDED" /\ unencodable = {} =>
                     Current.context[s] = success[s].output
    <3>1. RecordSound(s) /\ ContextSaved(s)
      BY DEF Inv3, Inv2
    <3> QED
      BY <2>1, <2>4, <3>1 DEF RecordSound, ContextSaved, Recording
  <2> QED
    BY <2>1, <2>2, <2>3, <2>4 DEF LastComplete
<1>b. CASE Crash
  <2>1. /\ UNCHANGED <<runs, success>>
        /\ (phase = "mkdir" /\ last' = last) \/ last'.returned = FALSE
    BY <1>b DEF Crash, EndOfRun
  <2> QED
    BY <2>1 DEF LastComplete, Inv3, Current
<1>c. CASE Fresh \/ Resume
  <2>1. phase = "idle" /\ UNCHANGED <<runs, success, last>>
    BY <1>c DEF Fresh, Resume, history
  <2> QED
    BY <2>1 DEF LastComplete, Inv3, Current
<1>d. CASE MakeDir \/ InitContext \/ GiveUpPending
  <2>1. phase' \notin {"idle", "mkdir"}
    BY <1>d DEF MakeDir, InitContext, GiveUpPending
  <2> QED
    BY <2>1 DEF LastComplete
<1>e. ASSUME NEW s \in Step,
             \/ Release(s) \/ Skip(s) \/ SnapshotFails(s) \/ Start(s)
             \/ BadInput(s) \/ Retry(s) \/ Fail(s)
             \/ Succeed(s) \/ SucceedUnsaved(s) \/ SaveStep(s) \/ UpdateContext(s) \/ SaveContext(s) \/ Finish(s)
      PROVE  LastComplete'
  <2>1. phase' = "running"
    BY <1>e DEF Release, Skip, SnapshotFails, Start, BadInput, Retry, Fail, RecordFailure,
         Succeed, SucceedUnsaved, SaveStep, UpdateContext,
                SaveContext, Finish
  <2> QED
    BY <2>1 DEF LastComplete
<1>f. CASE UNCHANGED vars
  BY <1>f DEF vars, history, LastComplete, Inv3, Current
<1> QED
  BY <1>a, <1>b, <1>c, <1>d, <1>e, <1>f DEF Next, Terminated

LEMMA Inv3Always == Spec => []Inv3
<1>1. Init /\ Inv2 => Inv3
  BY DEF Init, Inv3, ContextSaved, ContextReadable, LastComplete
<1>2. Inv3 /\ Inv2' /\ [Next]_vars => Inv3'
  BY ContextStep, LastStep DEF Inv3, Inv2
<1> QED
  BY <1>1, <1>2, Inv2Always, PTL DEF Spec

(* A run that resumes one which was no resumption and has returned takes   *)
(* over all that succeeded in it and could be recorded, with branches and, *)
(* if all of them could be encoded, with outputs.                          *)
THEOREM ResumptionIsComplete == Spec => ResumeComplete
<1>1. Inv3 /\ [Next]_vars =>
        [Resume /\ last.returned /\ ~last.resumed =>
           /\ seeds' = {s \in Step : last.status[s] = "SUCCEEDED"} \ last.unrecorded
           /\ \A s \in seeds' : /\ taken'[s] = success[s].branch
                                /\ last.unencodable = {} => memory'[s] = success[s].output]_vars
  <2> SUFFICES ASSUME Inv3, Resume, last.returned, ~last.resumed
               PROVE  /\ seeds' = {s \in Step : last.status[s] = "SUCCEEDED"} \ last.unrecorded
                      /\ \A s \in seeds' :
                            /\ taken'[s] = success[s].branch
                            /\ last.unencodable = {} => memory'[s] = success[s].output
    OBVIOUS
  <2>1. /\ phase = "idle" /\ Len(runs) > 0
        /\ seeds' = Succeeded(Current) /\ taken' = PriorBranches(Current)
        /\ memory' = PriorOutputs(Current)
    BY LenProperties DEF Resume, Inv3, Inv2, IInv, Types
  <2>2. /\ Current.readable
        /\ \A s \in Step :
              /\ Current.record[s] = "SUCCEEDED" <=>
                    last.status[s] = "SUCCEEDED" /\ s \notin last.unrecorded
              /\ last.status[s] = "SUCCEEDED" /\ last.unencodable = {} =>
                    Current.context[s] = success[s].output
    BY <2>1 DEF Inv3, LastComplete
  <2>3. seeds' = {s \in Step : last.status[s] = "SUCCEEDED"} \ last.unrecorded
    BY <2>1, <2>2 DEF Succeeded
  <2>4. ASSUME NEW s \in Step, s \in Succeeded(Current)
        PROVE  /\ taken'[s] = success[s].branch
               /\ last.unencodable = {} => memory'[s] = success[s].output
    <3>1. Current.branch[s] = success[s].branch
      BY <2>1, <2>4 DEF Inv3, Inv2, IInv, StepSound, DirSound, Succeeded
    <3>2. memory'[s] = Current.context[s] /\ taken'[s] = Current.branch[s]
      BY <2>1, <2>2, <2>4 DEF PriorOutputs, PriorBranches
    <3> QED
      BY <2>2, <2>4, <3>1, <3>2 DEF Succeeded
  <2> QED
    BY <2>1, <2>3, <2>4 DEF Succeeded
<1> QED
  BY <1>1, Inv3Always, PTL DEF Spec, ResumeComplete
=============================================================================
