# A TLA+ model of torkflow

torkflow runs a workflow, a graph of steps described in YAML, as one process: a
scheduler with a goroutine per running step, a store of JSON files in a run
directory, and external programs that do the work of the steps. This directory
holds TLA+ modules for the parts of it that are hard to test, TLC configurations
that check them on small workflows, and TLAPS proofs of what holds for every
workflow. Line numbers below are those of the files under `src/internal/`.

## 1. The system

| component | source | state | operations |
|---|---|---|---|
| scheduler | `engine/scheduler.go` | `status` map (under `mu`), counters `completed`, `failed` (under `mu`), `inboundSatisfied` map (no lock), `readyCh`, `sem`, a WaitGroup | main loop, goroutine per step, `scheduleOutbound`, `handleFailure`, `updateState` |
| workflow graph | `dag/dag.go`, `engine/engine.go`, `workflow/model.go` | nodes, edges, inbound counts; immutable once built | `AddEdge`, `Roots`, `StepReadinessThreshold` |
| engine | `engine/engine.go` | `Context` (under `ContextMu`) | `SnapshotContext`, `UpdateContext`, `MarkBranch`, `DetermineRetry`, `ResolveCredential` |
| state store | `state/filestore.go` | `metadata.json`, `state.json`, `context.json`, `steps/<name>.json`, `errors.log` | load and save; a save truncates the file and then writes it |
| executor | `executor/binary.go` | a process, a helper goroutine and a channel per attempt | `RunBinary`, `WithTimeout` |
| backend | `backend/backend.go` | the run directories of earlier requests | `Run`: resume, run, respond |
| command line | `cli/run.go`, `cli/dag.go`, `cli/view.go` | the goroutine of the run and its channel, a ticker, the screen of the terminal | `run` with exit code, live view and replay of output, `view` |
| action registry | `registry/registry.go` | `Actions`, a map filled once by `NewEngine` | `LoadFromDir`, `Register`, `Get` |
| schema validation | `validation/jsonschema.go` | `compiled`, a map behind an `RWMutex` | `Validate`, `get` |
| core actions, expressions | `core/actions.go`, `expression/resolver.go` | none | the handlers, `EvalScript`, templates |
| connections, secrets | `connections/` | maps read from files | `Get` |
| providers | `src/providers/` | none | separate one-shot programs |

How they interact. `backend.Run` and `torkflow run` build an `Engine` and call
`Engine.Run`, which writes the initial files and runs the scheduler. The
scheduler's goroutines share the status map and the counters under `mu`, the
join counters under no lock, the engine's context under `ContextMu`, and
`state.json` under `mu` in `updateState` but under nothing in `handleFailure`
and `MarkBranch`. They hand steps to the main loop over `readyCh`. A step's
action is a core handler or a process started by the executor, after its input
and its credential have been judged by schemas that the registry found in the
action store and that all goroutines compile into one cache. With `--view-dag` the
scheduler runs beside a loop that reads the step records for every frame. When the
scheduler returns, the command line reads `state.json`, the backend reads
`state.json` and the step records; a later request to resume reads the step
records and `context.json` of the newest run directory.

What is hard about it, and what has to be right:

* **scheduler**: unprotected join counters, a default case that gives up steps
  while others are being released, retries that put a step back, counters that
  must agree with statuses, early returns. A step must be released only for a
  reason, be started once at a time, find the outputs it depends on, be counted
  once, and the run must end.
* **state store**: unlocked load-change-save cycles on one file, reads between
  truncation and write, mixed writes. Retries must be granted and bounded, a
  failure must not be lost, a failed step must never read as success.
* **backend**: process death at any point, resumption of a resumption. What is
  taken over must have succeeded, with its branch and output; a response must be
  true.
* **executor**: timeouts that leave the process running, retries beside it. An
  answer must be the attempt's own, nobody may block, credentials fail closed.
* **view**: cycles, parallel edges, names that are no steps; records read while
  they are rewritten, retried and skipped, or left by an earlier run; output
  printed before, on and after the alternate screen; a tick and a result at once.
* **registry, validation, core actions**: a store that fails half-way, declarations
  that override each other, schemas of one name in two modules, two goroutines that
  compile the same schema while its file changes; durations beyond an int64.

`PROJECT.json` lists every hazard at its line with the properties that cover it.

## 2. The modules

| module | models | notes |
|---|---|---|
| `WorkflowGraph` | `dag.go`, `buildGraph`, gates, fallbacks | constants and operators only |
| `WorkflowRun` | what a run promises | abstract specification: `Release`, `Start`, `Succeed`, `Settle`, `GiveUpPending`, `Resume` |
| `Scheduler` | `scheduler.go` 25-207, 271-334 | implements `WorkflowRun` |
| `StateFile` | `filestore.go`, `updateState`, `MarkBranch`, the retry count, both readers of the result | justifies what `Scheduler` assumes of retries |
| `Backend` | `backend.go`, files that outlive a process | several runs, crash, resume |
| `Executor` | `executeStep`, `ResolveCredential`, `binary.go` | attempts of one step |
| `DagView` | `renderDAG` 25-111 | one walk over a small graph |
| `LiveView` | `runWithOptionalLiveDAG`, `loadRuntimeStepStatuses`, the records it reads | extends `DagView` |
| `Registry` | `registry.go` | sequential |
| `CoreActions` | `core/actions.go`, `EvalScript` | operators only |
| `Actions` | `NewEngine`, `executeStep` up to its schemas, `jsonschema.go` | composes `Registry` and `CoreActions` |
| `MC...` | instances for TLC | one per component module |
| `SchedulerProofs`, `OutcomeProofs`, `StateFileProofs`, `ExecutorProofs`, `BackendProofs`, `ActionsProofs`, `DagViewProofs`, `LiveViewProofs` | theorems | checked by TLAPS; `OutcomeProofs` extends `SchedulerProofs`, `LiveViewProofs` extends `DagViewProofs` |

### Scheduler

The grain is what another goroutine can observe: one action per region under
`mu`, per channel operation and per access to the unprotected map. `pc[s]` is the
control point of the call that works for step `s`, whether that is its goroutine
or, while `main = "seeding"`, `Run` itself. `slots` is `len(sem)`; `leaving`
counts goroutines whose call has returned and whose deferred calls (103-104) have
not run yet. `inboundSatisfied[edge.To]++` is two actions, `NextEdge` (look-up
and read) and `Bump` (write), so increments can be lost; `ConcurrentMapAccess`
is the other outcome of that race, the Go runtime's fatal error. The gate is read
in a third action (`TestGate`) and the release under `mu` is a fourth
(`Enqueue`). `Receive` joins line 90 with lines 91-98, because `Run` is the only
receiver and the only one that takes a step out of READY. `ChooseDefault` and
`SkipPending` are separate: the channel is seen empty before the statuses are
looked at. `PanicOnTornState` and the choice of `count` in `Retry` and `GiveUp`
stand for `state.json`, whose own model is `StateFile`: there the count read back
is never more than the retries made, and may be less while another step is in its
call or about to be received. Nothing bounds the retries, in the code or here: two
steps that keep failing may undo each other's counts for ever.

`Init` gives every seed its output; finding 5 says when that is not so.

What an action does is an input: `Outcomes[s]` says which of skip, unresolvable
input, error, success and success with an output that is no JSON a step may come
to, `Branches[s]` which labels a success may return.

### StateFile

`text` and `content` are the file: JSON, empty (truncated, not yet written), or
mixed (a shorter text over a longer one). Each goroutine, `Run` included, goes
through `LoadToUpdate` or `CountRetry`, `Truncate`, `Write`; `mu` is held during
`updateState` and only then. `Succeed` saves the SUCCEEDED record before
`MarkBranch`, `GiveUp` the FAILED record before the status, as in the code. The
steps of this module are all ready from the start or never released, since the
release is `Scheduler`'s subject; what seeds and a fallback save (80, 328) is an
`updateState` like the others and left out. `ExitCode` and `ResponseStatus` are what
`torkflow run` and the backend make of the files.

### Backend

Each request adds a directory; `Resume` reads the newest one. `MakeDir` and
`InitContext` are separate because the process may die between them, and so are
`Succeed` (record truncated), `SaveStep` (record written), `UpdateContext`
(context changed, file truncated) and `SaveContext` (file written). Steps are
released as in `WorkflowRun`. An output is the number of the execution that made
it, so a stale one is visible. `executed`, `success` and `last` are history
variables that no action reads except to number outputs. `Retry` puts a step back
without touching its record, as `handleFailure` does: if the step is then skipped,
the record of its attempt decides the response (`FailureHasReason`).

The scheduler ignores the errors of `SaveStep` and `UpdateContext`, and JSON has no
text for NaN (a result of `core.js`) or for a map whose keys are no strings. So a
success may come without its record (outcome `unrecorded`: its input cannot be
encoded) or without record and context (`unencodable`: its output cannot). The second
poisons the context in memory: `Encodable` is false from then on, no snapshot can be
taken (`SnapshotFails`), `context.json` is never written again and declared outputs
cannot be evaluated. The same outcomes are in `Scheduler` and `LiveView`.

### Executor

`config` is chosen once among `Configs`: kind of action, validity of input and
output, timeouts, and everything `ResolveCredential` looks at. `refuse` says whose
payload the action's schema refuses: named connections, and with `NoConnection` the
workflow's own, which the code returns unchecked (`engine.go` 254-262). Each attempt has a
process, a helper goroutine and a channel. `Timeout` moves the caller on and
leaves the others alone.

### DagView

One action per turn of the loop at 80-93; the graph is chosen in `Init`.

### LiveView

The command and the run are two processes that share the step records. The run is
reduced to what a record shows. A step is released by all its sources or, at an ANY
gate, by one, or as the fallback of a failed step (`Cause`, `Release`), or given up
with all that are PENDING (`SkipPending`). `Start`, `BadInput`, `GiveUp` and `Succeed`
truncate its file (`Save`) and `WriteRecord` writes it, before the status changes;
`Skip` and `Retry` leave it alone, and so do `GiveUpUnsaved` and `SucceedUnsaved`, whose
record JSON has no text for: `lost`. `BadInput` and `SnapshotFails` leave the step
RUNNING (`gone`), and such a run never returns. The command walks the graph
(`DagView`), lists the directory, reads one file per action and prints. `left` is what
an earlier run with the same execution id has left in the directory. `screen` and
`printed` follow the terminal. A behaviour without a run is one of `torkflow view`,
which draws its graph once. The death of the process ends the view with it and is
left out.

### Registry, CoreActions, Actions

`Registry` has one action per directory entry and one per action of a module.
`CoreActions!Handle` is the set of what a handler may return: a set, because Go
leaves the conversion of a float that is no int64 to the processor. `Limit` is
2^63 ns scaled down; NaN is a field of its own, since no guard of `core.sleep` refuses
it and its conversion is the processor's too. `Actions` begins where `NewEngine` has filled the registry; a
goroutine looks its action up, and for input, credential and output in turn goes
through `RLock`, `Hit` or `Miss`, `Compile`, `Lock`, `Store`, `Accept` or `Refuse`.
`Compile` reads the file without a lock and `Edit` may have changed, made or removed it.
A path of an input or output schema is the module's; that of a connection type's schema
nobody joins to the module's, so it is a file of the working directory (`WorkingDir`).
An inline schema may be no schema, and then every attempt that needs it fails. `held` is a
history variable. A process that fails is a call with no output. `Accepts` is a
constant: what a schema accepts is the library's.

## 3. The runs

| run | module, cfg | shows |
|---|---|---|
| `join` | `MCScheduler`, `Join` | counters, outputs, ALL and ANY gates with three inputs each, branch labels; an open gate stays closed only through one of two races; refinement of `WorkflowRun`. 5 steps, 3 slots, one failure, one skip; 327,556 states |
| `recovery` | `Recovery` | a resumed run of 6 steps (26,678 states): retries, a fallback step shared by two failures, a step that waits for itself, every outcome; every step in the channel once, one call per step, seeds are not run again; the run returns only when all has ended, and fails to return only if a step is left RUNNING or two steps that keep failing undo each other's retry counts for ever |
| `skip_of_runnable` | `Drain` | violation, finding 1; two roots and a step that is the successor of both and the fallback of one |
| `hang` | `Hang` | violation, finding 2 |
| `state_file` | `MCStateFile`, `StateFile` | the file and the verdicts at the end of the run; retries are granted; a nil retry map is met only in a disturbed file; a spoilt file stays spoilt |
| `lost_retry` | `LostRetry` | violation, finding 3 |
| `backend` | `MCBackend`, `Backend` | three requests, death at any point, retries, a success without record, one without record and context: what is taken over, what is answered, why a failure is answered; 4,709,851 states |
| `repeated_success` | `Repeated` | violation, finding 4 |
| `lost_output` | `LostOutput` | violation, finding 5 |
| `executor` | `MCExecutor`, `Executor` | three attempts, late and missing answers; 864 combinations of credential sources with a schema that takes all payloads or none |
| `live_view` | `MCLiveView`, `LiveView` | 6144 graphs drawn; runs of two, a join and a chain, watched with an ANY gate, a fallback, a step that is retried, skipped, fails, prints or has no record, a used directory, a terminal or none: frames are causal, an end stays an end, the final view is true or wrong only where a skip or an ignored error leaves a record, output is kept, the command returns; 352,067 states |
| `actions` | `MCActions`, `Actions` | 169 stores of two entries, loaded whole or not at all; pairs of calls that share a cache, one edit, a schema of the working directory, a misspelt one, two attempts; every class of input of the core actions; 356,332 states |

Bounds. `RetryBound` bounds the retries of one step in `StateFile` (2, more than its
`MaxRetries`, so that giving up is reached both before and after lost counts);
`Scheduler` and `LiveView` have no such bound, and `Backend` retries a step once.
`RunBound` the requests (3: a run, its resumption, the resumption of that);
`AttemptBound` the attempts (3: two late answers beside a third wait). Graphs
have 3 to 6 steps: a race for a join needs two sources and a target, a lost
release one step more to starve. Two entries of a store are enough for one
declaration to override another and for one to fail after another was registered;
two goroutines for the two orders at a lock; one edit (`EditBound`) for two texts of
one schema. Of the watched workflows the chain has a step whose file is read
before its source's, the join one whose file is read after; its first step may end in
every way, so that its fallback, which is also its successor at an ANY gate, is started
for each reason. Lists of names, outputs and texts are
reduced to what is compared.

Deadlock is checked in every run but `actions`, where the goroutines just end; the
end of a run is an explicit stuttering step `Terminated`.

Fairness. `Scheduler!Fairness` is weak fairness of `Run`'s loop, of each
goroutine and of the deferred calls: the Go runtime runs what is not blocked,
sleeps end, and an action answers or times out. No fairness is given to crashes.
`Executor!Fairness` gives none to the end of a process either: only goroutines
and the timer are fair. `LiveView!Fairness` is weak for the command's own steps and
for the ticker, and strong for taking the result: a `select` with several channels
ready picks one at random, so it may not pass over one for ever. The run itself is
not fair there, for a step may never end. `Actions!FairSpec` is weak fairness of
each goroutine's steps, the lock included: `sync.RWMutex` lets a waiting writer in
before later readers. `Backend` and `StateFile` check safety only.

## 4. Findings

1. `skip_of_runnable`: the default case (190) skips steps that are about to be
   released, because a step that has just SUCCEEDED counts as neither READY nor
   RUNNING before its edges are followed (163 to 165), and likewise between the
   FAILED status and the fallback (320 to 323).
2. `hang`: after an input that cannot be resolved (135), or a context that cannot
   be encoded (110), the step stays RUNNING and `Run` polls for ever.
3. `lost_retry`: a retry count is lost and a step is retried too often (305).
4. `repeated_success`: seeds leave no record, so resuming a resumption executes
   them again (`backend.go` 112).
5. `lost_output`: a death between record and context leaves a seed without its
   output (153-154).

Two more consequences of missing locks are in the models without a run of their
own. Two unlocked increments of a join counter (277) may come to one, and then the
join is skipped although all its inputs succeeded: that is the last disjunct of
`OpenGateHasReason`. And `handleFailure` ignores the error of `LoadState` (301), so
that a failure handled while `state.json` is being rewritten increments a nil map
and ends the process (304): `StateFile!Panic`, `Scheduler!PanicOnTornState`;
`PanicOnlyWhenDisturbed` says that this is the only way. A step that is retried and
then skipped keeps the record of its attempt: it is shown as running for ever
(`FinalViewTrue`) and makes the response `failed` (`FailureHasReason`). And
`core.sleep` of more than 292 years, or of NaN, may return at once (`SleepAsAsked`).
And since the errors of saving are ignored (153-154), one output that JSON has no text
for is a success without a record: the response is `failed` although no step did
(`FailureHasReason`), the final view shows the step running (`FinalViewTrue`), and a
resumption executes it again and misses the outputs that came after it
(`ResumeComplete`). The last three properties name these cases as their only exceptions.

`OpenGateHasReason` says that 1 and lost increments are the only ways in which an
open gate can be missed; `TerminationUnlessOrphaned` that 2, and 3 with two steps that
keep failing, are the only ways not to return; `RetriesGranted` that 3 never goes the other way; `SealedState` that stale copies
of the lists never survive the run; `ResumeComplete` that the resumption of a
whole first run is right, but for what could not be encoded.

## 5. The proofs

`SchedulerProofs` proves for all constants that satisfy the ASSUMEs of
`WorkflowGraph` and `Scheduler`:

* `TypeCorrect`: `Spec => []TypeOK`;
* `QueueIsSound`: `Spec => []QueueSound`, every READY step is in `readyCh` exactly
  once or about to be resent;
* `OneCall`: `Spec => []OneCallPerStep`;
* `Implementation`: `Spec => Implements`, every behaviour of the scheduler is one
  of `WorkflowRun`, lost increments and crashes included.

The inductive invariant comes in two layers. `Inv1` is `TypeOK`, `Control` and
`QueueSound`; `Control` ties each control point to a status (a goroutine before
its end is RUNNING, one in `scheduleOutbound` is SUCCEEDED, one at `resend` is
READY) and says that `stepName` has no other call. Without it `QueueSound` is not
inductive: a second sender would be possible. `Inv2` adds `Counts`, that a
counter, and a value read from it, never exceeds the number of edges that have
been counted, each of which is satisfied, and `GateTestSound`, that a goroutine
at `enqueue` has an open gate. Lost increments make counters too small, never too
large: that is why `Release` is always justified, and what the refinement rests
on. The refinement maps `branch` to the label of a step that has succeeded and to
none before; each action is matched with one of `WorkflowRun` or a stutter.

`StateFileProofs` proves, beside `TypeCorrect`:

* `RetriesAreGranted`: `Spec => []RetriesGranted`. The invariant `CountNeverAhead`
  says that no count, in the file or in a loaded copy, exceeds the retries made;
  it is also what `Scheduler` assumes of the counts it reads back.
* `StateIsSealed`: `Spec => []SealedState`. While the run lasts the lists in the
  file may be old. `Sealing` says of the moments when no goroutine owes an
  `updateState` that the only saving in progress is that of the owner of `mu`, and
  that its lists, and those of the file unless they are about to be overwritten,
  are the true ones. `LockControl` gives that owner: `updateState` runs under `mu`,
  and the savings without it belong to goroutines that still owe one.
* `FailuresAreReported`: `Spec => []FailureReported`, from `SealedState` when the
  file is readable and from `FailControl` when it is not: a goroutine works only
  for a RUNNING step, so the FAILED record is there before the status and nothing
  overwrites it.

`OutcomeProofs` goes on where `SchedulerProofs` ends, with the properties of how a
run ends. Each has a layer of its own over `Inv1` and `Inv2`.

* `TallyIsExact` (`Tally`): the counters equal the cardinalities of two sets of
  steps; `TallySettle` is the change of a cardinality when one step ends.
* `SeedsKept` (`SeedsNotRerun`): `SeedControl` says that while `Run` marks seeds the
  only call there is is its own `scheduleOutbound`, for a seed.
* `LimitsHold` (`Limits`): `Slots` says that the slots taken are the goroutines that
  are busy plus those that are leaving; `QueueSound` bounds the channel.
* `ReturnsComplete` (`ReturnedComplete`): from `Tally` and `Slots`, since `Run`
  leaves its loop on counters and waits for goroutines.
* `OutputsAreVisible` (`OutputsVisible`): `Published` says that every success that is
  past its execution has its output in the context.
* `OpenGatesExplained` (`OpenGateHasReason`): `GateFollowed` says that a counter
  which opens the gate of a PENDING step has a call on its way to release it.
* `ReleasesAreJustified` and `EndsAreKept` put the refinement to use: what follows from
  the steps of `WorkflowRun` (`ReleasedForReason`, a step that is READY or has been
  executed has a reason that still holds; `EndsAreFinal`) holds of the scheduler, whose
  steps are those. `ReasonRemains` says that no step takes a reason back. No run has
  these two as properties, for `Implements` implies them.

`ExecutorProofs` proves, beside `TypeCorrect`, `AnswersAreOwn` (`OwnAnswer`),
`OverlapsFollowTimeouts` (`OverlapOnlyAfterTimeout`) and `CredentialsFailClosed`
(`FailClosed`) for any set of configurations and any number of attempts. The first
rests on `ChannelOwn`, that a channel holds the answer of its own attempt's
process, which has ended; the last, a table of where a payload may come from and who
has checked it, on what `ResolveCredential` may return
(`ResolutionFailsClosed`) and on `CredentialResolved`, that a call uses nothing
else. `StateFileProofs!PanicsAreDisturbed` (`PanicOnlyWhenDisturbed`) needs that the
file is JSON whenever nobody is between truncating and writing it and no two
writes have met.

`BackendProofs` proves `SeedsAreSound` (`SeedsSound`) and `ContextIsFresh`
(`ContextFresh`) for every workflow and any number of requests. Its invariant
`IInv` ties four places in which a success is remembered to the last execution:
the newest directory (`DirSound`), the seeds (`SeedSound`), the context in memory
(`MemorySound`) and the goroutine between execution and record (`CallSound`). It is
written per step, so that a change of one step leaves the others alone. `Inv2` adds
what a response needs: `RecordSound`, that the record of a step and its status tell
the same story unless the step was retried or its record could not be written, and
`Answers`. `ResponsesAreTrue`
(`ResponseTruthful`) and `FailuresHaveReasons` (`FailureHasReason`) follow.

`ActionsProofs` proves `MapIsExclusive` (`MapExclusive`) from `Locked`, that the
readers of the cache are in `readers` and at most one goroutine is at `write`; and
`LoadsWholeOrNot` (`AllOrNothing`) from `Loads`: of the entries that have been read,
each is sound, or the declaration that is not is still among the pending ones, so
that loading cannot end well. `LastDeclarationWins` (`LastOneWins`) goes through
`Order`: entries are taken in order (`MinOfNats`, by well-founded induction), what is
pending is the end of the current entry's list (`InOrder`), and each name stands for
the greatest declaration of those taken so far (`Newest`); the invariant compares
declarations pairwise and needs no recursion over the list. `VerdictsAreOwn`
(`VerdictOwn`) puts both together with the cache: `Cache` says that a compiled schema
comes from a text its key has had, `Judging` that a goroutine from `lock` on has a
schema of its own reference, and `KnownSchemas` that the reference of a winning
declaration is a key of the cache that only what it declares (`Declares`) can fill. It assumes of the store how schemas are written down (`SchemasAssumption`).
`SleepsAreAsAsked` (`SleepAsAsked`) is arithmetic (`SleptAsAsked`) and an invariant
that a call of `core.sleep` never leaves the core handlers, even if the store
declares an action of that name; NaN is its one exception.

`StateFileProofs!SpoiltStays` (`SpoiltForEver`) and `BackendProofs!ResumptionIsComplete`
(`ResumeComplete`) are about steps. The first needs only the types: whoever truncates
the file has loaded it (`NobodyRewrites`). The second adds `Inv3`: each success that a
run has made itself is in the context, in memory and in the file (`ContextSaved`); the
file is readable unless a goroutine is writing it (`ContextReadable`); and when a run
that was no resumption has returned, records and context have all of its successes that could
be written (`LastComplete`).

`LiveViewProofs` proves the safety properties of the live view for every workflow,
every directory an earlier run may have left and every interleaving of the run with
the frames. `FramesFollow` is its inductive invariant, in three layers.

* `RunInv`: a record tells the status of an executed step unless it is just being
  rewritten or could not be written (`RecordsFollow`), what has been executed was released
  by something first (`CausesFirst`), and the control points of run and command agree (`RunStages`).
* `FrameInv`: what a frame knows, while it is read and on the screen. An end that it
  shows is the one recorded (`EndsAreRecorded`); what the screen shows as ended is
  still to be read or has been read as the same (`EndsAreReread`); the same goes for
  what has released whatever the frame has found (`CausesAreRead`), which is where it
  matters that the directory is listed before the first file is read; the final
  frame is read from records that no longer change (`FinalFrame`).
* `OutputCounted`: how often each output is on the primary screen.

`FinalViewIsTrue` (`FinalViewTrue`), `CausesAreShown` (`EffectNotBeforeCause`),
`OutputIsKept` (`OutputKept`) and `EndsStayShown` (`EndedStaysEnded`) follow.

`StagesAreTrue` (`StagesAreDepths`) is about every frame's walk, for every workflow
file; its parts are in `DagViewProofs`. The invariant `WalkInv` says that what remains of
a name is the sum of its inbound edges over the steps not visited (`Remaining`), that
a name is in the queue or visited exactly when all its edges come from visited steps
(`QueueIsReleased`), and that its level is one more than the greatest of theirs
(`Levels`). When the queue is empty, ways into a visited name come from visited names
of lower levels (`WaysRise`), so no cycle reaches one (`VisitedAreOffCycles`); who is
left has somebody before him who is left, and a way back through more names than there
are comes to one twice (`LeftAreAfterCycles`); and the level of a visited name is the
length of a way from a root (`LevelsAreReached`) and of no longer one
(`LevelsAreDepths`). The sum that `Indegree` folds and the iteration in `Reach` need
induction. The library's induction theorems take an operator, which the provers here
cannot instantiate; `SetInduction` takes a set of numbers in its place, and
`Iteration` (a function on `Nat` may be given by its value at 0 and a step), `FoldExists`
and `FoldIsSum` (the fold has a value, whatever the order of the elements) rest on it.

What is only model-checked: liveness (`TerminationUnlessOrphaned`, `HelpersEnd`,
`AttemptEnds`, `AttemptsEnd`, `CommandEnds`, `ViewCatchesUp`), which is out of the
prover's reach. Every safety invariant and action property that a passing run checks
is a theorem.

## 6. Not modelled

Loading of YAML and JSON, reduced to whether it fails; the evaluation of templates
and skip expressions, whose results are inputs (goja works on a copy of the
context); providers, which are one-shot programs without state; `metadata.json` and
`errors.log`, which nobody reads back; flags; the text of views and of printed
payloads (`formatOutput`, `flattenKV`). `torkflow view` without a run directory takes
the greatest execution id (`view.go` 75), which `README.md` 108 calls the latest
run: the two differ only for ids given by hand. Two steps of the same name, which
the code merges into one. An I/O error of a save (a full disk), which the code ignores
everywhere; that a value cannot be encoded is modelled. A `ReadDir` of the action store
that fails (`registry.go` 86-89), which ends loading before it begins. A terminal that is closed under the live view.

## 7. Plan

1. Proofs: the safety half of the liveness properties, such as a measure that each
   turn of `renderDAG`, each retry and each attempt lowers.
2. Larger instances: three entries of a store, watched runs of four steps.
3. Duplicate step names: `buildGraph` merges two steps of one name into one node.
