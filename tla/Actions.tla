------------------------------ MODULE Actions ------------------------------
(***************************************************************************)
(* From the action store to a call: NewEngine (engine.go 54-115) loads the *)
(* registry, then the goroutines of the scheduler call actions             *)
(* (executeStep, scheduler.go 209-269) and share one JSONSchemaValidator   *)
(* (validation/jsonschema.go), a map of compiled schemas behind a          *)
(* sync.RWMutex that is not held while a schema is compiled.  A schema     *)
(* file may be edited while the engine runs.                               *)
(***************************************************************************)
EXTENDS Registry, CoreActions

CONSTANTS
    Worker,        \* the goroutines, each of which executes one step
    Calls,         \* what the steps may call: an action with its fields, or with input,
                   \* credential and output
    Content,       \* the texts of schemas; what else may be given for one is "broken"
    WorkingDir,    \* what may be in the working directory, file by file
    Accepts(_, _), \* Accepts(text, value): the schema accepts the value
    EditBound,     \* BOUND of the model on the edits of schema files
    AttemptBound   \* BOUND of the model on the attempts of a step

ASSUME CallsAssumption ==
    \A c \in Calls : \A w \in Worker :
        /\ c[w].action \in ActionName \cup CoreName
        /\ c[w].action = "core.sleep" =>
              {c[w].fields.duration, c[w].fields.seconds, c[w].fields.milliseconds} \subseteq
                 {<<"absent">>, <<"bad">>, <<"nan">>} \cup ({"text", "number"} \X Int)
ASSUME ContentAssumption == Content \cap {"none", "broken"} = {}
ASSUME ActionBounds == EditBound \in Nat /\ AttemptBound \in Nat \ {0}

VARIABLES
    engine,    \* "none", "running", or "failed" to be made
    call,      \* what each step calls
    at,        \* control point of each goroutine
    stage,     \* what it validates: "input", "credential" or "output"
    attempt,   \* the attempt it makes
    outcome,   \* what its last core action returned
    schema,    \* the compiled schema it has, "none" before
    compiled,  \* JSONSchemaValidator.compiled
    readers,   \* who holds the RWMutex for reading
    file,      \* what each schema file holds
    held,      \* history: what it has held
    edits      \* how often one was edited

workers == <<call, at, stage, attempt, outcome, schema>>
files == <<file, held, edits>>
vars == <<registryVars, engine, workers, compiled, readers, files>>

FileName == UNION {s[e].files : s \in Stores, e \in Entry}

(* The files of the modules, and those of the working directory: the path  *)
(* that a connection type gives for its schema is relative to it, for      *)
(* nobody joins it to the module's (registry.go 178-183, 70-73).           *)
SchemaFile ==
    {<<"file", e, f>> : e \in Entry, f \in FileName} \cup {<<"relative", f>> : f \in FileName}

(* The keys of the cache (70-80).  An inline schema may be none. *)
Key == SchemaFile \cup {<<"inline", c>> : c \in Content \cup {"broken"}}

(* How a schema is written down. *)
Written(ref) ==
    \/ ref = <<"none">> \/ ref = <<"relative", ref[2]>>
    \/ \E c \in Content \cup {"broken"} : ref = <<"inline", c>>

ASSUME SchemasAssumption ==
    \A s \in Stores : \A e \in Entry :
       /\ \A yaml \in {s[e].module, s[e].provider, s[e].module.actionsFile} :
             \A a \in Range(yaml.actions) : Written(a.input) /\ Written(a.output)
       /\ \A ref \in Range(s[e].module.connectionTypes) :
             Written(ref) /\ (ref[1] = "relative" => ref[2] \in FileName)

Init ==
    /\ InitRegistry
    /\ engine = "none"
    /\ call = [w \in Worker |-> NoAction]
    /\ at = [w \in Worker |-> "idle"]
    /\ stage = [w \in Worker |-> "input"]
    /\ attempt = [w \in Worker |-> 1]
    /\ outcome = [w \in Worker |-> Failed]
    /\ schema = [w \in Worker |-> "none"]
    /\ compiled = [k \in Key |-> "none"] /\ readers = {}
    /\ \E here \in WorkingDir :
          file = [f \in SchemaFile |->
                     CASE f[1] = "relative" -> here[f[2]]
                       [] f[1] = "file" /\ f[3] \in store[f[2]].files -> store[f[2]].text
                       [] OTHER -> "broken"]
    /\ held = [f \in SchemaFile |-> {file[f]}]
    /\ edits = 0

(* The connections and the secrets come next and may fail too (78-85). *)
Result == IF loading = "done" THEN {"running", "failed"} ELSE {"failed"}

NewEngine ==
    /\ engine = "none" /\ loading # "entries"
    /\ engine' \in Result
    /\ IF engine' = "running" THEN call' \in Calls ELSE UNCHANGED call
    /\ UNCHANGED <<registryVars, at, stage, attempt, outcome, schema, compiled,
                   readers, files>>

Go(w, from, to) ==
    /\ engine = "running" /\ at[w] = from
    /\ at' = [at EXCEPT ![w] = to]
    /\ UNCHANGED <<registryVars, engine, call, files>>

-----------------------------------------------------------------------------
(* executeStep: a core action first, then the registry (210-219). *)
Action(w) == registered[call[w].action]

CallCore(w) ==
    \E o \in Handle(call[w].action, call[w].fields) :
        /\ Go(w, "idle", IF o.ok THEN "done" ELSE "error")
        /\ outcome' = [outcome EXCEPT ![w] = o]
        /\ UNCHANGED <<stage, attempt, schema, compiled, readers>>

CallBinary(w) ==
    /\ call[w].action \in ActionName
    /\ Go(w, "idle", IF Action(w) = NoAction THEN "error" ELSE "validate")
    /\ stage' = [stage EXCEPT ![w] = "input"]
    /\ UNCHANGED <<attempt, outcome, schema, compiled, readers>>

Lookup(w) == IF call[w].action \in CoreName THEN CallCore(w) ELSE CallBinary(w)

Ref(w) == Action(w)[stage[w]]

(* After the input comes the credential, then the process, then its output.*)
(* A process that fails ends the attempt.                                  *)
NextStage(w) == CASE stage[w] = "input" -> "credential" [] OTHER -> "output"

Proceed(w, from) ==
    /\ Go(w, from, IF stage[w] = "output" THEN "done"
                   ELSE IF stage[w] = "credential" /\ call[w].output = "none" THEN "error"
                   ELSE "validate")
    /\ stage' = [stage EXCEPT ![w] = NextStage(w)]
    /\ schema' = [schema EXCEPT ![w] = "none"]
    /\ UNCHANGED <<attempt, outcome, compiled, readers>>

Waiting(w, from, to) ==
    /\ Go(w, from, to)
    /\ UNCHANGED <<stage, attempt, outcome>>

(* Validate (20-26): without a schema everything is valid. *)
NoSchema(w) == Proceed(w, "validate") /\ Ref(w) = <<"none">>

(* get (46-57): the map is read under RLock. *)
RLock(w) ==
    /\ Waiting(w, "validate", "read") /\ Ref(w) # <<"none">>
    /\ \A v \in Worker : at[v] # "write"
    /\ readers' = readers \cup {w}
    /\ UNCHANGED <<schema, compiled>>

KeyByName(ref) == IF ref[1] = "file" THEN <<"file", Max(Entry), ref[3]>> ELSE ref

CacheKey(ref) == ref

Cached(w) == compiled[CacheKey(Ref(w))] # "none"

Hit(w) ==
    /\ Waiting(w, "read", "judge") /\ Cached(w)
    /\ schema' = [schema EXCEPT ![w] = compiled[CacheKey(Ref(w))]]
    /\ readers' = readers \ {w}
    /\ UNCHANGED compiled

MissStillLocked(w) ==
    /\ Waiting(w, "read", "compile") /\ ~Cached(w)
    /\ UNCHANGED <<schema, compiled, readers>>

Miss(w) ==
    /\ Waiting(w, "read", "compile") /\ ~Cached(w)
    /\ readers' = readers \ {w}
    /\ UNCHANGED <<schema, compiled>>

(* NewSchema (59-62) reads the file, without a lock; what it finds, or an  *)
(* inline schema, may be no schema.                                        *)
TextOf(ref) == IF ref[1] = "inline" THEN ref[2] ELSE file[ref]

Compile(w) ==
    /\ at[w] = "compile"
    /\ LET text == TextOf(Ref(w)) IN
       IF text = "broken" THEN Waiting(w, "compile", "error") /\ UNCHANGED schema
       ELSE Waiting(w, "compile", "lock") /\ schema' = [schema EXCEPT ![w] = text]
    /\ UNCHANGED <<compiled, readers>>

LockUnheeding(w) ==
    /\ Waiting(w, "lock", "write")
    /\ UNCHANGED <<schema, compiled, readers>>

Lock(w) ==
    /\ Waiting(w, "lock", "write")
    /\ readers = {} /\ \A v \in Worker : at[v] # "write"
    /\ UNCHANGED <<schema, compiled, readers>>

(* The map is written and the lock released (64-66). *)
Store(w) ==
    /\ Waiting(w, "write", "judge")
    /\ compiled' = [compiled EXCEPT ![CacheKey(Ref(w))] = schema[w]]
    /\ UNCHANGED <<schema, readers>>

Accept(w) == Proceed(w, "judge") /\ Accepts(schema[w], call[w][stage[w]])

Refuse(w) ==
    /\ Waiting(w, "judge", "error") /\ ~Accepts(schema[w], call[w][stage[w]])
    /\ UNCHANGED <<schema, compiled, readers>>

(* handleFailure: the next attempt starts from the beginning. *)
Retry(w) ==
    /\ attempt[w] < AttemptBound
    /\ Go(w, "error", "idle")
    /\ attempt' = [attempt EXCEPT ![w] = @ + 1]
    /\ schema' = [schema EXCEPT ![w] = "none"]
    /\ UNCHANGED <<stage, outcome, compiled, readers>>

(* Somebody edits a schema file, or makes or removes one. *)
Edit ==
    /\ engine = "running" /\ edits < EditBound
    /\ \E f \in SchemaFile : \E c \in (Content \cup {"broken"}) \ {file[f]} :
          /\ file' = [file EXCEPT ![f] = c]
          /\ held' = [held EXCEPT ![f] = @ \cup {c}]
    /\ edits' = edits + 1
    /\ UNCHANGED <<registryVars, engine, workers, compiled, readers>>

Step(w) ==
    \/ Lookup(w) \/ NoSchema(w) \/ RLock(w) \/ Hit(w) \/ Miss(w) \/ Compile(w)
    \/ Lock(w) \/ Store(w) \/ Accept(w) \/ Refuse(w)

Next ==
    \/ LoadFromDir /\ UNCHANGED <<engine, workers, compiled, readers, files>>
    \/ NewEngine \/ Edit
    \/ \E w \in Worker : engine = "running" /\ (Step(w) \/ Retry(w))

Spec == Init /\ [][Next]_vars

(* The goroutines run; there are too few readers to keep a writer waiting. *)
FairSpec == Spec /\ \A w \in Worker : WF_vars(engine = "running" /\ Step(w))

-----------------------------------------------------------------------------
(* Properties.                                                             *)

(* The schema that an input, a credential or an output is judged by is one *)
(* that the module of the action declares for it, with a text it has had:  *)
(* never a schema of the same name in another module, of an overridden     *)
(* declaration or of another stage, whoever compiled it (46-68).  Only the *)
(* path of a connection type's schema is not the module's: modules that    *)
(* give the same one share a file of the working directory.                *)
Declares(stg, winner) ==
    LET ref == IF stg = "credential" THEN CredentialSchema(winner) ELSE winner.action[stg]
    IN  CASE ref[1] = "inline" -> {ref[2]}
          [] ref[1] = "relative" /\ stg = "credential" -> held[ref]
          [] ref[1] = "relative" /\ stg # "credential" -> held[<<"file", winner.entry, ref[2]>>]

VerdictOwn ==
    \A w \in Worker : at[w] = "judge" =>
        schema[w] \in Declares(stage[w], Winner(call[w].action)) \ {"broken"}

(* The map of compiled schemas is never written while it is read or        *)
(* written: the runtime would end the process (52-66).                     *)
MapExclusive ==
    \A v, w \in Worker : v # w /\ at[v] = "write" => at[w] \notin {"read", "write"}

(* core.sleep that succeeds has slept as long as it was asked to, or the   *)
(* nanoseconds are no int64 (140, 152, 163); one that was asked nonsense in*)
(* the first field that counts fails, whatever the other fields say.  The  *)
(* exception is NaN, which no guard refuses (137, 149, 160).               *)
SleepAsAsked ==
    \A w \in Worker : call[w] # NoAction /\ call[w].action = "core.sleep" =>
        LET field == Asked(call[w].fields)[1]
            unit == Asked(call[w].fields)[2]
        IN  at[w] = "done" =>
              \/ field[1] = "nan"
              \/ /\ field[1] \in {"text", "number"} /\ field[2] >= 0
                 /\ outcome[w].slept = field[2] * unit \/ field[2] * unit >= Limit

(* Every attempt comes to an end: nobody holds the lock for ever.          *)
AttemptsEnd ==
    \A w \in Worker : engine = "running" /\ at[w] = "idle" ~> at[w] \in {"done", "error"}
=============================================================================
