------------------------------ MODULE Registry ------------------------------
(***************************************************************************)
(* Registry.LoadFromDir (src/internal/registry/registry.go): the actions   *)
(* that the directories of an action store declare, in an actionModule.yaml*)
(* or, where there is none, in the provider.yaml of an older store.  A     *)
(* schema is <<"none">>, <<"inline", text>>, <<"relative", name>> as it is *)
(* declared, or <<"file", directory, name>>.                               *)
(***************************************************************************)
EXTENDS Integers, Sequences, FiniteSetsExt

CONSTANTS
    Entry,       \* the entries of the store, numbered as os.ReadDir sorts them
    ActionName,  \* the names of actions; "" for an action without one
    Stores       \* the stores considered

(* Of each entry a store says: whether it is a directory; what is in its   *)
(* module and provider files, "absent", "broken" (unreadable or no YAML)   *)
(* or "yaml"; and its schema files.                                        *)
ASSUME StoresAssumption ==
    /\ Entry \subseteq Nat
    /\ \A s \in Stores : \A e \in Entry :
          /\ s[e].isDir \in BOOLEAN
          /\ \A yaml \in {s[e].module, s[e].provider, s[e].module.actionsFile} :
                /\ yaml.text \in {"absent", "broken", "yaml"}
                /\ yaml.actions \in Seq(Range(yaml.actions))
                /\ \A a \in Range(yaml.actions) : a.name \in ActionName
          /\ s[e].provider.text # "yaml" => s[e].provider.actions = <<>>

VARIABLES
    store,       \* the directory; never changes
    loading,     \* "entries", "done" or "failed"
    entries,     \* the entries that are left
    pending,     \* the actions of the current entry that are left
    registered   \* Registry.Actions

registryVars == <<store, loading, entries, pending, registered>>

NoAction == [name |-> "none"]

InitRegistry ==
    /\ store \in Stores
    /\ loading = "entries"
    /\ entries = Entry
    /\ pending = <<>>
    /\ registered = [n \in ActionName |-> NoAction]

Directory == store[Min(entries)]

NextEntry ==
    /\ loading = "entries" /\ pending = <<>> /\ entries # {}
    /\ entries' = entries \ {Min(entries)}
    /\ UNCHANGED <<store, registered>>

Queue(kind, actions) ==
    pending' = [i \in DOMAIN actions |->
                   [kind |-> kind, entry |-> Min(entries), action |-> actions[i]]]

SkipFile ==
    /\ NextEntry /\ ~Directory.isDir
    /\ UNCHANGED <<loading, pending>>

(* An actions block comes before an actions file (126-146). *)
ModuleActions(m) == IF m.actions # <<>> THEN m.actions ELSE m.actionsFile.actions

ModuleLoads(m) ==
    /\ m.text = "yaml"
    /\ m.actions # <<>> \/ m.actionsFile.text = "yaml"
    /\ m.entrypoint

LoadActionModule ==
    /\ NextEntry /\ Directory.isDir /\ Directory.module.text # "absent"
    /\ IF ModuleLoads(Directory.module)
       THEN Queue("module", ModuleActions(Directory.module)) /\ UNCHANGED loading
       ELSE loading' = "failed" /\ UNCHANGED pending

LoadLegacyProvider ==
    /\ NextEntry /\ Directory.isDir /\ Directory.module.text = "absent"
    /\ CASE Directory.provider.text = "absent" -> UNCHANGED <<loading, pending>>
         [] Directory.provider.text = "broken" -> loading' = "failed" /\ UNCHANGED pending
         [] OTHER -> Queue("legacy", Directory.provider.actions) /\ UNCHANGED loading

(* normalizeSchemaRef: a path is relative to the module. *)
SchemaMissing(ref, e) == ref[1] = "relative" /\ ref[2] \notin store[e].files

Normalize(ref, e) == IF ref[1] = "relative" THEN <<"file", e, ref[2]>> ELSE ref

Rejected(p) ==
    \/ p.kind = "module" /\ (p.action.name = "" \/ p.action.timeout = "invalid")
    \/ SchemaMissing(p.action.input, p.entry)
    \/ SchemaMissing(p.action.output, p.entry)

(* The connection types of the module itself; their schemas stay as they   *)
(* are declared (178-183).                                                 *)
CredentialSchema(p) ==
    LET types == store[p.entry].module.connectionTypes IN
    IF p.kind = "module" /\ p.action.credentialType \in DOMAIN types
    THEN types[p.action.credentialType] ELSE <<"none">>

Describe(p) ==
    [name       |-> p.action.name, entry |-> p.entry,
     timeout    |-> IF p.kind = "legacy" \/ p.action.timeout = "" THEN "30s" ELSE p.action.timeout,
     input      |-> Normalize(p.action.input, p.entry),
     output     |-> Normalize(p.action.output, p.entry),
     credential |-> CredentialSchema(p)]

SkipAction == pending' = Tail(pending) /\ UNCHANGED <<loading, registered>>

Fail == loading' = "failed" /\ UNCHANGED <<pending, registered>>

PutNew(p) ==
    IF registered[p.action.name] # NoAction THEN registered
    ELSE [registered EXCEPT ![p.action.name] = Describe(p)]

Put(p) == [registered EXCEPT ![p.action.name] = Describe(p)]

Register ==
    /\ loading = "entries" /\ pending # <<>>
    /\ IF Rejected(Head(pending)) THEN Fail
       ELSE /\ registered' = Put(Head(pending))
            /\ pending' = Tail(pending)
            /\ UNCHANGED loading
    /\ UNCHANGED <<store, entries>>

Loaded ==
    /\ loading = "entries" /\ pending = <<>> /\ entries = {}
    /\ loading' = "done"
    /\ UNCHANGED <<store, entries, pending, registered>>

LoadFromDir ==
    SkipFile \/ LoadActionModule \/ LoadLegacyProvider \/ Register \/ Loaded

-----------------------------------------------------------------------------
(* What the store declares, whatever the order in which it is read.        *)

Source(e) ==
    CASE ~store[e].isDir -> "none"
      [] store[e].isDir /\ store[e].module.text # "absent" -> "module"
      [] OTHER -> "legacy"

Declared(e) ==
    CASE Source(e) = "module" -> ModuleActions(store[e].module)
      [] Source(e) = "legacy" -> store[e].provider.actions
      [] OTHER -> <<>>

Declarations(n) ==
    {p \in UNION {{e} \X DOMAIN Declared(e) : e \in Entry} : Declared(p[1])[p[2]].name = n}

(* The last entry that declares n, and the last declaration in it. *)
Winner(n) ==
    LET e == Max({p[1] : p \in Declarations(n)})
        i == Max({p[2] : p \in {q \in Declarations(n) : q[1] = e}})
    IN  [kind |-> Source(e), entry |-> e, action |-> Declared(e)[i]]

(* A store is loaded whole or not at all (90-106): one broken module or one*)
(* bad action anywhere fails the engine, and a provider file beside a      *)
(* module is never looked at.                                              *)
AllOrNothing ==
    LET Sound(e) ==
            /\ Source(e) = "module" => ModuleLoads(store[e].module)
            /\ Source(e) = "legacy" => store[e].provider.text # "broken"
            /\ \A i \in DOMAIN Declared(e) :
                  ~Rejected([kind |-> Source(e), entry |-> e, action |-> Declared(e)[i]])
    IN  /\ loading = "done" => \A e \in Entry : Sound(e)
        /\ loading = "failed" => \E e \in Entry : ~Sound(e)

(* Of several declarations of a name the last one counts, and all of it:   *)
(* nothing of an overridden one, its schemas or its connection types, is   *)
(* left (76-78).                                                           *)
LastOneWins ==
    loading = "done" => \A n \in ActionName :
        IF Declarations(n) = {} THEN registered[n] = NoAction
        ELSE registered[n] = Describe(Winner(n))
=============================================================================
