--------------------------- MODULE ActionsProofs ---------------------------
(***************************************************************************)
(* Proofs about Actions, for every action store, every number of           *)
(* goroutines and whatever they call.                                      *)
(***************************************************************************)
EXTENDS Actions, WellFoundedInduction, SequenceTheorems, TLAPS

Point == {"idle", "validate", "read", "compile", "lock", "write", "judge", "done", "error"}

(***************************************************************************)
(* Locked: readers are those at "read", and a writer is alone.             *)
(***************************************************************************)
Locked ==
    /\ at \in [Worker -> Point]
    /\ readers = {w \in Worker : at[w] = "read"}
    /\ \A v, w \in Worker : v # w /\ at[v] = "write" => at[w] \notin {"read", "write"}

(* What one goroutine does is sound for all when it enters neither region, *)
(* or enters it as the lock allows.                                        *)
LEMMA LockKept ==
    ASSUME Locked, NEW w \in Worker, NEW p \in Point, at' = [at EXCEPT ![w] = p],
           readers' = IF p = "read" THEN readers \cup {w} ELSE readers \ {w},
           p = "read" => \A v \in Worker : at[v] # "write",
           p = "write" => readers = {} /\ \A v \in Worker : at[v] # "write"
    PROVE  Locked'
<1>1. at' \in [Worker -> Point] /\ at'[w] = p /\ \A v \in Worker \ {w} : at'[v] = at[v]
  BY DEF Locked
<1>2. readers' = {v \in Worker : at'[v] = "read"}
  BY <1>1 DEF Locked
<1>3. \A u, v \in Worker : u # v /\ at'[u] = "write" => at'[v] \notin {"read", "write"}
  BY <1>1 DEF Locked
<1> QED
  BY <1>1, <1>2, <1>3 DEF Locked

LEMMA LockedStep == Locked /\ [Next]_vars => Locked'
<1> SUFFICES ASSUME Locked, [Next]_vars PROVE Locked'
  OBVIOUS
<1>1. CASE UNCHANGED <<at, readers>>
  BY <1>1 DEF Locked
<1>2. ASSUME NEW w \in Worker, NEW p \in Point \ {"read", "write"},
             at[w] # "read", at' = [at EXCEPT ![w] = p], UNCHANGED readers
      PROVE  Locked'
  <2>1. readers \ {w} = readers
    BY <1>2 DEF Locked
  <2> QED
    BY <1>2, <2>1, LockKept
<1>a. CASE LoadFromDir /\ UNCHANGED <<engine, workers, compiled, readers, files>>
  BY <1>1, <1>a DEF workers
<1>b. CASE NewEngine
  BY <1>1, <1>b DEF NewEngine
<1>c. CASE Edit
  BY <1>1, <1>c DEF Edit, workers
<1>d. ASSUME NEW w \in Worker, Lookup(w) PROVE Locked'
  <2>1. at[w] = "idle" /\ UNCHANGED readers
    BY <1>d DEF Lookup, CallCore, CallBinary, Go
  <2>2. \E p \in {"done", "error", "validate"} : at' = [at EXCEPT ![w] = p]
    BY <1>d DEF Lookup, CallCore, CallBinary, Go
  <2> QED
    BY <1>2, <2>1, <2>2 DEF Point
<1>e. ASSUME NEW w \in Worker, NoSchema(w) \/ Accept(w) PROVE Locked'
  <2>1. at[w] \in {"validate", "judge"} /\ UNCHANGED readers
    BY <1>e DEF NoSchema, Accept, Proceed, Go
  <2>2. \E p \in {"done", "error", "validate"} : at' = [at EXCEPT ![w] = p]
    BY <1>e DEF NoSchema, Accept, Proceed, Go
  <2> QED
    BY <1>2, <2>1, <2>2 DEF Point
<1>f. ASSUME NEW w \in Worker, RLock(w) PROVE Locked'
  <2>1. at' = [at EXCEPT ![w] = "read"] /\ readers' = readers \cup {w}
        /\ \A v \in Worker : at[v] # "write"
    BY <1>f DEF RLock, Waiting, Go
  <2> QED
    BY <2>1, LockKept DEF Point
<1>g. ASSUME NEW w \in Worker, Hit(w) \/ Miss(w) PROVE Locked'
  <2>1. /\ \E p \in {"judge", "compile"} : at' = [at EXCEPT ![w] = p]
        /\ readers' = readers \ {w}
    BY <1>g DEF Hit, Miss, Waiting, Go
  <2> QED
    BY <2>1, LockKept DEF Point
<1>h. ASSUME NEW w \in Worker, Compile(w) \/ Refuse(w) \/ Store(w) \/ Retry(w) PROVE Locked'
  <2>1. at[w] \in {"compile", "judge", "write", "error"} /\ UNCHANGED readers
    BY <1>h DEF Compile, Refuse, Store, Retry, Waiting, Go
  <2>2. \E p \in {"error", "lock", "judge", "idle"} : at' = [at EXCEPT ![w] = p]
    BY <1>h DEF Compile, Refuse, Store, Retry, Waiting, Go
  <2> QED
    BY <1>2, <2>1, <2>2 DEF Point
<1>i. ASSUME NEW w \in Worker, Lock(w) PROVE Locked'
  <2>1. /\ at' = [at EXCEPT ![w] = "write"] /\ UNCHANGED readers
        /\ readers = {} /\ \A v \in Worker : at[v] # "write"
    BY <1>i DEF Lock, Waiting, Go
  <2> QED
    BY <2>1, LockKept DEF Point
<1>j. CASE UNCHANGED vars
  BY <1>1, <1>j DEF vars, workers
<1> QED
  BY <1>a, <1>b, <1>c, <1>d, <1>e, <1>f, <1>g, <1>h, <1>i, <1>j DEF Next, Step

(* No goroutine touches the map of compiled schemas while another writes   *)
(* it, however many share the validator.                                   *)
THEOREM MapIsExclusive == Spec => []MapExclusive
<1>1. Init => Locked
  BY DEF Init, Locked, Point
<1>2. Locked => MapExclusive
  BY DEF Locked, MapExclusive
<1> QED
  BY <1>1, <1>2, LockedStep, PTL DEF Spec

(***************************************************************************)
(* The registry.                                                           *)
(***************************************************************************)
LEMMA MinOfNats ==
    ASSUME NEW S \in SUBSET Nat, S # {}
    PROVE  Min(S) \in S /\ \A y \in S : Min(S) <= y
<1>1. \A x, y \in Nat : <<x, y>> \in OpToRel(<, Nat) <=> x < y
  BY DEF OpToRel
<1>2. \E R : IsWellFoundedOn(R, Nat) /\ \A x, y \in Nat : <<x, y>> \in R <=> x < y
  BY <1>1, NatLessThanWellFounded
<1>3. PICK R : IsWellFoundedOn(R, Nat) /\ \A x, y \in Nat : <<x, y>> \in R <=> x < y
  BY <1>2
<1>4. S \subseteq Nat
  OBVIOUS
<1>5. \E x \in S : \A y \in S : ~(<<y, x>> \in R)
  <2>1. IsWellFoundedOn(R, Nat)
    BY <1>3
  <2> QED
    BY <1>4, <2>1, WFMin, Zenon
<1>6. PICK m \in S : \A y \in S : ~(<<y, m>> \in R)
  BY <1>5
<1>7. \A y \in S : m <= y
  <2> TAKE y \in S
  <2>1. m \in Nat /\ y \in Nat /\ ~(y < m)
    BY <1>3, <1>4, <1>6
  <2> QED
    BY <2>1
<1> QED
  BY <1>4, <1>7 DEF Min

(* What loading has come to.  An action that is rejected and not yet       *)
(* loaded is still waiting.                                                *)
Item(e, i) == [kind |-> Source(e), entry |-> e, action |-> Declared(e)[i]]
Items == UNION {{Item(e, i) : i \in DOMAIN Declared(e)} : e \in Entry}

WellFormed(e) ==
    /\ Source(e) = "module" => ModuleLoads(store[e].module)
    /\ Source(e) = "legacy" => store[e].provider.text # "broken"

SoundEntry(e) == WellFormed(e) /\ \A i \in DOMAIN Declared(e) : ~Rejected(Item(e, i))

Loads ==
    /\ store \in Stores /\ entries \subseteq Entry
    /\ loading \in {"entries", "done", "failed"}
    /\ pending \in Seq(Items)
    /\ loading = "done" => entries = {} /\ pending = <<>>
    /\ loading = "failed" => \E e \in Entry : ~SoundEntry(e)
    /\ loading # "failed" => \A e \in Entry \ entries :
          /\ WellFormed(e)
          /\ \A i \in DOMAIN Declared(e) :
                Rejected(Item(e, i)) => \E j \in DOMAIN pending : pending[j] = Item(e, i)

LEMMA SameStore ==
    ASSUME UNCHANGED store
    PROVE  /\ \A e \in Entry : Declared(e)' = Declared(e) /\ WellFormed(e)' = WellFormed(e)
           /\ \A e \in Entry : \A i : Item(e, i)' = Item(e, i)
           /\ \A p : Rejected(p)' = Rejected(p)
           /\ \A e \in Entry : SoundEntry(e)' = SoundEntry(e)
           /\ Items' = Items
<1>1. \A e \in Entry : Source(e)' = Source(e) /\ Declared(e)' = Declared(e) /\ WellFormed(e)' = WellFormed(e)
  BY DEF Source, Declared, WellFormed
<1>2. \A e \in Entry : \A i : Item(e, i)' = Item(e, i)
  BY <1>1 DEF Item
<1>3. \A p : Rejected(p)' = Rejected(p)
  BY DEF Rejected, SchemaMissing
<1>4. \A e \in Entry : SoundEntry(e)' = SoundEntry(e)
  BY <1>1, <1>2, <1>3 DEF SoundEntry
<1>5. Items' = Items
  BY <1>1, <1>2 DEF Items
<1> QED
  BY <1>1, <1>2, <1>3, <1>4, <1>5

(* A step that takes the next entry and queues what it declares, if any,   *)
(* and one that ends loading with an entry that is not sound.              *)
Taking ==
    /\ loading = "entries" /\ pending = <<>> /\ entries # {}
    /\ UNCHANGED <<store, loading, registered>>
    /\ entries' = entries \ {Min(entries)}
    /\ WellFormed(Min(entries))
    /\ Declared(Min(entries)) \in Seq(Range(Declared(Min(entries))))
    /\ pending' = [i \in DOMAIN Declared(Min(entries)) |-> Item(Min(entries), i)]

Refusing ==
    /\ loading' = "failed" /\ UNCHANGED <<store, pending, registered>>
    /\ entries' \subseteq Entry
    /\ \E e \in Entry : ~SoundEntry(e)

Registering == Register /\ ~Rejected(Head(pending))

LEMMA PendingTail ==
    ASSUME Loads, pending # <<>>
    PROVE  /\ Head(pending) \in Items /\ Tail(pending) \in Seq(Items) /\ Head(pending) = pending[1]
           /\ Len(pending) \in Nat /\ Len(Tail(pending)) = Len(pending) - 1
           /\ DOMAIN pending = 1..Len(pending) /\ DOMAIN Tail(pending) = 1..Len(Tail(pending))
           /\ \A k \in 1..Len(Tail(pending)) : Tail(pending)[k] = pending[k + 1]
           /\ \A j \in DOMAIN pending : pending[j] = Head(pending)
                 \/ \E k \in DOMAIN Tail(pending) : Tail(pending)[k] = pending[j]
<1>1. /\ Head(pending) \in Items /\ Tail(pending) \in Seq(Items) /\ Head(pending) = pending[1]
      /\ Len(Tail(pending)) = Len(pending) - 1
      /\ \A k \in 1..Len(Tail(pending)) : Tail(pending)[k] = pending[k + 1]
  BY HeadTailProperties DEF Loads
<1>2. DOMAIN pending = 1..Len(pending) /\ DOMAIN Tail(pending) = 1..Len(Tail(pending))
      /\ Len(pending) \in Nat
  BY <1>1, LenProperties DEF Loads
<1>3. \A j \in 1..Len(pending) : j = 1 \/ (j - 1 \in 1..(Len(pending) - 1) /\ (j - 1) + 1 = j)
  BY <1>2
<1> QED
  BY <1>1, <1>2, <1>3

(* All that a step can do to the registry.                                 *)
LEMMA LoadingSteps ==
    ASSUME Loads, [Next]_vars
    PROVE  UNCHANGED registryVars \/ Taking \/ Refusing \/ Registering \/ Loaded
<1> DEFINE m == Min(entries)
<1>0. ASSUME entries # {}
      PROVE  /\ m \in Entry
             /\ \A yaml \in {store[m].module, store[m].provider, store[m].module.actionsFile} :
                   yaml.actions \in Seq(Range(yaml.actions))
             /\ store[m].provider.text \in {"absent", "broken", "yaml"}
             /\ store[m].provider.text # "yaml" => store[m].provider.actions = <<>>
             /\ store[m].isDir \in BOOLEAN
  <2>1. m \in Entry /\ store \in Stores
    BY <1>0, MinOfNats, StoresAssumption DEF Loads
  <2> QED
    BY <2>1, StoresAssumption
<1>a. CASE SkipFile
  <2>1. /\ loading = "entries" /\ pending = <<>> /\ entries # {} /\ entries' = entries \ {m}
        /\ UNCHANGED <<store, loading, pending, registered>> /\ ~store[m].isDir
    BY <1>a DEF SkipFile, NextEntry, Directory
  <2>2. Declared(m) = <<>> /\ WellFormed(m)
    <3>1. ~store[m].isDir
      BY <2>1
    <3>2. Source(m) = "none"
      BY <3>1 DEF Source
    <3> QED
      BY <3>2 DEF Declared, WellFormed
  <2>3. pending' = [i \in DOMAIN Declared(m) |-> Item(m, i)]
    BY <2>1, <2>2
  <2>4. Declared(m) \in Seq(Range(Declared(m)))
    BY <2>2
  <2> QED
    BY <2>1, <2>2, <2>3, <2>4 DEF Taking
<1>b. CASE LoadActionModule
  <2>1. /\ loading = "entries" /\ pending = <<>> /\ entries # {} /\ entries' = entries \ {m}
        /\ UNCHANGED <<store, registered>> /\ store[m].isDir /\ store[m].module.text # "absent"
    BY <1>b DEF LoadActionModule, NextEntry, Directory
  <2>2. Source(m) = "module" /\ Declared(m) = ModuleActions(store[m].module)
    BY <2>1 DEF Source, Declared
  <2>3. Declared(m) \in Seq(Range(Declared(m)))
    BY <1>0, <2>1, <2>2 DEF ModuleActions
  <2>4. CASE ModuleLoads(store[m].module)
    <3>1. UNCHANGED loading /\ pending' = [i \in DOMAIN Declared(m) |-> Item(m, i)]
      BY <1>b, <2>2, <2>4 DEF LoadActionModule, Directory, Queue, Item
    <3>2. WellFormed(m)
      BY <2>2, <2>4 DEF WellFormed
    <3> QED
      BY <2>1, <2>3, <3>1, <3>2 DEF Taking
  <2>5. CASE ~ModuleLoads(store[m].module)
    <3>1. loading' = "failed" /\ UNCHANGED pending
      BY <1>b, <2>5 DEF LoadActionModule, Directory
    <3>2. ~SoundEntry(m) /\ m \in Entry /\ entries' \subseteq Entry
      BY <1>0, <2>1, <2>2, <2>5 DEF SoundEntry, WellFormed, Loads
    <3> QED
      BY <2>1, <3>1, <3>2 DEF Refusing
  <2> QED
    BY <2>4, <2>5
<1>c. CASE LoadLegacyProvider
  <2>1. /\ loading = "entries" /\ pending = <<>> /\ entries # {} /\ entries' = entries \ {m}
        /\ UNCHANGED <<store, registered>> /\ store[m].isDir /\ store[m].module.text = "absent"
    BY <1>c DEF LoadLegacyProvider, NextEntry, Directory
  <2>2. Source(m) = "legacy" /\ Declared(m) = store[m].provider.actions
    BY <2>1 DEF Source, Declared
  <2>3. Declared(m) \in Seq(Range(Declared(m)))
    BY <1>0, <2>1, <2>2
  <2>4. CASE store[m].provider.text # "broken"
    <3>1. UNCHANGED loading /\ pending' = [i \in DOMAIN Declared(m) |-> Item(m, i)]
      <4>1. CASE store[m].provider.text = "absent"
        BY <1>0, <1>c, <2>1, <2>2, <4>1 DEF LoadLegacyProvider, Directory
      <4>2. CASE store[m].provider.text = "yaml"
        BY <1>c, <2>2, <4>2 DEF LoadLegacyProvider, Directory, Queue, Item
      <4> QED
        BY <1>0, <2>1, <2>4, <4>1, <4>2
    <3>2. WellFormed(m)
      BY <2>2, <2>4 DEF WellFormed
    <3> QED
      BY <2>1, <2>3, <3>1, <3>2 DEF Taking
  <2>5. CASE store[m].provider.text = "broken"
    <3>1. loading' = "failed" /\ UNCHANGED pending
      BY <1>c, <2>5 DEF LoadLegacyProvider, Directory
    <3>2. ~SoundEntry(m) /\ m \in Entry /\ entries' \subseteq Entry
      BY <1>0, <2>1, <2>2, <2>5 DEF SoundEntry, WellFormed, Loads
    <3> QED
      BY <2>1, <3>1, <3>2 DEF Refusing
  <2> QED
    BY <2>4, <2>5
<1>d. CASE Register /\ Rejected(Head(pending))
  <2>1. /\ loading = "entries" /\ pending # <<>> /\ UNCHANGED <<store, entries>>
        /\ loading' = "failed" /\ UNCHANGED <<pending, registered>>
    BY <1>d DEF Register, Fail
  <2>2. PICK e \in Entry : \E i \in DOMAIN Declared(e) : Head(pending) = Item(e, i)
    BY <2>1, PendingTail DEF Items
  <2>3. ~SoundEntry(e) /\ entries' \subseteq Entry
    BY <1>d, <2>1, <2>2 DEF SoundEntry, Loads
  <2> QED
    BY <2>1, <2>3 DEF Refusing
<1>e. CASE Register /\ ~Rejected(Head(pending))
  BY <1>e DEF Registering
<1>f. CASE NewEngine
  BY <1>f DEF NewEngine
<1>g. CASE Edit
  BY <1>g DEF Edit
<1>h. ASSUME NEW w \in Worker, Step(w) \/ Retry(w) PROVE UNCHANGED registryVars
  BY <1>h DEF Step, Retry, Lookup, CallCore, CallBinary, NoSchema, RLock, Hit, Miss, Compile, Lock,
              Store, Accept, Refuse, Proceed, Waiting, Go
<1>i. CASE UNCHANGED vars
  BY <1>i DEF vars
<1> QED
  BY <1>a, <1>b, <1>c, <1>d, <1>e, <1>f, <1>g, <1>h, <1>i DEF Next, LoadFromDir

LEMMA LoadsStep == Loads /\ [Next]_vars => Loads'
<1> SUFFICES ASSUME Loads, [Next]_vars PROVE Loads'
  OBVIOUS
<1>1. CASE UNCHANGED registryVars
  BY <1>1, SameStore DEF registryVars, Loads
<1>2. CASE Taking
  <2> DEFINE m == Min(entries)
  <2>1. /\ pending = <<>> /\ loading = "entries" /\ entries # {} /\ entries' = entries \ {m}
        /\ UNCHANGED <<store, loading>> /\ WellFormed(m)
        /\ Declared(m) \in Seq(Range(Declared(m)))
        /\ pending' = [i \in DOMAIN Declared(m) |-> Item(m, i)]
    BY <1>2 DEF Taking
  <2>2. m \in entries /\ m \in Entry
    BY <2>1, MinOfNats, StoresAssumption DEF Loads
  <2>3. pending' \in Seq(Items)
    <3>1. PICK n \in Nat : DOMAIN Declared(m) = 1..n
      BY <2>1, SeqDef
    <3>2. pending' \in [1..n -> Items]
      BY <2>1, <2>2, <3>1 DEF Items
    <3> QED
      BY <3>1, <3>2, SeqDef
  <2>4. ASSUME NEW e \in Entry \ entries', NEW i \in DOMAIN Declared(e), Rejected(Item(e, i))
        PROVE  \E j \in DOMAIN pending' : pending'[j] = Item(e, i)
    <3>1. CASE e = m
      BY <2>1, <2>4, <3>1
    <3>2. CASE e # m
      BY <2>1, <2>4, <3>2 DEF Loads
    <3> QED
      BY <3>1, <3>2
  <2>5. \A e \in Entry \ entries' : WellFormed(e)
    BY <2>1 DEF Loads
  <2> QED
    BY <2>1, <2>2, <2>3, <2>4, <2>5, SameStore DEF Loads
<1>3. CASE Refusing
  BY <1>3, SameStore DEF Refusing, Loads
<1>4. CASE Registering
  <2>1. /\ loading = "entries" /\ pending # <<>> /\ UNCHANGED <<store, entries, loading>>
        /\ pending' = Tail(pending) /\ ~Rejected(Head(pending))
    BY <1>4 DEF Registering, Register
  <2>2. ASSUME NEW e \in Entry \ entries, NEW i \in DOMAIN Declared(e), Rejected(Item(e, i))
        PROVE  \E j \in DOMAIN pending' : pending'[j] = Item(e, i)
    <3>1. PICK j \in DOMAIN pending : pending[j] = Item(e, i)
      BY <2>1, <2>2 DEF Loads
    <3> QED
      BY <2>1, <2>2, <3>1, PendingTail
  <2> QED
    BY <2>1, <2>2, PendingTail, SameStore DEF Loads
<1>5. CASE Loaded
  BY <1>5, SameStore DEF Loaded, Loads
<1> QED
  BY <1>1, <1>2, <1>3, <1>4, <1>5, LoadingSteps

(* Whatever is in the directories of a store, loading comes to its end     *)
(* exactly when every one of them is sound, and no engine is made of less. *)
THEOREM LoadsWholeOrNot == Spec => []AllOrNothing
<1>1. Init => Loads
  BY DEF Init, InitRegistry, Loads
<1>2. Loads => AllOrNothing
  <2> SUFFICES ASSUME Loads PROVE AllOrNothing
    OBVIOUS
  <2>1. loading = "done" => \A e \in Entry : SoundEntry(e)
    BY DEF Loads, SoundEntry
  <2>2. loading = "failed" => \E e \in Entry : ~SoundEntry(e)
    BY DEF Loads
  <2> QED
    BY <2>1, <2>2 DEF AllOrNothing, SoundEntry, WellFormed, Item
<1> QED
  BY <1>1, <1>2, LoadsStep, PTL DEF Spec

(* Taken: the declarations that have been registered; those of the current *)
(* entry up to the ones that are pending.                                  *)
Taken(e, i) ==
    /\ e \in Entry \ entries /\ i \in DOMAIN Declared(e)
    /\ pending # <<>> /\ e = Head(pending).entry => i <= Len(Declared(e)) - Len(pending)

Named(n, e, i) == Taken(e, i) /\ Declared(e)[i].name = n

Newest(n) ==
    \/ registered[n] = NoAction /\ \A e, i : ~Named(n, e, i)
    \/ \E e, i : /\ Named(n, e, i) /\ registered[n] = Describe(Item(e, i))
                 /\ \A d, j : Named(n, d, j) => d < e \/ (d = e /\ j <= i)

InOrder ==
    /\ \A e \in Entry \ entries, f \in entries : e < f
    /\ pending # <<>> =>
          LET c == Head(pending).entry IN
          /\ c \in Entry \ entries /\ \A e \in Entry \ entries : e <= c
          /\ Declared(c) \in Seq(Range(Declared(c))) /\ Len(pending) <= Len(Declared(c))
          /\ \A k \in 1..Len(pending) : pending[k] = Item(c, Len(Declared(c)) - Len(pending) + k)

Order ==
    /\ DOMAIN registered = ActionName
    /\ registered = [n \in ActionName |-> registered[n]]
    /\ loading # "failed" => InOrder /\ \A n \in ActionName : Newest(n)

LEMMA SameDescription ==
    ASSUME UNCHANGED store
    PROVE  \A p : Describe(p)' = Describe(p)
  BY DEF Describe, Normalize, CredentialSchema

(* What is registered under a name stays right when the same declarations  *)
(* of that name count as taken.                                            *)
LEMMA NewestKept ==
    ASSUME NEW n, Newest(n), UNCHANGED store, registered'[n] = registered[n],
           \A e, i : Named(n, e, i)' <=> Named(n, e, i)
    PROVE  Newest(n)'
<1>1. \A e, i : Named(n, e, i) => Item(e, i)' = Item(e, i)
  BY SameStore DEF Named, Taken
<1> QED
  BY <1>1, SameDescription DEF Newest

LEMMA SameLength ==
    ASSUME NEW a \in Nat, NEW b \in Nat, 1..a = 1..b
    PROVE  a = b
<1>1. \A x \in Nat : (x \in 1..a <=> 1 <= x /\ x <= a) /\ (x \in 1..b <=> 1 <= x /\ x <= b)
  OBVIOUS
<1>2. CASE a < b
  BY <1>1, <1>2
<1>3. CASE b < a
  BY <1>1, <1>3
<1> QED
  BY <1>2, <1>3

LEMMA OrderStep == Loads /\ Order /\ [Next]_vars => Order'
<1> SUFFICES ASSUME Loads, Order, [Next]_vars PROVE Order'
  OBVIOUS
<1>1. CASE UNCHANGED registryVars \/ Loaded
  <2>1. UNCHANGED <<store, entries, pending, registered>> /\ (loading' # "failed" => loading # "failed")
    BY <1>1 DEF registryVars, Loaded
  <2>2. \A n, e, i : Named(n, e, i)' <=> Named(n, e, i)
    BY <2>1, SameStore DEF Named, Taken
  <2>3. loading # "failed" => \A n \in ActionName : Newest(n)'
    BY <2>1, <2>2, NewestKept DEF Order
  <2>4. loading # "failed" => InOrder'
    BY <2>1, SameStore DEF Order, InOrder
  <2> QED
    BY <2>1, <2>3, <2>4 DEF Order
<1>2. CASE Taking
  <2>0. PICK m : m = Min(entries)
    OBVIOUS
  <2>1. /\ pending = <<>> /\ loading = "entries" /\ entries # {} /\ entries' = entries \ {m}
        /\ UNCHANGED <<store, loading, registered>>
        /\ Declared(m) \in Seq(Range(Declared(m)))
        /\ pending' = [i \in DOMAIN Declared(m) |-> Item(m, i)]
    BY <1>2, <2>0 DEF Taking
  <2>2. /\ m \in entries /\ m \in Entry /\ entries \subseteq Entry /\ Entry \subseteq Nat
        /\ \A f \in entries : m <= f
    BY <2>0, <2>1, MinOfNats, StoresAssumption DEF Loads
  <2>3. /\ DOMAIN Declared(m) = 1..Len(Declared(m)) /\ Len(Declared(m)) \in Nat
        /\ Len(pending') = Len(Declared(m)) /\ DOMAIN pending' = DOMAIN Declared(m)
        /\ pending' = <<>> => Len(Declared(m)) = 0
        /\ pending' # <<>> => Head(pending') = pending'[1] /\ 1 \in DOMAIN Declared(m)
    <3>1. pending' \in Seq(Items')
      BY LoadsStep DEF Loads
    <3>2. /\ DOMAIN Declared(m) = 1..Len(Declared(m)) /\ Len(Declared(m)) \in Nat
          /\ DOMAIN pending' = 1..Len(pending') /\ Len(pending') \in Nat
      BY <2>1, <3>1, LenProperties
    <3>3. DOMAIN pending' = DOMAIN Declared(m)
      BY <2>1
    <3>4. Len(pending') = Len(Declared(m))
      BY <3>2, <3>3, SameLength
    <3>5. pending' = <<>> => Len(pending') = 0
      OBVIOUS
    <3>6. pending' # <<>> => Head(pending') = pending'[1] /\ 1 \in DOMAIN pending'
      BY <3>1, <3>2, EmptySeq
    <3> QED
      BY <3>2, <3>3, <3>4, <3>5, <3>6
  <2>4. pending' # <<>> => Head(pending').entry = m
    BY <2>1, <2>3 DEF Item
  <2>5. \A n, e, i : Named(n, e, i)' <=> Named(n, e, i)
    <3> SUFFICES ASSUME NEW e, NEW i PROVE Taken(e, i)' <=> Taken(e, i)
      BY <2>1, <2>2, SameStore DEF Named, Taken
    <3>1. CASE e = m
      <4>1. ~Taken(e, i)
        BY <2>2, <3>1 DEF Taken
      <4>2. Declared(m)' = Declared(m)
        BY <2>1, <2>2, SameStore
      <4>3. i \in 1..Len(Declared(m)) => ~(i <= Len(Declared(m)) - Len(pending'))
        BY <2>3
      <4>4. ~Taken(e, i)'
        BY <2>3, <2>4, <3>1, <4>2, <4>3 DEF Taken
      <4> QED
        BY <4>1, <4>4
    <3>2. CASE e # m
      BY <2>1, <2>2, <2>4, <3>2, SameStore DEF Taken
    <3> QED
      BY <3>1, <3>2
  <2>6. \A n \in ActionName : Newest(n)'
    BY <2>1, <2>5, NewestKept DEF Order
  <2>7. \A e \in Entry \ entries', f \in entries' : e < f
    BY <2>1, <2>2 DEF Order, InOrder
  <2>8. \A e \in Entry \ entries' : e <= m
    BY <2>1, <2>2 DEF Order, InOrder
  <2>9. InOrder'
    <3>1. Declared(m)' = Declared(m) /\ \A i : Item(m, i)' = Item(m, i)
      BY <2>1, <2>2, SameStore
    <3>2. \A i \in 1..Len(pending') : pending'[i] = Item(m, Len(Declared(m)) - Len(pending') + i)
      <4> SUFFICES ASSUME NEW i \in 1..Len(pending')
                   PROVE  pending'[i] = Item(m, Len(Declared(m)) - Len(pending') + i)
        OBVIOUS
      <4>1. Len(Declared(m)) - Len(pending') + i = i
        BY <2>3
      <4>2. pending'[i] = Item(m, i)
        BY <2>1, <2>3
      <4> QED
        BY <4>1, <4>2
    <3>3. Len(pending') <= Len(Declared(m)) /\ m \in Entry \ entries'
      BY <2>1, <2>2, <2>3
    <3> QED
      BY <2>1, <2>4, <2>7, <2>8, <3>1, <3>2, <3>3 DEF InOrder
  <2> QED
    BY <2>1, <2>6, <2>9 DEF Order
<1>3. CASE Refusing
  BY <1>3 DEF Refusing, Order
<1>4. CASE Registering
  <2> DEFINE p == Head(pending)
  <2>0. PICK c, k : c = p.entry /\ k = Len(Declared(c)) - Len(pending) + 1
    OBVIOUS
  <2>1. /\ loading = "entries" /\ pending # <<>> /\ UNCHANGED <<store, entries, loading>>
        /\ pending' = Tail(pending) /\ registered' = Put(p)
    BY <1>4 DEF Registering, Register
  <2>2. /\ c \in Entry \ entries /\ \A e \in Entry \ entries : e <= c
        /\ Declared(c) \in Seq(Range(Declared(c))) /\ Len(pending) <= Len(Declared(c))
        /\ \A j \in 1..Len(pending) : pending[j] = Item(c, Len(Declared(c)) - Len(pending) + j)
        /\ \A n \in ActionName : Newest(n)
    BY <2>0, <2>1 DEF Order, InOrder
  <2>3. /\ DOMAIN Declared(c) = 1..Len(Declared(c)) /\ Len(Declared(c)) \in Nat
        /\ Len(pending) \in Nat \ {0} /\ Len(pending') = Len(pending) - 1
        /\ p = pending[1] /\ \A j \in 1..Len(pending') : pending'[j] = pending[j + 1]
    BY <2>1, <2>2, PendingTail, LenProperties, EmptySeq DEF Loads
  <2>4. p = Item(c, k) /\ k \in DOMAIN Declared(c)
    BY <2>0, <2>2, <2>3
  <2>5. pending' # <<>> => Head(pending').entry = c /\ Len(pending) # 1
    <3>1. pending' # <<>> => Head(pending') = pending'[1] /\ Len(pending') # 0
      BY <2>1, PendingTail, EmptySeq
    <3>2. pending' # <<>> => 1 \in 1..Len(pending') /\ 1 + 1 \in 1..Len(pending) /\ Len(pending) # 1
      BY <2>3, <3>1
    <3>3. pending' # <<>> => Head(pending') = Item(c, Len(Declared(c)) - Len(pending) + (1 + 1))
      BY <2>2, <2>3, <3>1, <3>2
    <3> QED
      BY <3>2, <3>3 DEF Item
  <2>6. pending' = <<>> => Len(pending) = 1
    BY <2>3
  <2>7. Declared(c)' = Declared(c) /\ \A i : Item(c, i)' = Item(c, i)
    BY <2>1, <2>2, SameStore
  <2>8. \A e, i : Taken(e, i)' <=> Taken(e, i) \/ (e = c /\ i = k)
    <3> SUFFICES ASSUME NEW e, NEW i PROVE Taken(e, i)' <=> Taken(e, i) \/ (e = c /\ i = k)
      OBVIOUS
    <3>1. CASE e # c
      BY <2>0, <2>1, <2>5, <3>1, SameStore DEF Taken
    <3>2. CASE e = c
      <4>1. Taken(c, i) <=> i \in DOMAIN Declared(c) /\ i <= Len(Declared(c)) - Len(pending)
        BY <2>0, <2>1, <2>2 DEF Taken
      <4>2. Taken(c, i)' <=> i \in DOMAIN Declared(c) /\ i <= Len(Declared(c)) - Len(pending')
        <5>1. Taken(c, i)' <=> i \in DOMAIN Declared(c)
                               /\ (pending' # <<>> => i <= Len(Declared(c)) - Len(pending'))
          BY <2>1, <2>2, <2>5, <2>7 DEF Taken
        <5>2. pending' = <<>> /\ i \in DOMAIN Declared(c) => i <= Len(Declared(c)) - Len(pending')
          <6>1. CASE pending' = <<>> /\ i \in DOMAIN Declared(c)
            <7>1. i \in 1..Len(Declared(c)) /\ Len(pending') = 0
              BY <2>3, <2>6, <6>1
            <7>2. Len(Declared(c)) \in Nat
              BY <2>3
            <7>3. ASSUME NEW a \in Nat, NEW b, b = 0, i \in 1..a PROVE i <= a - b
              BY <7>3
            <7> QED
              BY <7>1, <7>2, <7>3
          <6> QED
            BY <6>1
        <5> QED
          BY <5>1, <5>2
      <4>3. i \in DOMAIN Declared(c) =>
              (i <= Len(Declared(c)) - Len(pending') <=> i <= Len(Declared(c)) - Len(pending) \/ i = k)
        BY <2>0, <2>3
      <4> QED
        BY <2>4, <3>2, <4>1, <4>2, <4>3
    <3> QED
      BY <3>1, <3>2
  <2>9. p.action = Declared(c)[k] /\ p.action.name = Declared(c)[k].name
    BY <2>4 DEF Item
  <2>10. ASSUME NEW n \in ActionName PROVE Newest(n)'
    <3>1. CASE n # p.action.name
      <4>1. registered'[n] = registered[n]
        BY <2>1, <3>1 DEF Put, Order
      <4>2. \A e, i : Named(n, e, i)' <=> Named(n, e, i)
        BY <2>1, <2>2, <2>7, <2>8, <2>9, <3>1, SameStore DEF Named, Taken
      <4> QED
        BY <2>1, <2>2, <4>1, <4>2, NewestKept
    <3>2. CASE n = p.action.name
      <4>1. registered'[n] = Describe(Item(c, k))
        BY <2>1, <2>4, <3>2 DEF Put, Order
      <4>2. Named(n, c, k)'
        BY <2>7, <2>8, <2>9, <3>2 DEF Named
      <4>3. ASSUME NEW d, NEW j, Named(n, d, j)' PROVE d < c \/ (d = c /\ j <= k)
        <5>1. CASE d = c /\ j = k
          BY <2>3, <2>4, <5>1
        <5>2. CASE Taken(d, j) /\ d = c
          BY <2>0, <2>1, <2>3, <5>2 DEF Taken
        <5>3. CASE Taken(d, j) /\ d # c
          <6>1. d <= c /\ d \in Nat /\ c \in Nat
            BY <2>2, <5>3, StoresAssumption DEF Taken
          <6> QED
            BY <5>3, <6>1
        <5> QED
          BY <2>8, <4>3, <5>1, <5>2, <5>3 DEF Named
      <4>4. registered'[n] = Describe(Item(c, k))'
        BY <2>1, <2>7, <4>1, SameDescription
      <4> QED
        BY <4>2, <4>3, <4>4 DEF Newest
    <3> QED
      BY <3>1, <3>2
  <2>11. InOrder'
    <3>1. \A j \in 1..Len(pending') : pending'[j] = Item(c, Len(Declared(c)) - Len(pending') + j)
      <4> SUFFICES ASSUME NEW j \in 1..Len(pending')
                   PROVE  pending'[j] = Item(c, Len(Declared(c)) - Len(pending') + j)
        OBVIOUS
      <4>1. /\ j + 1 \in 1..Len(pending)
            /\ Len(Declared(c)) - Len(pending) + (j + 1) = Len(Declared(c)) - Len(pending') + j
        BY <2>3
      <4> QED
        BY <2>2, <2>3, <4>1
    <3>2. Len(pending') <= Len(Declared(c))
      BY <2>2, <2>3
    <3>3. \A e \in Entry \ entries, f \in entries : e < f
      BY <2>1 DEF Order, InOrder
    <3> QED
      BY <2>1, <2>2, <2>5, <2>7, <3>1, <3>2, <3>3 DEF InOrder
  <2>12. DOMAIN registered' = ActionName /\ registered' = [n \in ActionName |-> registered'[n]]
    BY <2>1 DEF Put, Order
  <2> QED
    BY <2>10, <2>11, <2>12 DEF Order
<1> QED
  BY <1>1, <1>2, <1>3, <1>4, LoadingSteps

LEMMA DeclaredIndices ==
    ASSUME store \in Stores, NEW e \in Entry
    PROVE  DOMAIN Declared(e) \subseteq Nat
<1>1. \A yaml \in {store[e].module, store[e].provider, store[e].module.actionsFile} :
         yaml.actions \in Seq(Range(yaml.actions))
  BY StoresAssumption
<1>2. \E S : Declared(e) \in Seq(S)
  <2>1. Declared(e) \in {store[e].module.actions, store[e].module.actionsFile.actions,
                         store[e].provider.actions, <<>>}
    BY DEF Declared, ModuleActions
  <2>2. \A s \in {store[e].module.actions, store[e].module.actionsFile.actions,
                  store[e].provider.actions, <<>>} : \E S : s \in Seq(S)
    <3>1. <<>> \in Seq({})
      OBVIOUS
    <3> QED
      BY <1>1, <3>1
  <2> QED
    BY <2>1, <2>2
<1> QED
  BY <1>2, LenProperties

(* What is registered once loading is done.                                *)
LEMMA WinnerFound ==
    ASSUME Loads, Order, loading = "done", NEW n \in ActionName
    PROVE  \/ Declarations(n) = {} /\ registered[n] = NoAction
           \/ \E e \in Entry : \E i \in DOMAIN Declared(e) :
                 /\ Declarations(n) # {} /\ Winner(n) = Item(e, i) /\ registered[n] = Describe(Item(e, i))
<1>1. entries = {} /\ pending = <<>> /\ Newest(n)
  BY DEF Loads, Order
<1>2. \A e, i : Named(n, e, i) <=> e \in Entry /\ i \in DOMAIN Declared(e) /\ Declared(e)[i].name = n
  BY <1>1 DEF Named, Taken
<1>3. \A e, i : <<e, i>> \in Declarations(n) <=> Named(n, e, i)
  BY <1>2 DEF Declarations
<1>4. \A q \in Declarations(n) : q = <<q[1], q[2]>> /\ Named(n, q[1], q[2])
  BY <1>2 DEF Declarations
<1>5. CASE registered[n] = NoAction /\ \A e, i : ~Named(n, e, i)
  <2>1. Declarations(n) = {}
    BY <1>4, <1>5
  <2> QED
    BY <1>5, <2>1
<1>6. ASSUME NEW e, NEW i, Named(n, e, i), registered[n] = Describe(Item(e, i)),
             \A d, j : Named(n, d, j) => d < e \/ (d = e /\ j <= i)
      PROVE  Declarations(n) # {} /\ Winner(n) = Item(e, i) /\ e \in Entry /\ i \in DOMAIN Declared(e)
  <2>1. <<e, i>> \in Declarations(n)
    BY <1>3, <1>6
  <2>2. Max({p[1] : p \in Declarations(n)}) = e
    <3> DEFINE E == {p[1] : p \in Declarations(n)}
    <3>1. e \in E /\ E \subseteq Nat /\ \A d \in E : e >= d
      BY <1>4, <1>6, <2>1, <1>2, StoresAssumption
    <3> QED
      BY <3>1 DEF Max
  <2>3. Max({p[2] : p \in {q \in Declarations(n) : q[1] = e}}) = i
    <3> DEFINE I == {p[2] : p \in {q \in Declarations(n) : q[1] = e}}
    <3>1. i \in I /\ I \subseteq Nat /\ \A j \in I : i >= j
      <4>1. i \in I
        BY <2>1
      <4>2. \A j \in I : Named(n, e, j)
        BY <1>4
      <4>3. DOMAIN Declared(e) \subseteq Nat
        BY <1>2, <1>6, DeclaredIndices DEF Loads
      <4>4. I \subseteq Nat
        BY <1>2, <4>2, <4>3
      <4>5. \A j \in I : j <= i
        <5>1. e \in Nat /\ \A d \in Nat : ~(d < d)
          <6>1. e \in Entry
            BY <1>2, <1>6
          <6>2. Entry \subseteq Nat
            BY StoresAssumption
          <6> QED
            BY <6>1, <6>2
        <5> QED
          BY <1>6, <4>2, <5>1
      <4> QED
        BY <4>1, <4>4, <4>5
    <3> QED
      BY <3>1 DEF Max
  <2> QED
    BY <1>2, <1>6, <2>1, <2>2, <2>3 DEF Winner, Item
<1> QED
  BY <1>1, <1>5, <1>6 DEF Newest

LEMMA InitOrdered == Init => Loads /\ Order
<1> SUFFICES ASSUME Init PROVE Loads /\ Order
  OBVIOUS
<1>1. entries = Entry /\ pending = <<>> /\ registered = [n \in ActionName |-> NoAction]
  BY DEF Init, InitRegistry
<1>2. Loads
  BY DEF Init, InitRegistry, Loads
<1>3. InOrder /\ \A n \in ActionName : Newest(n)
  BY <1>1 DEF InOrder, Newest, Named, Taken
<1> QED
  BY <1>1, <1>2, <1>3 DEF Order

(* For every store that loads, the registry holds under each name the last *)
(* declaration of it, whole, in whatever entries the others were.          *)
THEOREM LastDeclarationWins == Spec => []LastOneWins
<1>1. Init => Loads /\ Order
  BY InitOrdered
<1>2. Loads /\ Order => LastOneWins
  BY WinnerFound DEF LastOneWins
<1>3. Loads /\ Order /\ [Next]_vars => Loads' /\ Order'
  BY LoadsStep, OrderStep
<1> QED
  BY <1>1, <1>2, <1>3, PTL DEF Spec

(***************************************************************************)
(* The cache.  Texts(key): what a schema may be compiled from.             *)
(***************************************************************************)
Stage == {"input", "credential", "output"}

Texts(key) == (IF key[1] = "inline" THEN {key[2]} ELSE held[key]) \ {"broken"}

Calling(w) == call[w].action \in ActionName /\ registered[call[w].action] # NoAction

Cache ==
    /\ compiled = [key \in Key |-> compiled[key]]
    /\ \A key \in Key : compiled[key] # "none" => compiled[key] \in Texts(key)
    /\ \A f \in SchemaFile : file[f] \in held[f]
    /\ held = [f \in SchemaFile |-> held[f]]

Judging ==
    /\ stage \in [Worker -> Stage]
    /\ schema = [w \in Worker |-> schema[w]]
    /\ engine = "running" => loading = "done"
    /\ \A w \in Worker : at[w] \notin {"idle", "done", "error"} => engine = "running" /\ Calling(w)
    /\ \A w \in Worker : at[w] \in {"read", "compile", "lock", "write", "judge"} => Ref(w) # <<"none">>
    /\ \A w \in Worker : at[w] \in {"lock", "write", "judge"} => schema[w] \in Texts(Ref(w))

(* A declaration that a store has been loaded with: its schemas are known. *)
LEMMA KnownSchemas ==
    ASSUME store \in Stores, NEW e \in Entry, NEW i \in DOMAIN Declared(e), ~Rejected(Item(e, i)),
           NEW st \in Stage
    PROVE  LET p == Item(e, i)
           IN  /\ Describe(p)[st] \in Key \cup {<<"none">>}
               /\ Describe(p)[st] # <<"none">> =>
                     Texts(Describe(p)[st]) \subseteq Declares(st, p) \ {"broken"}
<1> DEFINE p == Item(e, i)
           a == Declared(e)[i]
           m == store[e].module
<1>1. p.action = a /\ p.entry = e /\ p.kind = Source(e)
  BY DEF Item
<1>2. a \in Range(m.actions) \cup Range(m.actionsFile.actions) \cup Range(store[e].provider.actions)
  <2>1. Declared(e) \in {m.actions, m.actionsFile.actions, store[e].provider.actions, <<>>}
    BY DEF Declared, ModuleActions
  <2>2. Declared(e) # <<>>
    OBVIOUS
  <2> QED
    BY <2>1, <2>2 DEF Range
<1>3. store[e].files \subseteq FileName
  BY DEF FileName
<1>4. ASSUME NEW ref \in {a.input, a.output}
      PROVE  /\ Normalize(ref, e) \in Key \cup {<<"none">>}
             /\ Normalize(ref, e) # <<"none">> =>
                   Texts(Normalize(ref, e)) =
                      (IF ref[1] = "relative" THEN held[<<"file", e, ref[2]>>] ELSE {ref[2]}) \ {"broken"}
             /\ Normalize(ref, e) # <<"none">> => ref[1] \in {"inline", "relative"}
  <2>1. \/ ref = <<"none">> \/ ref = <<"relative", ref[2]>>
        \/ \E c \in Content \cup {"broken"} : ref = <<"inline", c>>
    <3>1. Written(a.input) /\ Written(a.output)
      BY <1>2, SchemasAssumption
    <3> QED
      BY <3>1 DEF Written
  <2>2. CASE ref = <<"none">>
    BY <2>2 DEF Normalize
  <2>3. CASE ref = <<"relative", ref[2]>>
    <3>1. ref[2] \in FileName
      <4>1. ~SchemaMissing(ref, e)
        BY <1>1 DEF Rejected
      <4> QED
        BY <1>3, <2>3, <4>1 DEF SchemaMissing
    <3> QED
      BY <2>3, <3>1 DEF Normalize, Key, SchemaFile, Texts
  <2>4. ASSUME NEW c \in Content \cup {"broken"}, ref = <<"inline", c>>
        PROVE  Normalize(ref, e) = ref /\ ref \in Key /\ Texts(ref) = {ref[2]} \ {"broken"} /\ ref[1] = "inline"
    BY <2>4 DEF Normalize, Key, Texts
  <2> QED
    BY <2>1, <2>2, <2>3, <2>4
<1>5. /\ CredentialSchema(p) \in Key \cup {<<"none">>}
      /\ CredentialSchema(p) # <<"none">> =>
            /\ Texts(CredentialSchema(p)) = (IF CredentialSchema(p)[1] = "relative" THEN held[CredentialSchema(p)]
                                             ELSE {CredentialSchema(p)[2]}) \ {"broken"}
            /\ CredentialSchema(p)[1] \in {"inline", "relative"}
  <2> DEFINE ref == CredentialSchema(p)
  <2>1. ref = <<"none">> \/ ref \in Range(m.connectionTypes)
    BY <1>1 DEF CredentialSchema, Range
  <2>2. CASE ref \in Range(m.connectionTypes)
    <3>1. \/ ref = <<"none">> \/ (ref = <<"relative", ref[2]>> /\ ref[2] \in FileName)
          \/ \E c \in Content \cup {"broken"} : ref = <<"inline", c>>
      BY <2>2, SchemasAssumption DEF Written
    <3> QED
      BY <3>1 DEF Key, SchemaFile, Texts
  <2> QED
    BY <2>1, <2>2
<1>6. /\ Describe(p).input = Normalize(a.input, e) /\ Describe(p).output = Normalize(a.output, e)
      /\ Describe(p).credential = CredentialSchema(p)
  BY <1>1 DEF Describe
<1>7. CASE st = "credential"
  BY <1>5, <1>6, <1>7 DEF Declares
<1>8. CASE st = "input"
  BY <1>1, <1>4, <1>6, <1>8 DEF Declares
<1>9. CASE st = "output"
  BY <1>1, <1>4, <1>6, <1>9 DEF Declares
<1> QED
  BY <1>7, <1>8, <1>9 DEF Stage

Known == Loads /\ Order /\ Locked /\ Cache /\ Judging

(* The schema of a call that goes on is that of the winning declaration.   *)
LEMMA CallKnown ==
    ASSUME Loads, Order, loading = "done", NEW w \in Worker, Calling(w), stage[w] \in Stage
    PROVE  /\ Ref(w) \in Key \cup {<<"none">>}
           /\ Ref(w) # <<"none">> =>
                 Texts(Ref(w)) \subseteq Declares(stage[w], Winner(call[w].action)) \ {"broken"}
<1> DEFINE n == call[w].action
<1>1. n \in ActionName /\ registered[n] # NoAction
  BY DEF Calling
<1>2. PICK e, i : /\ e \in Entry /\ i \in DOMAIN Declared(e)
                  /\ Winner(n) = Item(e, i) /\ registered[n] = Describe(Item(e, i))
  BY <1>1, WinnerFound
<1>3. store \in Stores /\ ~Rejected(Item(e, i))
  BY <1>2 DEF Loads
<1>4. Winner(n).entry = e /\ Ref(w) = Describe(Item(e, i))[stage[w]]
  BY <1>2 DEF Ref, Action, Item
<1> QED
  BY <1>2, <1>3, <1>4, KnownSchemas

(* One goroutine moves on.                                                 *)
LEMMA JudgingKept ==
    ASSUME Locked, Judging, NEW w \in Worker, engine = "running",
           UNCHANGED <<registryVars, engine, call, files>>,
           NEW p \in Point, NEW st \in Stage, NEW sch,
           at' = [at EXCEPT ![w] = p], stage' = [stage EXCEPT ![w] = st],
           schema' = [schema EXCEPT ![w] = sch],
           p \notin {"idle", "done", "error"} => Calling(w),
           p \in {"read", "compile", "lock", "write", "judge"} => Action(w)[st] # <<"none">>,
           p \in {"lock", "write", "judge"} => sch \in Texts(Action(w)[st])
    PROVE  Judging'
<1>1. /\ at'[w] = p /\ stage'[w] = st /\ schema'[w] = sch
      /\ \A v \in Worker \ {w} : at'[v] = at[v] /\ stage'[v] = stage[v] /\ schema'[v] = schema[v]
      /\ stage' \in [Worker -> Stage] /\ schema' = [v \in Worker |-> schema'[v]]
  BY DEF Locked, Judging
<1>2. /\ \A v \in Worker : Calling(v)' <=> Calling(v)
      /\ \A v \in Worker \ {w} : Ref(v)' = Ref(v)
      /\ Ref(w)' = Action(w)[st] /\ \A key : Texts(key)' = Texts(key)
  BY <1>1 DEF Calling, Ref, Action, Texts, registryVars, files
<1>3. UNCHANGED <<engine, loading>>
  BY DEF registryVars
<1> QED
  BY <1>1, <1>2, <1>3 DEF Judging

LEMMA KnownStep == Known /\ [Next]_vars => Known'
<1> SUFFICES ASSUME Known, [Next]_vars PROVE Cache' /\ Judging'
  BY LoadsStep, OrderStep, LockedStep DEF Known
<1> USE DEF Known
<1>0. at \in [Worker -> Point] /\ stage \in [Worker -> Stage] /\ schema = [w \in Worker |-> schema[w]]
      /\ Judging /\ Locked /\ Cache
  BY DEF Locked, Judging
<1>1. CASE LoadFromDir /\ UNCHANGED <<engine, workers, compiled, readers, files>>
  <2>1. loading = "entries" /\ engine # "running"
    BY <1>0, <1>1 DEF LoadFromDir, SkipFile, LoadActionModule, LoadLegacyProvider, NextEntry, Register,
                      Loaded, Judging
  <2> QED
    BY <1>0, <1>1, <2>1 DEF workers, files, Judging, Cache, Texts
<1>2. CASE NewEngine
  <2>1. engine = "none" /\ (engine' = "running" => loading = "done")
        /\ UNCHANGED <<registryVars, at, stage, schema, compiled, files>>
    BY <1>2 DEF NewEngine, Result
  <2> QED
    BY <1>0, <2>1 DEF registryVars, files, Judging, Cache, Texts
<1>3. CASE Edit
  <2>1. /\ UNCHANGED <<registryVars, engine, workers, compiled>>
        /\ \E f \in SchemaFile : \E c : /\ file' = [file EXCEPT ![f] = c]
                                         /\ held' = [held EXCEPT ![f] = @ \cup {c}]
    BY <1>3 DEF Edit
  <2>2. /\ \A f \in SchemaFile : held[f] \subseteq held'[f] /\ file'[f] \in held'[f]
        /\ held' = [f \in SchemaFile |-> held'[f]]
    <3>0. PICK f \in SchemaFile : \E c : /\ file' = [file EXCEPT ![f] = c]
                                         /\ held' = [held EXCEPT ![f] = @ \cup {c}]
      BY <2>1
    <3>1. PICK c : file' = [file EXCEPT ![f] = c] /\ held' = [held EXCEPT ![f] = @ \cup {c}]
      BY <3>0
    <3>2. held = [g \in SchemaFile |-> held[g]] /\ \A g \in SchemaFile : file[g] \in held[g]
      BY <1>0 DEF Cache
    <3>3. /\ held'[f] = held[f] \cup {c} /\ \A g \in SchemaFile \ {f} : held'[g] = held[g]
          /\ held' = [g \in SchemaFile |-> held'[g]]
      BY <3>1, <3>2
    <3>4. \A g \in SchemaFile : (file'[g] = c /\ g = f) \/ file'[g] = file[g]
      BY <3>1
    <3> QED
      BY <3>2, <3>3, <3>4
  <2>3. \A key \in Key : Texts(key) \subseteq Texts(key)'
    BY <2>2 DEF Texts, Key
  <2>4. ASSUME NEW w \in Worker, at[w] \in {"lock", "write", "judge"}
        PROVE  Ref(w) \in Key
    BY <1>0, <2>4, CallKnown DEF Judging
  <2>5. /\ \A w \in Worker : Ref(w)' = Ref(w) /\ (Calling(w)' <=> Calling(w))
        /\ UNCHANGED <<loading, at, stage, schema>>
    BY <2>1 DEF registryVars, workers, Ref, Action, Calling
  <2>6. Cache'
    BY <1>0, <2>1, <2>2, <2>3 DEF Cache
  <2>7. Judging'
    BY <1>0, <2>1, <2>3, <2>4, <2>5 DEF Judging
  <2> QED
    BY <2>6, <2>7
<1>4. ASSUME NEW w \in Worker, engine = "running", Step(w) \/ Retry(w)
      PROVE  Cache' /\ Judging'
  <2>1. UNCHANGED <<registryVars, engine, call, files>>
    BY <1>4 DEF Step, Retry, Lookup, CallCore, CallBinary, NoSchema, RLock, Hit, Miss, Compile, Lock,
                Store, Accept, Refuse, Proceed, Waiting, Go
  <2>2. \A key : Texts(key)' = Texts(key)
    BY <2>1 DEF Texts, files
  <2>3. UNCHANGED compiled => Cache'
    BY <1>0, <2>1, <2>2 DEF Cache, files
  <2>4. stage[w] \in Stage /\ at[w] \in Point /\ at = [at EXCEPT ![w] = at[w]]
        /\ stage = [stage EXCEPT ![w] = stage[w]] /\ schema = [schema EXCEPT ![w] = schema[w]]
    BY <1>0
  <2>5. /\ at[w] \notin {"idle", "done", "error"} => Calling(w)
        /\ at[w] \in {"read", "compile", "lock", "write", "judge"} =>
              Action(w)[stage[w]] # <<"none">> /\ Ref(w) \in Key
        /\ at[w] \in {"lock", "write", "judge"} => schema[w] \in Texts(Action(w)[stage[w]])
    BY <1>0, <1>4, <2>4, CallKnown DEF Judging, Ref
  <2>a. CASE Lookup(w) \/ NoSchema(w) \/ Accept(w) \/ Retry(w)
    <3>1. UNCHANGED compiled
      BY <2>a DEF Lookup, CallCore, CallBinary, NoSchema, Accept, Retry, Proceed
    <3>2. \E p \in {"idle", "done", "error", "validate"} : \E st \in Stage : \E sch :
            /\ at' = [at EXCEPT ![w] = p] /\ stage' = [stage EXCEPT ![w] = st]
            /\ schema' = [schema EXCEPT ![w] = sch] /\ (p = "validate" => Calling(w))
      <4>1. CASE CallCore(w)
        BY <2>4, <4>1 DEF CallCore, Go
      <4>2. CASE CallBinary(w)
        BY <2>4, <4>2 DEF CallBinary, Go, Calling, Action, Stage
      <4>3. CASE Retry(w)
        BY <2>4, <4>3 DEF Retry, Go
      <4>4. CASE NoSchema(w)
        BY <2>4, <2>5, <4>4 DEF NoSchema, Proceed, Go, NextStage, Stage
      <4>5. CASE Accept(w)
        BY <2>4, <2>5, <4>5 DEF Accept, Proceed, Go, NextStage, Stage
      <4> QED
        BY <2>a, <4>1, <4>2, <4>3, <4>4, <4>5 DEF Lookup
    <3> QED
      BY <1>0, <1>4, <2>1, <2>3, <3>1, <3>2, JudgingKept DEF Point
  <2>b. CASE RLock(w) \/ Miss(w) \/ Lock(w) \/ Refuse(w)
    <3>1. UNCHANGED <<compiled, stage, schema>>
      BY <2>b DEF RLock, Miss, Lock, Refuse, Waiting
    <3>2. /\ \E p \in {"read", "compile", "write", "error"} :
               at' = [at EXCEPT ![w] = p] /\ (p = "write" => at[w] = "lock")
        /\ at[w] \in {"validate", "read", "lock", "judge"} /\ Ref(w) # <<"none">>
      BY <2>5, <2>b DEF RLock, Miss, Lock, Refuse, Waiting, Go, Ref
    <3>3. PICK p \in {"read", "compile", "write", "error"} :
             at' = [at EXCEPT ![w] = p] /\ (p = "write" => at[w] = "lock")
      BY <3>2
    <3>4. /\ p \in Point /\ Calling(w) /\ Action(w)[stage[w]] # <<"none">>
          /\ p \in {"lock", "write", "judge"} => schema[w] \in Texts(Action(w)[stage[w]])
      BY <2>5, <3>2, <3>3 DEF Point, Ref
    <3>5. Judging'
      <4>1. stage' = [stage EXCEPT ![w] = stage[w]] /\ schema' = [schema EXCEPT ![w] = schema[w]]
        BY <2>4, <3>1
      <4> QED
        BY <1>0, <1>4, <2>1, <2>4, <3>3, <3>4, <4>1, JudgingKept
    <3> QED
      BY <2>3, <3>1, <3>5
  <2>c. CASE Hit(w)
    <3>1. /\ at[w] = "read" /\ compiled[Ref(w)] # "none" /\ UNCHANGED <<stage, compiled>>
          /\ at' = [at EXCEPT ![w] = "judge"] /\ schema' = [schema EXCEPT ![w] = compiled[Ref(w)]]
      BY <2>c DEF Hit, Waiting, Go, Cached, CacheKey
    <3>2. compiled[Ref(w)] \in Texts(Ref(w))
      BY <1>0, <2>5, <3>1 DEF Cache
    <3> QED
      BY <1>0, <1>4, <2>1, <2>3, <2>4, <2>5, <3>1, <3>2, JudgingKept DEF Point, Ref
  <2>d. CASE Compile(w)
    <3>1. at[w] = "compile" /\ UNCHANGED <<stage, compiled>>
      BY <2>d DEF Compile, Waiting
    <3>2. CASE TextOf(Ref(w)) = "broken"
      <4>1. at' = [at EXCEPT ![w] = "error"] /\ UNCHANGED schema
        BY <2>d, <3>2 DEF Compile, Waiting, Go
      <4> QED
        <5>1. Judging'
          <6>1. stage' = [stage EXCEPT ![w] = stage[w]] /\ schema' = [schema EXCEPT ![w] = schema[w]]
            BY <2>4, <3>1, <4>1
          <6>2. at' = [at EXCEPT ![w] = "error"]
            BY <4>1
          <6> QED
            BY <1>0, <1>4, <2>1, <2>4, <6>1, <6>2, JudgingKept DEF Point
        <5> QED
          BY <2>3, <3>1, <5>1
    <3>3. CASE TextOf(Ref(w)) # "broken"
      <4>1. /\ at' = [at EXCEPT ![w] = "lock"]
            /\ schema' = [schema EXCEPT ![w] = TextOf(Ref(w))]
        BY <2>d, <3>3 DEF Compile, Waiting, Go
      <4>2. TextOf(Ref(w)) \in Texts(Ref(w))
        BY <1>0, <2>5, <3>1, <3>3 DEF TextOf, Texts, Cache, Key
      <4> QED
        BY <1>0, <1>4, <2>1, <2>3, <2>4, <2>5, <3>1, <4>1, <4>2, JudgingKept DEF Point, Ref
    <3> QED
      BY <3>2, <3>3
  <2>e. CASE Store(w)
    <3>1. /\ at[w] = "write" /\ UNCHANGED <<stage, schema>> /\ at' = [at EXCEPT ![w] = "judge"]
          /\ compiled' = [compiled EXCEPT ![Ref(w)] = schema[w]]
      BY <2>e DEF Store, Waiting, Go, CacheKey
    <3>2. schema[w] \in Texts(Ref(w))
      BY <2>5, <3>1 DEF Ref
    <3>3. Cache'
      BY <1>0, <2>1, <2>2, <3>1, <3>2 DEF Cache, files
    <3>4. /\ Calling(w) /\ Action(w)[stage[w]] # <<"none">> /\ schema[w] \in Texts(Action(w)[stage[w]])
      BY <2>5, <3>1
    <3>5. Judging'
      <4>1. stage' = [stage EXCEPT ![w] = stage[w]] /\ schema' = [schema EXCEPT ![w] = schema[w]]
        BY <2>4, <3>1
      <4>2. at' = [at EXCEPT ![w] = "judge"]
        BY <3>1
      <4> QED
        BY <1>0, <1>4, <2>1, <2>4, <3>4, <4>1, <4>2, JudgingKept DEF Point
    <3> QED
      BY <3>3, <3>5
  <2> QED
    BY <1>4, <2>a, <2>b, <2>c, <2>d, <2>e DEF Step
<1>5. CASE UNCHANGED vars
  BY <1>0, <1>5 DEF vars, workers, registryVars, files, Judging, Cache, Texts, Calling, Ref, Action
<1> QED
  BY <1>1, <1>2, <1>3, <1>4, <1>5 DEF Next

(* Whoever compiled it, and whatever was edited meanwhile, a value is      *)
(* judged by a schema that the winning declaration of its action gives for *)
(* that stage, in a text that the schema has had.                          *)
THEOREM VerdictsAreOwn == Spec => []VerdictOwn
<1>1. Init => Known
  <2> SUFFICES ASSUME Init PROVE Known
    OBVIOUS
  <2>1. Loads /\ Order /\ Locked
    BY InitOrdered DEF Init, Locked, Point
  <2>2. Cache
    BY DEF Init, Cache
  <2>3. Judging
    BY DEF Init, Judging, Stage
  <2> QED
    BY <2>1, <2>2, <2>3 DEF Known
<1>2. Known => VerdictOwn
  <2> SUFFICES ASSUME Known, NEW w \in Worker, at[w] = "judge"
               PROVE  schema[w] \in Declares(stage[w], Winner(call[w].action)) \ {"broken"}
    BY DEF VerdictOwn
  <2>1. /\ loading = "done" /\ Calling(w) /\ Ref(w) # <<"none">> /\ schema[w] \in Texts(Ref(w))
        /\ stage[w] \in Stage /\ Loads /\ Order
    BY DEF Known, Judging
  <2> QED
    BY <2>1, CallKnown
<1> QED
  BY <1>1, <1>2, KnownStep, PTL DEF Spec

(***************************************************************************)
(* core.sleep.                                                             *)
(***************************************************************************)
Sleeper(w) == call[w] # NoAction /\ call[w].action = "core.sleep"

Slept(w) ==
    /\ Sleeper(w) => /\ at[w] \in {"idle", "done", "error"} /\ \E c \in Calls : call[w] = c[w]
                     /\ at[w] = "done" => outcome[w] \in sleepAction(call[w].fields) /\ outcome[w].ok
    /\ engine = "none" => at[w] = "idle"

Sleeping ==
    /\ at = [w \in Worker |-> at[w]] /\ outcome = [w \in Worker |-> outcome[w]]
    /\ \A w \in Worker : Slept(w)

LEMMA SleepStep == Sleeping /\ [Next]_vars => Sleeping'
<1> SUFFICES ASSUME Sleeping, [Next]_vars PROVE Sleeping'
  OBVIOUS
<1>1. CASE UNCHANGED <<engine, call, at, outcome>>
  BY <1>1 DEF Sleeping, Slept, Sleeper
<1>2. CASE LoadFromDir /\ UNCHANGED <<engine, workers, compiled, readers, files>>
  BY <1>1, <1>2 DEF workers
<1>3. CASE NewEngine
  <2>1. engine = "none" /\ UNCHANGED <<at, outcome>> /\ (call' \in Calls \/ UNCHANGED call)
    BY <1>3 DEF NewEngine
  <2> QED
    BY <2>1 DEF Sleeping, Slept, Sleeper
<1>4. CASE Edit
  BY <1>1, <1>4 DEF Edit, workers
<1>5. ASSUME NEW w \in Worker, engine = "running", Step(w) \/ Retry(w)
      PROVE  Sleeping'
  <2>1. /\ UNCHANGED <<engine, call>> /\ \A v \in Worker \ {w} : at'[v] = at[v]
        /\ at' = [v \in Worker |-> at'[v]]
    BY <1>5 DEF Step, Retry, Lookup, CallCore, CallBinary, NoSchema, RLock, Hit, Miss, Compile, Lock,
                Store, Accept, Refuse, Proceed, Waiting, Go, Sleeping
  <2>2. CASE CallCore(w)
    <3>1. PICK o \in Handle(call[w].action, call[w].fields) :
             /\ at' = [at EXCEPT ![w] = IF o.ok THEN "done" ELSE "error"]
             /\ outcome' = [outcome EXCEPT ![w] = o]
      BY <2>2 DEF CallCore, Go
    <3>2. call[w].action = "core.sleep" => o \in sleepAction(call[w].fields)
      BY <3>1 DEF Handle, Printer
    <3>3. /\ outcome' = [v \in Worker |-> outcome'[v]] /\ outcome'[w] = o
          /\ \A v \in Worker \ {w} : outcome'[v] = outcome[v]
          /\ at'[w] = IF o.ok THEN "done" ELSE "error"
      BY <3>1 DEF Sleeping
    <3>4. Slept(w)'
      BY <1>5, <2>1, <3>2, <3>3 DEF Sleeping, Slept, Sleeper
    <3>5. \A v \in Worker \ {w} : Slept(v)'
      BY <2>1, <3>3 DEF Sleeping, Slept, Sleeper
    <3> QED
      BY <2>1, <3>3, <3>4, <3>5 DEF Sleeping
  <2>3. CASE ~CallCore(w)
    <3>1. UNCHANGED outcome
      BY <1>5, <2>3 DEF Step, Retry, Lookup, CallBinary, NoSchema, RLock, Hit, Miss, Compile, Lock,
                        Store, Accept, Refuse, Proceed, Waiting, Go
    <3>2. Sleeper(w) => at'[w] = "idle"
      <4>1. "core.sleep" \in CoreName
        BY DEF CoreName
      <4>2. Sleeper(w) => at[w] \in {"idle", "done", "error"}
        BY DEF Sleeping, Slept
      <4>3. Sleeper(w) => Retry(w)
        BY <1>5, <2>3, <4>1, <4>2 DEF Sleeper, Step, Lookup, NoSchema, RLock, Hit, Miss, Compile, Lock,
                                      Store, Accept, Refuse, Proceed, Waiting, Go
      <4> QED
        BY <4>3 DEF Retry, Go, Sleeping
    <3> QED
      BY <1>5, <2>1, <3>1, <3>2 DEF Sleeping, Slept, Sleeper
  <2> QED
    BY <2>2, <2>3
<1>6. CASE UNCHANGED vars
  BY <1>1, <1>6 DEF vars, workers
<1> QED
  BY <1>2, <1>3, <1>4, <1>5, <1>6 DEF Next

(* What core.sleep has slept when it returns without an error.             *)
LEMMA SleptAsAsked ==
    ASSUME NEW input,
           {input.duration, input.seconds, input.milliseconds} \subseteq
              {<<"absent">>, <<"bad">>, <<"nan">>} \cup ({"text", "number"} \X Int),
           NEW o \in sleepAction(input), o.ok
    PROVE  LET field == Asked(input)[1]
               unit == Asked(input)[2]
           IN  \/ field[1] = "nan"
               \/ /\ field[1] \in {"text", "number"} /\ field[2] >= 0
                  /\ o.slept = field[2] * unit \/ field[2] * unit >= Limit
<1>1. PICK ms \in resolveSleepDuration(input) : o.slept = ms
  <2>1. Failed.ok = FALSE
    BY DEF Failed
  <2>2. o \in {[Done EXCEPT !.slept = ms] : ms \in resolveSleepDuration(input)}
    BY <2>1 DEF sleepAction
  <2>3. \A ms : [Done EXCEPT !.slept = ms].slept = ms
    BY DEF Done, Failed
  <2> QED
    BY <2>2, <2>3
<1>2. ASSUME NEW field \in {<<"absent">>, <<"bad">>, <<"nan">>} \cup ({"text", "number"} \X Int),
             NEW unit \in {1, 1000}, ms \in Number(field, unit)
      PROVE  \/ field[1] = "nan"
             \/ field[1] = "number" /\ field[2] >= 0 /\ (ms = field[2] * unit \/ field[2] * unit >= Limit)
  <2> SUFFICES ASSUME field[1] # "nan"
               PROVE  field[1] = "number" /\ field[2] >= 0 /\ (ms = field[2] * unit \/ field[2] * unit >= Limit)
    OBVIOUS
  <2>1. field[1] = "number" /\ field[2] >= 0 /\ ms \in Duration(field[2] * unit)
    BY <1>2 DEF Number
  <2>2. field[2] \in Int
    BY <2>1
  <2>3. CASE unit = 1
    BY <2>1, <2>2, <2>3, LimitAssumption DEF Duration
  <2>4. CASE unit = 1000
    BY <2>1, <2>2, <2>4, LimitAssumption DEF Duration
  <2> QED
    BY <2>3, <2>4
<1>3. CASE Present(input.duration)
  <2>1. ms \in Text(input.duration) \/ ms \in Number(input.duration, 1000)
    BY <1>1, <1>3 DEF resolveSleepDuration
  <2>2. CASE ms \in Text(input.duration)
    BY <1>1, <1>3, <2>2, LimitAssumption DEF Text, Asked
  <2>3. CASE ms \in Number(input.duration, 1000)
    BY <1>1, <1>2, <1>3, <2>3 DEF Asked
  <2> QED
    BY <2>1, <2>2, <2>3
<1>4. CASE ~Present(input.duration) /\ Present(input.seconds)
  BY <1>1, <1>2, <1>4 DEF resolveSleepDuration, Asked
<1>5. CASE ~Present(input.duration) /\ ~Present(input.seconds)
  BY <1>1, <1>2, <1>5 DEF resolveSleepDuration, Asked
<1> QED
  BY <1>3, <1>4, <1>5

(* A sleep that succeeds has lasted what its first field says, in every    *)
(* attempt and for every input whose first field is not NaN, or what it    *)
(* says is no int64.                                                       *)
THEOREM SleepsAreAsAsked == Spec => []SleepAsAsked
<1>1. Init => Sleeping
  BY DEF Init, Sleeping, Slept, Sleeper
<1>2. Sleeping => SleepAsAsked
  <2> SUFFICES ASSUME Sleeping, NEW w \in Worker, Sleeper(w), at[w] = "done"
               PROVE  LET field == Asked(call[w].fields)[1]
                          unit == Asked(call[w].fields)[2]
                      IN  \/ field[1] = "nan"
                          \/ /\ field[1] \in {"text", "number"} /\ field[2] >= 0
                             /\ outcome[w].slept = field[2] * unit \/ field[2] * unit >= Limit
    BY DEF SleepAsAsked, Sleeper
  <2>1. /\ outcome[w] \in sleepAction(call[w].fields) /\ outcome[w].ok
        /\ \E c \in Calls : call[w] = c[w]
    BY DEF Sleeping, Slept
  <2>2. {call[w].fields.duration, call[w].fields.seconds, call[w].fields.milliseconds} \subseteq
           {<<"absent">>, <<"bad">>, <<"nan">>} \cup ({"text", "number"} \X Int)
    BY <2>1, CallsAssumption DEF Sleeper
  <2> QED
    BY <2>1, <2>2, SleptAsAsked
<1> QED
  BY <1>1, <1>2, SleepStep, PTL DEF Spec
=============================================================================
