------------------------- MODULE ViewRegistryProofs -------------------------
(***************************************************************************)
(* For any number of views, slots and workers, the registry of the portal  *)
(* and that of an open transaction are sound, and only a commit changes    *)
(* what clients see.  The invariant RegistrySound is inductive.            *)
(***************************************************************************)
EXTENDS ViewRegistry, Integers, FiniteSets, TLAPS

\* The provers' time limits, where a step names no prover.
USE ZenonT(20), SMTT(20)

\* A registry, by its fields.
IsRegistry(r) ==
    /\ r = [x \in {"children_", "views_"} |-> r[x]]
    /\ r.children_ \in [Slots -> Objects \cup {NULL}]
    /\ DOMAIN r.views_ \subseteq Names
    /\ r.views_ \in [DOMAIN r.views_ -> Slots]

\* Sound(r) when the objects are obj.
SoundIn(r, obj) ==
    /\ \A n \in DOMAIN r.views_ :
         /\ r.children_[r.views_[n]] # NULL
         /\ obj[r.children_[r.views_[n]]].name_ \in {n, NoName}
    /\ \A m, n \in DOMAIN r.views_ : r.views_[m] = r.views_[n] => m = n
    /\ \A s, t \in Slots :
         r.children_[s] = r.children_[t] /\ r.children_[s] # NULL => s = t

IsView(v) ==
    /\ v = [x \in {"name_", "update_interval_"} |-> v[x]]
    /\ v.name_ \in JobNames /\ v.update_interval_ \in Intervals

\* No view that clients see changes.
Hidden ==
    /\ registry' = registry
    /\ \A o \in Children(registry) : object'[o] = object[o]

-----------------------------------------------------------------------------
(* Registries and views *)

LEMMA RegistryForm == \A r : r \in Registry <=> IsRegistry(r)
<1>1. ASSUME NEW r \in Registry PROVE IsRegistry(r)
  <2>1. r \in [children_ : [Slots -> Objects \cup {NULL}],
               views_ : UNION {[N -> Slots] : N \in SUBSET Names}]
    BY DEF Registry
  <2>2. r.views_ \in UNION {[N -> Slots] : N \in SUBSET Names}
    BY <2>1
  <2>3. PICK N \in SUBSET Names : r.views_ \in [N -> Slots]
    BY <2>2
  <2> QED
    BY <2>1, <2>3 DEF IsRegistry
<1>2. ASSUME NEW r, IsRegistry(r) PROVE r \in Registry
  <2>1. r.views_ \in UNION {[N -> Slots] : N \in SUBSET Names}
    BY <1>2 DEF IsRegistry
  <2> QED
    BY <1>2, <2>1 DEF IsRegistry, Registry
<1> QED
  BY <1>1, <1>2

LEMMA ViewForm == \A v : v \in View <=> IsView(v)
BY DEF View, IsView

LEMMA NewViewType ==
    ASSUME NEW n \in JobNames
    PROVE  NewView(n) \in View /\ NewView(n).name_ = n
BY IntervalsAssumption DEF NewView, View

LEMMA CopyType ==
    ASSUME NEW v \in View
    PROVE  copy(v) \in View /\ copy(v).name_ = NoName
<1>1. IsView(v)
  BY ViewForm
<1>2. NoName \in JobNames
  BY DEF JobNames
<1> QED
  BY SMTT(20), <1>1, <1>2, ViewForm DEF IsView, copy

LEMMA SoundSame ==
    /\ Sound(registry) <=> SoundIn(registry, object)
    /\ Sound(registry)' <=> SoundIn(registry', object')
    /\ Sound(txn) <=> SoundIn(txn, object)
    /\ Sound(txn)' <=> SoundIn(txn', object')
BY DEF Sound, SoundIn

\* The children of a registry are what its slots hold.
LEMMA ChildrenOf ==
    ASSUME NEW r, IsRegistry(r)
    PROVE  /\ Children(r) \subseteq Objects
           /\ \A s \in Slots : r.children_[s] # NULL => r.children_[s] \in Children(r)
           /\ \A n \in DOMAIN r.views_ : r.views_[n] \in Slots
BY DEF IsRegistry, Children

\* A registry stays sound when its views keep their names or lose them.
LEMMA SoundKept ==
    ASSUME NEW r, IsRegistry(r), NEW obj, NEW obj2, SoundIn(r, obj),
           \A o \in Children(r) : obj2[o].name_ \in {obj[o].name_, NoName}
    PROVE  SoundIn(r, obj2)
<1>1. ASSUME NEW n \in DOMAIN r.views_
      PROVE  obj2[r.children_[r.views_[n]]].name_ \in {n, NoName}
  <2>1. r.children_[r.views_[n]] \in Children(r)
    BY ChildrenOf DEF SoundIn
  <2>2. obj[r.children_[r.views_[n]]].name_ \in {n, NoName}
    BY DEF SoundIn
  <2> QED
    BY <2>1, <2>2
<1> QED
  BY <1>1 DEF SoundIn

\* The objects obj2 have the view o, which the registry r does not, under a name, and
\* the views of r as in obj.
Made(r, obj, obj2, o, name) ==
    /\ o \in Objects /\ o \notin Children(r) /\ obj2[o].name_ = name
    /\ \A p \in Children(r) : obj2[p] = obj[p]

\* ViewRegistry::add() in a free slot, of an object that the registry does not have.
LEMMA AddSound ==
    ASSUME NEW r, IsRegistry(r), NEW obj, NEW obj2, SoundIn(r, obj),
           NEW n \in Names, NEW o, Made(r, obj, obj2, o, n),
           NEW s \in Slots, r.children_[s] = NULL
    PROVE  IsRegistry(add(r, n, o, s)) /\ SoundIn(add(r, n, o, s), obj2)
<1> DEFINE a == add(r, n, o, s)
<1>1. /\ a = [x \in {"children_", "views_"} |-> a[x]]
      /\ a.children_ = [r.children_ EXCEPT ![s] = o]
      /\ DOMAIN a.views_ = DOMAIN r.views_ \cup {n} /\ a.views_[n] = s
      /\ \A m \in DOMAIN r.views_ \ {n} : a.views_[m] = r.views_[m]
      /\ a.views_ = [m \in DOMAIN a.views_ |-> a.views_[m]]
  BY DEF add
<1> HIDE DEF a
<1>2. a.children_[s] = o /\ \A t \in Slots \ {s} : a.children_[t] = r.children_[t]
  BY <1>1 DEF IsRegistry
<1>3. o # NULL /\ o \in Objects
  BY ObjectsAssumption DEF Made
<1>4. IsRegistry(a)
  BY SMTT(20), <1>1, <1>3 DEF IsRegistry
<1>6. ASSUME NEW m \in DOMAIN r.views_
      PROVE  /\ r.views_[m] \in Slots \ {s} /\ r.children_[r.views_[m]] \in Children(r)
             /\ obj2[r.children_[r.views_[m]]].name_ \in {m, NoName}
  <2>1. r.children_[r.views_[m]] # NULL /\ obj[r.children_[r.views_[m]]].name_ \in {m, NoName}
    BY DEF SoundIn
  <2>2. r.views_[m] \in Slots /\ r.children_[r.views_[m]] \in Children(r)
    BY <2>1, ChildrenOf
  <2> QED
    BY <2>1, <2>2 DEF Made
<1>7. ASSUME NEW m \in DOMAIN a.views_
      PROVE  a.children_[a.views_[m]] # NULL /\ obj2[a.children_[a.views_[m]]].name_ \in {m, NoName}
  <2>1. CASE m = n
    BY <1>1, <1>2, <1>3, <2>1 DEF Made
  <2>2. CASE m # n
    <3>1. m \in DOMAIN r.views_ /\ a.views_[m] = r.views_[m]
      BY <1>1, <1>7, <2>2
    <3>2. a.children_[a.views_[m]] = r.children_[r.views_[m]]
      BY <1>2, <1>6, <3>1
    <3>3. r.children_[r.views_[m]] # NULL
      BY <3>1 DEF SoundIn
    <3> QED
      BY <1>6, <3>1, <3>2, <3>3
  <2> QED
    BY <2>1, <2>2
<1>8. \A k, m \in DOMAIN a.views_ : a.views_[k] = a.views_[m] => k = m
  <2>1. \A k, m \in DOMAIN r.views_ : r.views_[k] = r.views_[m] => k = m
    BY DEF SoundIn
  <2>2. \A m \in DOMAIN r.views_ : r.views_[m] # s
    BY <1>6
  <2> QED
    BY <1>1, <2>1, <2>2
<1>9. \A t, u \in Slots : a.children_[t] = a.children_[u] /\ a.children_[t] # NULL => t = u
  <2>1. \A t \in Slots : r.children_[t] # o
    BY <1>3, ChildrenOf DEF Made
  <2> QED
    BY SMTT(20), <1>2, <2>1 DEF SoundIn
<1> QED
  BY <1>4, <1>7, <1>8, <1>9, Zenon DEF SoundIn, a

\* ViewRegistry::remove()
LEMMA RemoveSound ==
    ASSUME NEW r, IsRegistry(r), NEW obj, SoundIn(r, obj), NEW n \in DOMAIN r.views_
    PROVE  /\ IsRegistry(remove(r, n)) /\ SoundIn(remove(r, n), obj)
           /\ Children(remove(r, n)) \subseteq Children(r)
<1> DEFINE a == remove(r, n)
           s == r.views_[n]
<1>1. /\ a = [x \in {"children_", "views_"} |-> a[x]]
      /\ a.children_ = [r.children_ EXCEPT ![s] = NULL]
      /\ DOMAIN a.views_ = DOMAIN r.views_ \ {n}
      /\ \A m \in DOMAIN a.views_ : a.views_[m] = r.views_[m]
      /\ a.views_ = [m \in DOMAIN a.views_ |-> a.views_[m]]
  BY DEF remove
<1> HIDE DEF a
<1>2. s \in Slots
  BY ChildrenOf
<1>3. a.children_[s] = NULL /\ \A t \in Slots \ {s} : a.children_[t] = r.children_[t]
  BY <1>1, <1>2 DEF IsRegistry
<1>4. IsRegistry(a)
  BY SMTT(20), <1>1, <1>2 DEF IsRegistry
<1>5. Children(a) \subseteq Children(r)
  BY SMTT(20), <1>2, <1>3 DEF Children
<1>6. \A m \in DOMAIN a.views_ : r.views_[m] \in Slots \ {s}
  BY <1>1, ChildrenOf DEF SoundIn
<1>7. \A m \in DOMAIN a.views_ :
        a.children_[a.views_[m]] # NULL /\ obj[a.children_[a.views_[m]]].name_ \in {m, NoName}
  BY SMTT(20), <1>1, <1>3, <1>6 DEF SoundIn
<1>8. \A k, m \in DOMAIN a.views_ : a.views_[k] = a.views_[m] => k = m
  BY <1>1 DEF SoundIn
<1>9. \A t, u \in Slots : a.children_[t] = a.children_[u] /\ a.children_[t] # NULL => t = u
  BY SMTT(20), <1>3 DEF SoundIn
<1> QED
  BY <1>4, <1>5, <1>7, <1>8, <1>9 DEF SoundIn, a

Replaced(r, a, s, o) == a = [r EXCEPT !.children_[s] = o]

\* The view of a slot is replaced by a copy without a name.
LEMMA CopySound ==
    ASSUME NEW r, IsRegistry(r), NEW obj, NEW obj2, SoundIn(r, obj),
           NEW o, Made(r, obj, obj2, o, NoName), NEW s \in Slots, r.children_[s] # NULL,
           NEW a, Replaced(r, a, s, o)
    PROVE  IsRegistry(a) /\ SoundIn(a, obj2)
<1>1. /\ a = [x \in {"children_", "views_"} |-> a[x]]
      /\ a.children_ = [r.children_ EXCEPT ![s] = o] /\ a.views_ = r.views_
  BY DEF IsRegistry, Replaced
<1>2. a.children_[s] = o /\ \A t \in Slots \ {s} : a.children_[t] = r.children_[t]
  BY <1>1 DEF IsRegistry
<1>3. o # NULL /\ o \in Objects
  BY ObjectsAssumption DEF Made
<1>4. IsRegistry(a)
  BY SMTT(20), <1>1, <1>3 DEF IsRegistry
<1>6. ASSUME NEW m \in DOMAIN a.views_
      PROVE  a.children_[a.views_[m]] # NULL /\ obj2[a.children_[a.views_[m]]].name_ \in {m, NoName}
  <2>1. /\ a.views_[m] = r.views_[m] /\ r.views_[m] \in Slots
        /\ r.children_[r.views_[m]] # NULL /\ r.children_[r.views_[m]] \in Children(r)
        /\ obj[r.children_[r.views_[m]]].name_ \in {m, NoName}
    BY <1>1, <1>6, ChildrenOf DEF SoundIn
  <2>2. CASE r.views_[m] = s
    BY <1>2, <1>3, <2>1, <2>2 DEF Made
  <2>3. CASE r.views_[m] # s
    BY SMTT(20), <1>2, <2>1, <2>3 DEF Made
  <2> QED
    BY <2>2, <2>3
<1>7. \A k, m \in DOMAIN a.views_ : a.views_[k] = a.views_[m] => k = m
  BY <1>1 DEF SoundIn
<1>8. \A t, u \in Slots : a.children_[t] = a.children_[u] /\ a.children_[t] # NULL => t = u
  <2>1. \A t \in Slots : r.children_[t] # o
    BY <1>3, ChildrenOf DEF Made
  <2> QED
    BY SMTT(20), <1>2, <2>1 DEF SoundIn
<1> QED
  BY <1>4, <1>6, <1>7, <1>8 DEF SoundIn

-----------------------------------------------------------------------------
(* The invariant *)

\* RegistrySound, by the fields of the registries.
IInv ==
    /\ object \in [Objects -> View]
    /\ IsRegistry(registry) /\ SoundIn(registry, object)
    /\ txn # NULL => IsRegistry(txn) /\ SoundIn(txn, object)
    /\ updating \in BOOLEAN
    /\ updating => txn = NULL
    /\ jobs \subseteq JobNames
    /\ running \in [Workers -> JobNames \cup {NULL}]
    /\ ~updating => Children(registry) # {}

LEMMA InvariantForm == IInv => RegistrySound
<1> SUFFICES ASSUME IInv PROVE RegistrySound
  OBVIOUS
<1>1. TypeOK
  BY RegistryForm DEF IInv, TypeOK
<1> QED
  BY <1>1, SoundSame DEF IInv, RegistrySound

\* An address for a new view: nothing points to it.
LEMMA AllocatedUnused ==
    ASSUME NEW o \in Allocated
    PROVE  o \in Objects /\ o \notin Children(registry) /\ (txn # NULL => o \notin Children(txn))
<1>1. Unused # {} /\ o = CHOOSE p \in Unused : TRUE
  BY DEF Allocated
<1>2. o \in Unused
  BY <1>1
<1> QED
  BY <1>2 DEF Unused

LEMMA InitIInv == Init => IInv
<1> SUFFICES ASSUME Init PROVE IInv
  OBVIOUS
<1>1. PICK o \in {CHOOSE p \in Objects : TRUE} :
        /\ object = [p \in Objects |-> NewView(IF p = o THEN DEFAULT_VIEW_NAME ELSE NoName)]
        /\ registry = [children_ |-> [s \in Slots |-> IF s = 0 THEN o ELSE NULL],
                       views_ |-> [n \in {DEFAULT_VIEW_NAME} |-> 0]]
        /\ txn = NULL /\ updating = FALSE /\ jobs = {DEFAULT_VIEW_NAME}
        /\ running = [w \in Workers |-> NULL]
  BY Zenon DEF Init
<1>2. o \in Objects /\ o # NULL
  BY <1>1, ObjectsAssumption
<1>3. 0 \in Slots
  BY SMTT(20), SlotsAssumption DEF Slots
<1>4. DEFAULT_VIEW_NAME \in Names /\ DEFAULT_VIEW_NAME \in JobNames /\ NoName \in JobNames
  BY NamesAssumption DEF JobNames
<1>5. /\ registry.children_ = [s \in Slots |-> IF s = 0 THEN o ELSE NULL]
      /\ registry.views_ = [n \in {DEFAULT_VIEW_NAME} |-> 0]
      /\ registry = [x \in {"children_", "views_"} |-> registry[x]]
  BY <1>1
<1>6. object \in [Objects -> View] /\ object[o].name_ = DEFAULT_VIEW_NAME
  BY <1>1, <1>2, <1>4, NewViewType
<1>7. IsRegistry(registry)
  BY SMTT(20), <1>2, <1>3, <1>4, <1>5 DEF IsRegistry
<1>8. SoundIn(registry, object)
  BY SMTT(20), <1>2, <1>3, <1>5, <1>6 DEF SoundIn
<1>9. Children(registry) # {}
  BY <1>2, <1>3, <1>5 DEF Children
<1> QED
  BY <1>1, <1>4, <1>6, <1>7, <1>8, <1>9, Zenon DEF IInv

\* A step of a transaction that touches no object of the global registry and leaves the
\* transaction with a sound registry or ends it.
OwnStep ==
    /\ txn # NULL
    /\ UNCHANGED <<registry, updating, jobs, running>>
    /\ object' \in [Objects -> View]
    /\ \A o \in Children(registry) : object'[o] = object[o]
    /\ txn' # NULL => IsRegistry(txn') /\ SoundIn(txn', object')

LEMMA OwnStepKeeps ==
    ASSUME IInv, OwnStep
    PROVE  IInv' /\ Hidden
<1>1. SoundIn(registry, object')
  BY SoundKept DEF IInv, OwnStep
<1> QED
  BY <1>1 DEF IInv, OwnStep, Hidden

\* Objects that are still referred to are left.
LEMMA LeftKeeps ==
    ASSUME IInv, NEW used
    PROVE  /\ Left(used) \in [Objects -> View]
           /\ \A o \in used \cap Objects : Left(used)[o] = object[o]
<1>1. NewView(NoName) \in View
  BY NewViewType DEF JobNames
<1> QED
  BY <1>1 DEF Left, IInv

\* A rollback, and every failure in a transaction.
LEMMA ClearStep ==
    ASSUME IInv, txn # NULL, clear_txn_state(registry), UNCHANGED <<registry, updating, jobs, running>>
    PROVE  IInv' /\ Hidden
<1>1. /\ object' \in [Objects -> View]
      /\ \A o \in Children(registry) \cap Objects : object'[o] = object[o]
  BY LeftKeeps DEF clear_txn_state
<1>2. Children(registry) \subseteq Objects
  BY ChildrenOf DEF IInv
<1>3. OwnStep
  BY <1>1, <1>2 DEF OwnStep, clear_txn_state
<1> QED
  BY <1>3, OwnStepKeeps

LEMMA ViewAddStep ==
    ASSUME IInv, NEW n \in Names, AdminViewAdd(n)
    PROVE  IInv' /\ Hidden
<1>1. ASSUME NEW o \in Allocated, NEW s \in Slots, FirstFree(txn, s),
             object' = [object EXCEPT ![o] = NewView(n)], txn' = add(txn, n, o, s)
      PROVE  OwnStep
  <2>1. txn # NULL /\ UNCHANGED <<registry, updating, jobs, running>>
    BY DEF AdminViewAdd
  <2>2. o \in Objects /\ o \notin Children(registry) /\ o \notin Children(txn)
    BY <2>1, AllocatedUnused
  <2>3. NewView(n) \in View /\ NewView(n).name_ = n
    BY NewViewType DEF JobNames
  <2>4. /\ object' \in [Objects -> View] /\ object'[o].name_ = n
        /\ \A p \in Children(txn) \cup Children(registry) : object'[p] = object[p]
    <3>1. Children(txn) \subseteq Objects /\ Children(registry) \subseteq Objects
      BY <2>1, ChildrenOf DEF IInv
    <3> QED
      BY <1>1, <2>2, <2>3, <3>1 DEF IInv
  <2>5. IsRegistry(txn) /\ SoundIn(txn, object) /\ txn.children_[s] = NULL
    BY <1>1, <2>1 DEF IInv, FirstFree
  <2>6. IsRegistry(txn') /\ SoundIn(txn', object')
    <3>1. Made(txn, object, object', o, n)
      BY <2>2, <2>4 DEF Made
    <3>2. IsRegistry(add(txn, n, o, s)) /\ SoundIn(add(txn, n, o, s), object')
      BY <2>5, <3>1, AddSound
    <3> QED
      BY <1>1, <3>2
  <2> QED
    BY <2>1, <2>4, <2>6 DEF OwnStep
<1>2. \/ \E o \in Allocated, s \in Slots :
            /\ FirstFree(txn, s)
            /\ object' = [object EXCEPT ![o] = NewView(n)]
            /\ txn' = add(txn, n, o, s)
      \/ clear_txn_state(registry)
  BY DEF AdminViewAdd
<1>3. CASE clear_txn_state(registry)
  BY <1>3, ClearStep DEF AdminViewAdd
<1> QED
  BY <1>1, <1>2, <1>3, OwnStepKeeps

LEMMA ViewDeleteStep ==
    ASSUME IInv, NEW n \in Names, AdminViewDelete(n)
    PROVE  IInv' /\ Hidden
<1>1. ASSUME n \in DOMAIN txn.views_, txn' = remove(txn, n),
             object' = Left(Children(registry) \cup Children(txn'))
      PROVE  OwnStep
  <2>1. txn # NULL /\ UNCHANGED <<registry, updating, jobs, running>>
    BY DEF AdminViewDelete
  <2>2. IsRegistry(txn) /\ SoundIn(txn, object)
    BY <2>1 DEF IInv
  <2>3. IsRegistry(remove(txn, n)) /\ SoundIn(remove(txn, n), object)
    BY <1>1, <2>2, RemoveSound, Zenon
  <2>4. IsRegistry(txn') /\ SoundIn(txn', object)
    BY <1>1, <2>3
  <2>5. Children(registry) \subseteq Objects /\ Children(txn') \subseteq Objects
    BY <2>4, ChildrenOf DEF IInv
  <2>6. /\ object' \in [Objects -> View]
        /\ \A o \in (Children(registry) \cup Children(txn')) \cap Objects : object'[o] = object[o]
    BY <1>1, LeftKeeps
  <2>7. \A o \in Children(txn') : object'[o].name_ \in {object[o].name_, NoName}
    BY <2>5, <2>6
  <2>8. SoundIn(txn', object')
    BY <2>4, <2>7, SoundKept
  <2> QED
    BY <2>1, <2>4, <2>5, <2>6, <2>8 DEF OwnStep
<1>2. CASE clear_txn_state(registry)
  BY <1>2, ClearStep DEF AdminViewDelete
<1> QED
  BY <1>1, <1>2, OwnStepKeeps DEF AdminViewDelete

\* A slot that get() finds holds a view.
LEMMA GetFinds ==
    ASSUME NEW r, NEW obj, IsRegistry(r), SoundIn(r, obj), NEW n, NEW s \in get(r, n)
    PROVE  s \in Slots /\ r.children_[s] # NULL /\ r.children_[s] \in Children(r)
<1>1. PICK m \in DOMAIN r.views_ : s = r.views_[m]
  BY DEF get
<1> QED
  BY <1>1, ChildrenOf DEF SoundIn

\* A write to a view of the transaction touches the transaction's own object or a copy.
LEMMA WriteStep ==
    ASSUME IInv, txn # NULL, UNCHANGED <<registry, updating, jobs, running>>,
           NEW n, NEW s \in get(txn, n), NEW v \in View,
           v.name_ = object[txn.children_[s]].name_, write_object_ref(s, v)
    PROVE  OwnStep
<1>1. IsRegistry(txn) /\ SoundIn(txn, object) /\ object \in [Objects -> View]
  BY DEF IInv
<1>2. s \in Slots /\ txn.children_[s] # NULL /\ txn.children_[s] \in Children(txn)
  BY <1>1, GetFinds
<1>3. Children(registry) \subseteq Objects /\ Children(txn) \subseteq Objects
  BY <1>1, ChildrenOf DEF IInv
<1>4. ASSUME txn.children_[s] \notin Children(registry),
             object' = [object EXCEPT ![txn.children_[s]] = v], txn' = txn
      PROVE  OwnStep
  <2>1. /\ object' \in [Objects -> View]
        /\ \A o \in Children(registry) : object'[o] = object[o]
        /\ \A o \in Children(txn) : object'[o].name_ \in {object[o].name_, NoName}
    BY <1>1, <1>2, <1>3, <1>4
  <2>2. SoundIn(txn, object')
    BY <1>1, <2>1, SoundKept
  <2> QED
    BY <1>1, <1>4, <2>1, <2>2 DEF OwnStep
<1>5. ASSUME NEW o \in Allocated, object' = [object EXCEPT ![o] = copy(v)],
             txn' = [txn EXCEPT !.children_[s] = o]
      PROVE  OwnStep
  <2>1. o \in Objects /\ o \notin Children(registry) /\ o \notin Children(txn)
    BY AllocatedUnused
  <2>2. copy(v) \in View /\ copy(v).name_ = NoName
    BY CopyType
  <2>3. /\ object' \in [Objects -> View] /\ object'[o].name_ = NoName
        /\ \A p \in Children(txn) \cup Children(registry) : object'[p] = object[p]
    BY <1>1, <1>3, <1>5, <2>1, <2>2
  <2>4. IsRegistry(txn') /\ SoundIn(txn', object')
    <3>1. Made(txn, object, object', o, NoName)
      BY <2>1, <2>3 DEF Made
    <3>2. Replaced(txn, txn', s, o)
      BY <1>5 DEF Replaced
    <3> QED
      BY <1>1, <1>2, <3>1, <3>2, CopySound
  <2> QED
    BY <2>3, <2>4 DEF OwnStep
<1> QED
  BY <1>4, <1>5 DEF write_object_ref

LEMMA PropSetStep ==
    ASSUME IInv, NEW n \in Names, NEW i \in Intervals, AdminViewPropSet(n, i)
    PROVE  IInv' /\ Hidden
<1>1. txn # NULL /\ UNCHANGED <<registry, updating, jobs, running>>
  BY DEF AdminViewPropSet
<1>2. ASSUME NEW s \in get(txn, n),
             write_object_ref(s, [object[txn.children_[s]] EXCEPT !.update_interval_ = i])
      PROVE  OwnStep
  <2> DEFINE u == object[txn.children_[s]]
             v == [u EXCEPT !.update_interval_ = i]
  <2>1. IsRegistry(txn) /\ SoundIn(txn, object) /\ object \in [Objects -> View]
    BY <1>1 DEF IInv
  <2>2. txn.children_[s] \in Objects
    BY <2>1, GetFinds, ChildrenOf
  <2>3. IsView(u)
    BY <2>1, <2>2, ViewForm
  <2> HIDE DEF u
  <2>4. IsView(v) /\ v.name_ = u.name_
    BY <2>3 DEF IsView
  <2>5. v \in View
    BY <2>4, ViewForm
  <2>6. write_object_ref(s, v) /\ v.name_ = object[txn.children_[s]].name_
    BY <1>2, <2>4 DEF u
  <2> HIDE DEF v
  <2> QED
    BY <1>1, <2>5, <2>6, WriteStep
<1>3. CASE clear_txn_state(registry)
  BY <1>1, <1>3, ClearStep
<1> QED
  BY <1>2, <1>3, OwnStepKeeps, Zenon DEF AdminViewPropSet

LEMMA PDistanceStep ==
    ASSUME IInv, NEW n \in Names, AdminViewPDistanceUpdate(n)
    PROVE  IInv' /\ Hidden
<1>1. txn # NULL /\ UNCHANGED <<registry, updating, jobs, running>>
  BY DEF AdminViewPDistanceUpdate
<1>2. ASSUME NEW s \in get(txn, n), write_object_ref(s, object[txn.children_[s]])
      PROVE  OwnStep
  <2>1. IsRegistry(txn) /\ SoundIn(txn, object) /\ object \in [Objects -> View]
    BY <1>1 DEF IInv
  <2>2. txn.children_[s] \in Objects
    BY <2>1, GetFinds, ChildrenOf
  <2>3. object[txn.children_[s]] \in View
    BY <2>1, <2>2
  <2> QED
    BY <1>1, <1>2, <2>3, WriteStep
<1>3. CASE clear_txn_state(registry)
  BY <1>1, <1>3, ClearStep
<1> QED
  BY <1>2, <1>3, OwnStepKeeps DEF AdminViewPDistanceUpdate

LEMMA BeginStep ==
    ASSUME IInv, txn_begin
    PROVE  IInv' /\ Hidden
BY DEF IInv, txn_begin, Hidden

LEMMA RollbackStep ==
    ASSUME IInv, txn_rollback
    PROVE  IInv' /\ Hidden
BY ClearStep DEF txn_rollback

\* A commit installs the transaction's registry, whose objects are left.
LEMMA CommitStep ==
    ASSUME IInv, txn_commit
    PROVE  IInv'
<1>1. /\ txn # NULL /\ registry' = txn /\ txn' = NULL /\ object' = Left(Children(txn))
      /\ updating' = TRUE /\ UNCHANGED <<jobs, running>>
  BY DEF txn_commit, clear_txn_state
<1>2. IsRegistry(txn) /\ SoundIn(txn, object) /\ Children(txn) \subseteq Objects
  BY <1>1, ChildrenOf DEF IInv
<1>3. object' \in [Objects -> View] /\ \A o \in Children(txn) \cap Objects : object'[o] = object[o]
  BY <1>1, LeftKeeps
<1>4. SoundIn(txn, object')
  BY <1>2, <1>3, SoundKept
<1> QED
  BY <1>1, <1>2, <1>3, <1>4 DEF IInv

\* Jobs have the names of views.
LEMMA ScheduledNames ==
    ASSUME NEW r, IsRegistry(r), NEW obj \in [Objects -> View]
    PROVE  Scheduled(r, obj) \subseteq JobNames
<1>1. Children(r) \subseteq Objects
  BY ChildrenOf
<1>2. \A o \in Children(r) : obj[o].name_ \in JobNames
  BY <1>1 DEF View
<1> QED
  BY <1>2 DEF Scheduled

\* updated() installs the default view in a registry without views.
LEMMA UpdatedStep ==
    ASSUME IInv, updated
    PROVE  IInv'
<1>1. /\ updating /\ txn = NULL /\ txn' = NULL /\ updating' = FALSE /\ running' = running
      /\ jobs' = jobs \cup Scheduled(registry', object')
  BY DEF updated, IInv
<1>2. /\ object' \in [Objects -> View] /\ IsRegistry(registry') /\ SoundIn(registry', object')
      /\ Children(registry)' # {}
  <2>1. CASE Children(registry) # {} /\ UNCHANGED <<object, registry>>
    BY <2>1 DEF IInv, Children
  <2>2. ASSUME Children(registry) = {}, NEW o \in Allocated,
               object' = [object EXCEPT ![o] = NewView(DEFAULT_VIEW_NAME)],
               registry' = add(registry, DEFAULT_VIEW_NAME, o, 0)
        PROVE  /\ object' \in [Objects -> View] /\ IsRegistry(registry') /\ SoundIn(registry', object')
               /\ Children(registry)' # {}
    <3>1. 0 \in Slots /\ DEFAULT_VIEW_NAME \in Names /\ DEFAULT_VIEW_NAME \in JobNames
      BY SMTT(20), SlotsAssumption, NamesAssumption DEF Slots, JobNames
    <3>2. o \in Objects /\ o # NULL
      BY AllocatedUnused, ObjectsAssumption
    <3>3. NewView(DEFAULT_VIEW_NAME) \in View /\ NewView(DEFAULT_VIEW_NAME).name_ = DEFAULT_VIEW_NAME
      BY <3>1, NewViewType
    <3>4. object' \in [Objects -> View] /\ object'[o].name_ = DEFAULT_VIEW_NAME
      BY <2>2, <3>2, <3>3 DEF IInv
    <3>5. Made(registry, object, object', o, DEFAULT_VIEW_NAME)
      BY <2>2, <3>2, <3>4 DEF Made
    <3>6. IsRegistry(registry) /\ SoundIn(registry, object) /\ registry.children_[0] = NULL
      BY <2>2, <3>1 DEF IInv, Children
    <3>7. /\ IsRegistry(add(registry, DEFAULT_VIEW_NAME, o, 0))
          /\ SoundIn(add(registry, DEFAULT_VIEW_NAME, o, 0), object')
      BY <3>1, <3>5, <3>6, AddSound
    <3>8. registry'.children_[0] = o
      BY <2>2, <3>1, <3>6 DEF add, IsRegistry
    <3> QED
      BY <2>2, <3>1, <3>2, <3>4, <3>7, <3>8 DEF Children
  <2> QED
    BY <2>1, <2>2 DEF updated
<1>3. jobs' \subseteq JobNames
  BY <1>1, <1>2, ScheduledNames DEF IInv
<1> QED
  BY <1>1, <1>2, <1>3, Zenon DEF IInv

\* The workers of the job queue only read the registry.
LEMMA WorkerStep ==
    ASSUME IInv, NEW w \in Workers, run(w) \/ \E n \in JobNames : dequeue(w, n)
    PROVE  IInv' /\ Hidden
<1>1. UNCHANGED <<object, registry, txn, updating>>
  BY DEF run, jobCancelled, jobRescheduled, jobFailed, dequeue
<1>2. /\ jobs' \subseteq JobNames
      /\ running' \in [Workers -> JobNames \cup {NULL}]
  BY DEF IInv, run, jobCancelled, jobRescheduled, jobFailed, dequeue
<1> QED
  BY <1>1, <1>2 DEF IInv, Hidden

LEMMA StepIInv == IInv /\ [Next]_vars => IInv' /\ (txn_commit \/ updated \/ Hidden)
<1> SUFFICES ASSUME IInv, [Next]_vars
             PROVE  IInv' /\ (txn_commit \/ updated \/ Hidden)
  OBVIOUS
<1>1. CASE txn_begin
  BY <1>1, BeginStep
<1>2. CASE txn_rollback
  BY <1>2, RollbackStep
<1>3. CASE txn_commit
  BY <1>3, CommitStep
<1>4. CASE updated
  BY <1>4, UpdatedStep
<1>5. ASSUME NEW n \in Names,
             \/ AdminViewAdd(n) \/ AdminViewDelete(n) \/ AdminViewPDistanceUpdate(n)
             \/ \E i \in Intervals : AdminViewPropSet(n, i)
      PROVE  IInv' /\ Hidden
  BY <1>5, ViewAddStep, ViewDeleteStep, PDistanceStep, PropSetStep
<1>6. ASSUME NEW w \in Workers, run(w) \/ \E n \in JobNames : dequeue(w, n)
      PROVE  IInv' /\ Hidden
  BY <1>6, WorkerStep
<1>7. CASE UNCHANGED vars
  BY <1>7 DEF vars, IInv, Hidden
<1> QED
  BY <1>1, <1>2, <1>3, <1>4, <1>5, <1>6, <1>7 DEF Next, AdminState

LEMMA Invariant == Spec => []IInv
BY InitIInv, StepIInv, PTL DEF Spec

-----------------------------------------------------------------------------

\* ViewRegistry: whatever transactions add, delete, copy, commit and roll back, and with
\* any number of slots, every name of the registry leads to a view of its own, and there
\* is a view whenever no commit is under way.
THEOREM RegistryAlwaysSound == Spec => []RegistrySound
BY Invariant, InvariantForm, PTL

\* AdminState::write_object_ref(): a transaction writes to copies and to views that it has
\* created, so only txn_commit() and the updated() that it calls change what clients see.
THEOREM TransactionsIsolated == Spec => OnlyCommitPublishes
<1>1. ASSUME IInv, Hidden PROVE UNCHANGED <<Visible, registry.views_>>
  <2>1. \A s \in Slots : registry.children_[s] # NULL => registry.children_[s] \in Children(registry)
    BY <1>1, ChildrenOf DEF IInv
  <2>2. Visible' = Visible
    BY <1>1, <2>1 DEF Visible, Hidden
  <2> QED
    BY <1>1, <2>2 DEF Hidden
<1>2. ASSUME IInv, [Next]_vars
      PROVE  [txn_commit \/ updated \/ UNCHANGED <<Visible, registry.views_>>]_vars
  BY <1>1, <1>2, StepIInv
<1> QED
  BY <1>2, Invariant, PTL DEF Spec, OnlyCommitPublishes
=============================================================================
