------------------------- MODULE Controller_proofs -------------------------
(***************************************************************************)
(* Proofs about Controller and the operators of the store and the queue.   *)
(***************************************************************************)
EXTENDS Controller, FiniteSetTheorems, TLAPS

-----------------------------------------------------------------------------
(* The store.                                                              *)

\* AddIngress on a list of objects gives a list of objects ...
LEMMA AddIngressType ==
    ASSUME NEW T, NEW ings \in Seq(T), NEW ing \in T
    PROVE  AddIngress(ings, ing) \in Seq(T)
BY DEF AddIngress, Matches

\* ... and keeps one element per UID: it appends only a UID that is new.
LEMMA AddIngressUnique ==
    ASSUME NEW T, NEW ings \in Seq(T), NEW ing \in T, UniqueUids(ings)
    PROVE  UniqueUids(AddIngress(ings, ing))
<1>1. CASE Matches(ings, ing) # {}
  <2>1. AddIngress(ings, ing) =
          [i \in DOMAIN ings |-> IF i \in Matches(ings, ing) THEN ing ELSE ings[i]]
    BY <1>1 DEF AddIngress
  <2>2. \A i \in DOMAIN ings : AddIngress(ings, ing)[i].uid = ings[i].uid
    BY <2>1 DEF Matches
  <2> QED
    BY <2>1, <2>2 DEF UniqueUids
<1>2. CASE Matches(ings, ing) = {}
  <2>1. AddIngress(ings, ing) = Append(ings, ing)
    BY <1>2 DEF AddIngress
  <2>2. \A i \in DOMAIN ings : ings[i].uid # ing.uid
    BY <1>2 DEF Matches
  <2>3. /\ DOMAIN ings = 1 .. Len(ings) /\ Len(ings) \in Nat
        /\ DOMAIN Append(ings, ing) = 1 .. Len(ings) + 1
        /\ \A i \in 1 .. Len(ings) : Append(ings, ing)[i] = ings[i]
        /\ Append(ings, ing)[Len(ings) + 1] = ing
    OBVIOUS
  <2> QED
    BY <2>1, <2>2, <2>3 DEF UniqueUids
<1> QED
  BY <1>1, <1>2

\* PluckIngress on a list of objects gives a list of objects ...
LEMMA PluckIngressType ==
    ASSUME NEW T, NEW ings \in Seq(T), NEW ing
    PROVE  PluckIngress(ings, ing) \in Seq(T)
<1>1. CASE Matches(ings, ing) = {}
  BY <1>1 DEF PluckIngress
<1>2. CASE Matches(ings, ing) # {}
  <2>1. Len(ings) \in Nat /\ Len(ings) >= 1 /\ DOMAIN ings = 1 .. Len(ings)
    BY <1>2 DEF Matches
  <2>2. PICK first : PluckIngress(ings, ing) =
          [i \in 1 .. Len(ings) - 1 |-> IF i = first THEN ings[Len(ings)] ELSE ings[i]]
    BY <1>2 DEF PluckIngress
  <2>3. \A i \in 1 .. Len(ings) : ings[i] \in T
    BY <2>1
  <2> QED
    BY <2>1, <2>2, <2>3
<1> QED
  BY <1>1, <1>2

\* ... and keeps one element per UID: the last one only moves.
LEMMA PluckIngressUnique ==
    ASSUME NEW T, NEW ings \in Seq(T), NEW ing, UniqueUids(ings)
    PROVE  UniqueUids(PluckIngress(ings, ing))
<1>1. CASE Matches(ings, ing) = {}
  BY <1>1 DEF PluckIngress
<1>2. CASE Matches(ings, ing) # {}
  <2>1. Len(ings) \in Nat /\ Len(ings) >= 1 /\ DOMAIN ings = 1 .. Len(ings)
    BY <1>2 DEF Matches
  <2>2. PICK first : PluckIngress(ings, ing) =
          [i \in 1 .. Len(ings) - 1 |-> IF i = first THEN ings[Len(ings)] ELSE ings[i]]
    BY <1>2 DEF PluckIngress
  <2> QED
    BY <2>1, <2>2 DEF UniqueUids
<1> QED
  BY <1>1, <1>2
-----------------------------------------------------------------------------
(* Objects, events and the queue.                                          *)

\* What the API server makes of a name and a body is an object.
LEMMA ObjectType ==
    ASSUME NEW k \in Kinds, NEW n \in UNION {Names(j) : j \in Kinds},
           NEW u \in 1 .. MaxRev, NEW v \in 1 .. MaxRev, NEW b \in Bodies(k)
    PROVE  Object(k, n, u, v, b) \in Objects
<1>1. b \in AllBodies
  BY DEF AllBodies
<1>2. /\ b.ann \in {c.ann : c \in AllBodies} /\ b.cls \in {c.cls : c \in AllBodies}
      /\ b.content \in Contents
  BY <1>1 DEF Contents
<1> QED
  BY <1>2 DEF Object, Objects

\* What the informers are sent about an object is an event.
LEMMA EventType ==
    ASSUME NEW o \in Objects, NEW t \in {"set", "deleted", "gone"}
    PROVE  Event(t, o) \in Events
BY DEF Event, Events

\* A work item always says what it is about, and is not the absent one.
LEMMA ActionFacts ==
    /\ NoAction \notin Actions
    /\ SyncStatusAction \in Actions
    /\ \A a \in Actions : a.op # "sync" => a.obj \in Objects
    /\ \A o, p \in Objects, f \in {"add", "update", "delete"} :
          [op |-> f, obj |-> o, old |-> p] \in Actions
<1>1. \A a \in ObjectActions : a.op \in {"add", "update", "delete"} /\ a.obj \in Objects
  BY DEF ObjectActions
<1>2. NoAction.op = "none" /\ SyncStatusAction.op = "sync"
  BY DEF NoAction, SyncStatusAction
<1>3. \A o, p \in Objects, f \in {"add", "update", "delete"} :
          [op |-> f, obj |-> o, old |-> p] \in ObjectActions
  BY DEF ObjectActions
<1> QED
  BY <1>1, <1>2, <1>3 DEF Actions

\* A queue is the record of its three fields.
LEMMA QueueFields ==
    ASSUME NEW q \in Queues
    PROVE  /\ q = [waiting |-> q.waiting, dirty |-> q.dirty, processing |-> q.processing]
           /\ q.waiting \in Seq(Actions) /\ q.dirty \in SUBSET Actions
           /\ q.processing \in SUBSET Actions
BY DEF Queues

\* Adding an item to a queue gives a queue.
LEMMA AddType ==
    ASSUME NEW q \in Queues, NEW a \in Actions
    PROVE  Add(q, a) \in Queues
<1>1. q.waiting \in Seq(Actions) /\ q.dirty \in SUBSET Actions /\ q.processing \in SUBSET Actions
  BY QueueFields
<1>2. CASE a \in q.dirty
  BY <1>2 DEF Add
<1>3. CASE a \notin q.dirty
  <2> DEFINE w == IF a \in q.processing THEN q.waiting ELSE Append(q.waiting, a)
  <2>1. Add(q, a) = [waiting |-> w, dirty |-> q.dirty \cup {a}, processing |-> q.processing]
    BY <1>3, QueueFields DEF Add, Queues
  <2>2. w \in Seq(Actions)
    BY <1>1
  <2> HIDE DEF w
  <2> QED
    BY <1>1, <2>1, <2>2 DEF Queues
<1> QED
  BY <1>2, <1>3

\* Get takes an item off a queue that is not empty.
LEMMA GetType ==
    ASSUME NEW q \in Queues, q.waiting # <<>>
    PROVE  Get(q) \in Queues /\ Head(q.waiting) \in Actions
<1>1. q.waiting \in Seq(Actions) /\ q.dirty \in SUBSET Actions /\ q.processing \in SUBSET Actions
  BY QueueFields
<1>2. Head(q.waiting) \in Actions /\ Tail(q.waiting) \in Seq(Actions)
  BY <1>1
<1> QED
  BY <1>1, <1>2 DEF Get, Queues

\* Done gives a queue.
LEMMA DoneType ==
    ASSUME NEW q \in Queues, NEW a \in Actions
    PROVE  Done(q, a) \in Queues
<1> DEFINE w == IF a \in q.dirty THEN Append(q.waiting, a) ELSE q.waiting
<1>1. q.waiting \in Seq(Actions) /\ q.dirty \in SUBSET Actions /\ q.processing \in SUBSET Actions
  BY QueueFields
<1>2. Done(q, a) = [waiting |-> w, dirty |-> q.dirty, processing |-> q.processing \ {a}]
  BY DEF Done
<1>3. w \in Seq(Actions)
  BY <1>1
<1> HIDE DEF w
<1> QED
  BY <1>1, <1>2, <1>3 DEF Queues

\* The handlers put nothing but work items on the queue.
LEMMA HandlerTypes ==
    ASSUME NEW q \in Queues, NEW o \in Objects, NEW p \in Objects, NEW e \in Events
    PROVE  AddFunc(q, o) \in Queues /\ UpdateFunc(q, p, o) \in Queues /\ DeleteFunc(q, e) \in Queues
<1>1. e.obj \in Objects
  BY DEF Events
<1> QED
  BY <1>1, AddType, ActionFacts DEF AddFunc, UpdateFunc, DeleteFunc

\* The orders in which a finite set can be reported are sequences over it.
LEMMA OrdersType ==
    ASSUME NEW T, NEW X \in SUBSET T, IsFiniteSet(X), NEW f \in SetToSeqs(X)
    PROVE  f \in Seq(T)
<1>1. Cardinality(X) \in Nat
  BY FS_CardinalityType
<1>2. f \in [1 .. Cardinality(X) -> X]
  BY DEF SetToSeqs
<1> QED
  BY <1>1, <1>2

\* The events of a finite set of objects are a finite set of events.
LEMMA EventsOf ==
    ASSUME NEW X \in SUBSET Objects, IsFiniteSet(X), NEW t \in {"set", "deleted", "gone"}
    PROVE  IsFiniteSet({Event(t, o) : o \in X}) /\ {Event(t, o) : o \in X} \in SUBSET Events
<1> DEFINE Y == {Event(t, o) : o \in X}
           f == [o \in X |-> Event(t, o)]
<1>1. f \in Surjection(X, Y)
  BY DEF Surjection
<1>2. IsFiniteSet(Y)
  BY <1>1, FS_Surjection
<1>3. Y \in SUBSET Events
  BY EventType
<1> QED
  BY <1>2, <1>3

\* Only finitely many objects are in the cluster and in the caches.
Finite == IsFiniteSet(cluster) /\ IsFiniteSet(cache)

\* What an informer reports after a list is a sequence of events.
LEMMA RelistType ==
    ASSUME cluster \in SUBSET Objects, IsFiniteSet(cluster), NEW k \in Kinds,
           NEW cached \in SUBSET Objects, IsFiniteSet(cached),
           NEW es \in RelistEvents(k, cached)
    PROVE  es \in Seq(Events)
<1> DEFINE new  == Listed(k) \ cached
           lost == {c \in cached : c.kind = k /\ \A l \in Listed(k) : ~SameName(l, c)}
<1>1. IsFiniteSet(new) /\ new \in SUBSET Objects
  BY FS_Subset DEF Listed
<1>2. IsFiniteSet(lost) /\ lost \in SUBSET Objects
  BY FS_Subset
<1>3. Changed(k, cached) = {Event("set", o) : o \in new}
  BY DEF Changed
<1>4. Vanished(k, cached) = {Event("gone", o) : o \in lost}
  BY DEF Vanished
<1> HIDE DEF new, lost
<1>5. IsFiniteSet(Changed(k, cached)) /\ Changed(k, cached) \in SUBSET Events
  BY <1>1, <1>3, EventsOf
<1>6. IsFiniteSet(Vanished(k, cached)) /\ Vanished(k, cached) \in SUBSET Events
  BY <1>2, <1>4, EventsOf
<1>7. PICK s \in SetToSeqs(Changed(k, cached)), g \in SetToSeqs(Vanished(k, cached)) :
          es = s \o g
  BY DEF RelistEvents
<1>8. s \in Seq(Events) /\ g \in Seq(Events)
  BY <1>5, <1>6, OrdersType
<1> QED
  BY <1>7, <1>8
\* A store that converts gives a configuration.
LEMMA ConvertType ==
    ASSUME NEW st \in Stores, ConversionSucceeds(st)
    PROVE  ConvertToCaddyConfig(st) \in Configs
<1>1. st.ingresses \in Seq(Objects) /\ st.configMap \in {"off", "on"}
  BY DEF Stores, ConversionSucceeds
<1>2. \A o \in Objects : o.content \in Contents
  BY DEF Objects
<1>3. [i \in DOMAIN st.ingresses |-> st.ingresses[i].content] \in Seq(Contents)
  BY <1>1, <1>2
<1> QED
  BY <1>1, <1>3 DEF ConvertToCaddyConfig, Configs

\* The state of a process that does not run has the right type.
LEMMA ProcessStateType ==
    /\ ProcessState.watch \in [Kinds -> Seq(Events)]
    /\ ProcessState.cache = {}
    /\ ProcessState.queue \in Queues
    /\ ProcessState.store \in Stores
    /\ ProcessState.worker = "idle"
    /\ ProcessState.action = NoAction
    /\ ProcessState.lastApplied \in Configs
    /\ ProcessState.running \in Configs
<1>1. ProcessState.watch = [k \in Kinds |-> <<>>] /\ ProcessState.cache = {}
  BY DEF ProcessState
<1>2. ProcessState.queue = EmptyQueue /\ ProcessState.store = NewStore
  BY DEF ProcessState
<1>3. ProcessState.worker = "idle" /\ ProcessState.action = NoAction
  BY DEF ProcessState
<1>4. ProcessState.lastApplied = NoConfig /\ ProcessState.running = NoConfig
  BY DEF ProcessState
<1>5. [k \in Kinds |-> <<>>] \in [Kinds -> Seq(Events)]
  OBVIOUS
<1>6. EmptyQueue \in Queues
  BY DEF EmptyQueue, Queues
<1>7. NewStore \in Stores
  BY DEF NewStore, Stores
<1>8. NoConfig \in Configs
  BY DEF NoConfig, Configs
<1> QED
  BY <1>1, <1>2, <1>3, <1>4, <1>5, <1>6, <1>7, <1>8
-----------------------------------------------------------------------------
(* Type correctness.                                                       *)

\* What the type of the variables needs to be inductive: the informers list
\* finite sets, so that a list is reported as a sequence of events.
Typed == VarTypes /\ Finite

\* The initial state has the right type.
LEMMA TypedInit == Init => Typed
<1> SUFFICES ASSUME Init PROVE Typed
  OBVIOUS
<1>1. IsFiniteSet({})
  BY FS_EmptySet
<1>2. 0 \in 0 .. MaxRev
  BY BoundsAssumption
<1> QED
  BY <1>1, <1>2, ProcessStateType DEF Init, Typed, VarTypes, Finite

\* A change made to the cluster.
LEMMA TypedEnvironment == Typed /\ Environment => Typed'
<1> SUFFICES ASSUME Typed, Environment PROVE Typed'
  OBVIOUS
<1>1. ASSUME rev < MaxRev
      PROVE  rev + 1 \in 1 .. MaxRev /\ rev + 1 \in 0 .. MaxRev
  BY <1>1, BoundsAssumption DEF Typed, VarTypes
<1>2. ASSUME NEW o \in Objects, NEW t \in {"set", "deleted", "gone"}, Publish(Event(t, o))
      PROVE  watch' \in [Kinds -> Seq(Events)]
  <2>1. Event(t, o) \in Events /\ Event(t, o).obj.kind \in Kinds
    BY EventType DEF Event, Objects
  <2>2. watch \in [Kinds -> Seq(Events)]
    BY DEF Typed, VarTypes
  <2>3. Append(watch[Event(t, o).obj.kind], Event(t, o)) \in Seq(Events)
    BY <2>1, <2>2
  <2> QED
    BY <1>2, <2>2, <2>3 DEF Publish
<1>3. ASSUME NEW k \in Kinds, NEW n \in Names(k), NEW b \in Bodies(k), CreateObject(k, n, b)
      PROVE  Typed'
  <2> DEFINE o == Object(k, n, rev + 1, rev + 1, b)
  <2>1. rev < MaxRev /\ rev' = rev + 1 /\ cluster' = cluster \cup {o} /\ Publish(Event("set", o))
    BY <1>3 DEF CreateObject
  <2>2. UNCHANGED <<cache, queue, store, worker, action, lastApplied, running, up>>
    BY <1>3 DEF CreateObject, caddyVars
  <2>3. o \in Objects
    BY <1>1, <2>1, ObjectType
  <2> HIDE DEF o
  <2>4. watch' \in [Kinds -> Seq(Events)]
    BY <1>2, <2>1, <2>3
  <2>5. IsFiniteSet(cluster')
    BY <2>1, FS_AddElement DEF Typed, Finite
  <2> QED
    BY <1>1, <2>1, <2>2, <2>3, <2>4, <2>5 DEF Typed, VarTypes, Finite
<1>4. ASSUME NEW o \in cluster, NEW b \in Bodies(o.kind), ModifyObject(o, b)
      PROVE  Typed'
  <2> DEFINE new == Object(o.kind, o.name, o.uid, rev + 1, b)
  <2>1. /\ rev < MaxRev /\ rev' = rev + 1 /\ cluster' = (cluster \ {o}) \cup {new}
        /\ Publish(Event("set", new))
    BY <1>4 DEF ModifyObject
  <2>2. UNCHANGED <<cache, queue, store, worker, action, lastApplied, running, up>>
    BY <1>4 DEF ModifyObject, caddyVars
  <2>3. /\ o.kind \in Kinds /\ o.uid \in 1 .. MaxRev
        /\ o.name \in UNION {Names(k) : k \in Kinds}
    BY DEF Typed, VarTypes, Objects
  <2>4. new \in Objects
    BY <1>1, <2>1, <2>3, ObjectType
  <2> HIDE DEF new
  <2>5. watch' \in [Kinds -> Seq(Events)]
    BY <1>2, <2>1, <2>4
  <2>6. IsFiniteSet(cluster')
    BY <2>1, FS_AddElement, FS_RemoveElement DEF Typed, Finite
  <2> QED
    BY <1>1, <2>1, <2>2, <2>4, <2>5, <2>6 DEF Typed, VarTypes, Finite
<1>5. ASSUME NEW o \in cluster, DeleteObject(o)
      PROVE  Typed'
  <2>1. rev < MaxRev /\ rev' = rev + 1 /\ cluster' = cluster \ {o} /\ Publish(Event("deleted", o))
    BY <1>5 DEF DeleteObject
  <2>2. UNCHANGED <<cache, queue, store, worker, action, lastApplied, running, up>>
    BY <1>5 DEF DeleteObject, caddyVars
  <2>3. watch' \in [Kinds -> Seq(Events)]
    BY <1>2, <2>1 DEF Typed, VarTypes
  <2>4. IsFiniteSet(cluster')
    BY <2>1, FS_RemoveElement DEF Typed, Finite
  <2> QED
    BY <1>1, <2>1, <2>2, <2>3, <2>4 DEF Typed, VarTypes, Finite
<1> QED
  BY <1>3, <1>4, <1>5 DEF Environment

\* A step of an informer.
LEMMA TypedInformers == Typed /\ Informers => Typed'
<1> SUFFICES ASSUME Typed, Informers PROVE Typed'
  OBVIOUS
<1>1. ASSUME NEW k \in Kinds, watch[k] # <<>>
      PROVE  /\ Head(watch[k]) \in Events /\ Head(watch[k]).obj \in Objects
             /\ [watch EXCEPT ![k] = Tail(@)] \in [Kinds -> Seq(Events)]
  <2>1. watch \in [Kinds -> Seq(Events)] /\ watch[k] \in Seq(Events)
    BY DEF Typed, VarTypes
  <2>2. Head(watch[k]) \in Events /\ Tail(watch[k]) \in Seq(Events)
    BY <1>1, <2>1
  <2>3. Head(watch[k]).obj \in Objects
    BY <2>2 DEF Events
  <2> QED
    BY <2>1, <2>2, <2>3
<1>2. ASSUME NEW k \in Kinds, HandleSet(k)
      PROVE  Typed'
  <2> DEFINE new == Head(watch[k]).obj
  <2>1. /\ watch[k] # <<>> /\ watch' = [watch EXCEPT ![k] = Tail(@)]
        /\ cache' = (cache \ Cached(new)) \cup {new}
        /\ \/ queue' = AddFunc(queue, new)
           \/ \E old \in Cached(new) : queue' = UpdateFunc(queue, old, new)
    BY <1>2 DEF HandleSet
  <2>2. UNCHANGED <<cluster, rev, store, worker, action, lastApplied, running, up>>
    BY <1>2 DEF HandleSet, clusterVars, caddyVars
  <2>3. new \in Objects /\ watch' \in [Kinds -> Seq(Events)] /\ Head(watch[k]) \in Events
    BY <1>1, <2>1
  <2> HIDE DEF new
  <2>4. Cached(new) \in SUBSET Objects /\ Cached(new) \in SUBSET cache /\ queue \in Queues
    BY DEF Cached, Typed, VarTypes
  <2>5. queue' \in Queues
    BY <2>1, <2>3, <2>4, HandlerTypes
  <2>6. IsFiniteSet(cache \ Cached(new))
    BY FS_Subset DEF Typed, Finite
  <2>7. IsFiniteSet(cache')
    BY <2>1, <2>6, FS_AddElement
  <2> QED
    BY <2>1, <2>2, <2>3, <2>5, <2>7 DEF Typed, VarTypes, Finite
<1>3. ASSUME NEW k \in Kinds, HandleDeleted(k)
      PROVE  Typed'
  <2> DEFINE e == Head(watch[k])
  <2>1. /\ watch[k] # <<>> /\ watch' = [watch EXCEPT ![k] = Tail(@)]
        /\ cache' = cache \ Cached(e.obj) /\ queue' = DeleteFunc(queue, e)
    BY <1>3 DEF HandleDeleted
  <2>2. UNCHANGED <<cluster, rev, store, worker, action, lastApplied, running, up>>
    BY <1>3 DEF HandleDeleted, clusterVars, caddyVars
  <2>3. e \in Events /\ e.obj \in Objects /\ watch' \in [Kinds -> Seq(Events)]
    BY <1>1, <2>1
  <2> HIDE DEF e
  <2>4. queue' \in Queues
    BY <2>1, <2>3, HandlerTypes DEF Typed, VarTypes
  <2>5. IsFiniteSet(cache')
    BY <2>1, FS_Subset DEF Typed, Finite
  <2> QED
    BY <2>1, <2>2, <2>3, <2>4, <2>5 DEF Typed, VarTypes, Finite
<1>4. ASSUME NEW k \in Kinds, WatchBroken(k)
      PROVE  Typed'
  <2>1. PICK es \in RelistEvents(k, cache) : watch' = [watch EXCEPT ![k] = es]
    BY <1>4 DEF WatchBroken
  <2>2. es \in Seq(Events)
    BY RelistType DEF Typed, VarTypes, Finite
  <2>3. watch' \in [Kinds -> Seq(Events)]
    BY <2>1, <2>2 DEF Typed, VarTypes
  <2>4. UNCHANGED <<cluster, rev, cache, queue, store, worker, action, lastApplied, running, up>>
    BY <1>4 DEF WatchBroken, clusterVars, caddyVars
  <2> QED
    BY <2>3, <2>4 DEF Typed, VarTypes, Finite
<1>5. ASSUME NEW o \in cache, Resync(o)
      PROVE  Typed'
  <2>1. /\ queue' = UpdateFunc(queue, o, o)
        /\ UNCHANGED <<cluster, rev, watch, cache, store, worker, action, lastApplied, running, up>>
    BY <1>5 DEF Resync, clusterVars, informerVars, caddyVars
  <2>2. o \in Objects /\ queue \in Queues
    BY DEF Typed, VarTypes
  <2>3. queue' \in Queues
    BY <2>1, <2>2, AddType, ActionFacts DEF UpdateFunc
  <2> QED
    BY <2>1, <2>3 DEF Typed, VarTypes, Finite
<1> QED
  BY <1>2, <1>3, <1>4, <1>5 DEF Informers
\* The worker has an item, and the item goes back to the queue's bookkeeping.
LEMMA TypedReturn ==
    ASSUME Typed, worker # "idle", Return(queue), store' \in Stores,
           lastApplied' \in Configs, running' \in Configs
    PROVE  Typed'
<1>1. /\ worker' = "idle" /\ action' = NoAction /\ queue' = Done(queue, action)
      /\ UNCHANGED <<cluster, rev, watch, cache, up>>
  BY DEF Return, clusterVars, informerVars
<1>2. action \in Actions /\ queue \in Queues
  BY DEF Typed, VarTypes
<1>3. queue' \in Queues
  BY <1>1, <1>2, DoneType
<1> QED
  BY <1>1, <1>3 DEF Typed, VarTypes, Finite

\* handle has returned: the worker goes on to reloadCaddy or takes no more.
LEMMA TypedHandled ==
    ASSUME Typed, worker = "handle", store' \in Stores, Handled \/ HandleFailed
    PROVE  Typed'
<1>1. CASE Handled
  BY <1>1 DEF Handled, clusterVars, informerVars, caddyVars, Typed, VarTypes, Finite
<1>2. CASE HandleFailed
  <2>1. Return(queue) /\ UNCHANGED <<lastApplied, running>>
    BY <1>2 DEF HandleFailed, handleErr, caddyVars
  <2>2. lastApplied' \in Configs /\ running' \in Configs
    BY <2>1 DEF Typed, VarTypes
  <2> QED
    BY <2>1, <2>2, TypedReturn
<1> QED
  BY <1>1, <1>2

\* The store after an action has been handled.
LEMMA HandlersStore ==
    ASSUME Typed, Handlers
    PROVE  /\ worker = "handle" /\ (Handled \/ HandleFailed)
           /\ \/ store' = store
              \/ \E cfg \in {"nil", "off", "on"} : store' = [store EXCEPT !.configMap = cfg]
              \/ \E o \in Objects : store' = [store EXCEPT !.ingresses = AddIngress(@, o)]
              \/ \E o \in Objects : store' = [store EXCEPT !.ingresses = PluckIngress(@, o)]
<1>1. action.op \in {"add", "update", "delete"} => action.obj \in Objects
  <2>1. NoAction.op = "none"
    BY DEF NoAction
  <2> QED
    BY <2>1, ActionFacts DEF Typed, VarTypes
<1>2. CASE HandleIngressSet
  BY <1>1, <1>2 DEF HandleIngressSet, Handling
<1>3. CASE HandleIngressDeleted
  BY <1>1, <1>3 DEF HandleIngressDeleted, Handling
<1>4. CASE HandleConfigMapSet
  BY <1>4 DEF HandleConfigMapSet, Handling, ParseConfigMap
<1>5. CASE HandleConfigMapDeleted
  BY <1>5 DEF HandleConfigMapDeleted, Handling
<1>6. CASE HandleSync \/ HandleSyncFails
  BY <1>6 DEF HandleSync, HandleSyncFails
<1> QED
  BY <1>2, <1>3, <1>4, <1>5, <1>6 DEF Handlers

\* A step of processNextItem before reloadCaddy.
LEMMA TypedHandlers == Typed /\ Handlers => Typed'
<1> SUFFICES ASSUME Typed, Handlers PROVE Typed'
  OBVIOUS
<1>1. /\ store = [ingresses |-> store.ingresses, configMap |-> store.configMap]
      /\ store.ingresses \in Seq(Objects) /\ store.configMap \in {"nil", "off", "on"}
  BY DEF Typed, VarTypes, Stores
<1>2. store' \in Stores
  <2>1. CASE store' = store
    BY <2>1 DEF Typed, VarTypes
  <2>2. ASSUME NEW cfg \in {"nil", "off", "on"}, store' = [store EXCEPT !.configMap = cfg]
        PROVE  store' \in Stores
    BY <1>1, <2>2 DEF Stores
  <2>3. ASSUME NEW o \in Objects, store' = [store EXCEPT !.ingresses = AddIngress(@, o)]
        PROVE  store' \in Stores
    BY <1>1, <2>3, AddIngressType DEF Stores
  <2>4. ASSUME NEW o \in Objects, store' = [store EXCEPT !.ingresses = PluckIngress(@, o)]
        PROVE  store' \in Stores
    BY <1>1, <2>4, PluckIngressType DEF Stores
  <2> QED
    BY <2>1, <2>2, <2>3, <2>4, HandlersStore
<1> QED
  BY <1>2, HandlersStore, TypedHandled

\* The death of the process.
LEMMA TypedDie == Typed /\ Die => Typed'
<1> SUFFICES ASSUME Typed, Die PROVE Typed'
  OBVIOUS
<1>1. IsFiniteSet({})
  BY FS_EmptySet
<1> QED
  BY <1>1, ProcessStateType DEF Die, clusterVars, Typed, VarTypes, Finite

\* reloadCaddy.
LEMMA TypedReload == Typed /\ Reload => Typed'
<1> SUFFICES ASSUME Typed, Reload PROVE Typed'
  OBVIOUS
<1>1. store \in Stores /\ lastApplied \in Configs /\ running \in Configs
  BY DEF Typed, VarTypes
<1>2. CASE ReloadPanics
  BY <1>2, TypedDie DEF ReloadPanics
<1>3. CASE ReloadError \/ ReloadSkipped \/ LoadFails
  <2>1. worker # "idle" /\ Return(queue) /\ UNCHANGED <<store, lastApplied, running>>
    BY <1>3 DEF ReloadError, ReloadSkipped, LoadFails, Reloading, Finish, caddyVars
  <2> QED
    BY <1>1, <2>1, TypedReturn
<1>4. CASE ReloadCaddy
  <2>1. /\ worker # "idle" /\ Return(queue) /\ store' = store /\ ConversionSucceeds(store)
        /\ lastApplied' = ConvertToCaddyConfig(store) /\ running' = ConvertToCaddyConfig(store)
    BY <1>4 DEF ReloadCaddy, Reloading, Finish
  <2>2. ConvertToCaddyConfig(store) \in Configs
    BY <1>1, <2>1, ConvertType
  <2> QED
    BY <1>1, <2>1, <2>2, TypedReturn
<1> QED
  BY <1>2, <1>3, <1>4 DEF Reload

\* The rest of the process: the timer, the queue, the start.
LEMMA TypedProcess == Typed /\ (dispatchSync \/ GetItem \/ Start) => Typed'
<1> SUFFICES ASSUME Typed, dispatchSync \/ GetItem \/ Start PROVE Typed'
  OBVIOUS
<1>1. queue \in Queues
  BY DEF Typed, VarTypes
<1>2. CASE dispatchSync
  <2>1. /\ queue' = Add(queue, SyncStatusAction)
        /\ UNCHANGED <<cluster, rev, watch, cache, store, worker, action, lastApplied, running, up>>
    BY <1>2 DEF dispatchSync, clusterVars, informerVars, caddyVars
  <2>2. queue' \in Queues
    BY <1>1, <2>1, AddType, ActionFacts
  <2> QED
    BY <2>1, <2>2 DEF Typed, VarTypes, Finite
<1>3. CASE GetItem
  <2>1. /\ queue.waiting # <<>> /\ worker' = "handle" /\ action' = Head(queue.waiting)
        /\ queue' = Get(queue)
        /\ UNCHANGED <<cluster, rev, watch, cache, store, lastApplied, running, up>>
    BY <1>3 DEF GetItem, clusterVars, informerVars, caddyVars
  <2>2. queue' \in Queues /\ action' \in Actions
    BY <1>1, <2>1, GetType
  <2>3. action' # NoAction
    BY <2>2, ActionFacts
  <2> QED
    BY <2>1, <2>2, <2>3 DEF Typed, VarTypes, Finite
<1>4. CASE Start
  <2>1. /\ up' = TRUE
        /\ UNCHANGED <<cluster, rev, cache, queue, store, worker, action, lastApplied, running>>
    BY <1>4 DEF Start, clusterVars, caddyVars
  <2>2. \A k \in Kinds : \A es \in RelistEvents(k, {}) : es \in Seq(Events)
    BY RelistType, FS_EmptySet DEF Typed, VarTypes, Finite
  <2>3. watch' \in [Kinds -> UNION {RelistEvents(k, {}) : k \in Kinds}]
    BY <1>4 DEF Start
  <2>4. watch' \in [Kinds -> Seq(Events)]
    BY <2>2, <2>3
  <2> QED
    BY <2>1, <2>4 DEF Typed, VarTypes, Finite
<1> QED
  BY <1>2, <1>3, <1>4

\* Every step of the controller and of its environment keeps the types.
LEMMA TypedStep == Typed /\ [Next]_vars => Typed'
<1>1. Typed /\ UNCHANGED vars => Typed'
  BY DEF vars, Typed, VarTypes, Finite
<1>2. Typed /\ Crash => Typed'
  BY TypedDie DEF Crash
<1> QED
  BY <1>1, <1>2, TypedEnvironment, TypedInformers, TypedProcess, TypedHandlers, TypedReload
     DEF Next

-----------------------------------------------------------------------------
(* One element per UID.                                                    *)

\* A step that keeps the types keeps the store free of duplicates.
LEMMA UniqueStep == Typed /\ StoreUnique /\ [Next]_vars => StoreUnique'
<1> SUFFICES ASSUME Typed, StoreUnique, [Next]_vars PROVE StoreUnique'
  OBVIOUS
<1>1. /\ store = [ingresses |-> store.ingresses, configMap |-> store.configMap]
      /\ store.ingresses \in Seq(Objects) /\ UniqueUids(store.ingresses)
  BY DEF Typed, VarTypes, Stores, StoreUnique
<1>2. CASE Handlers
  <2>1. CASE store' = store
    BY <2>1 DEF StoreUnique
  <2>2. ASSUME NEW cfg \in {"nil", "off", "on"}, store' = [store EXCEPT !.configMap = cfg]
        PROVE  StoreUnique'
    <3>1. store'.ingresses = store.ingresses
      BY <1>1, <2>2
    <3> QED
      BY <1>1, <3>1 DEF StoreUnique
  <2>3. ASSUME NEW o \in Objects, store' = [store EXCEPT !.ingresses = AddIngress(@, o)]
        PROVE  StoreUnique'
    <3>1. store'.ingresses = AddIngress(store.ingresses, o)
      BY <1>1, <2>3
    <3> QED
      BY <1>1, <3>1, AddIngressUnique DEF StoreUnique
  <2>4. ASSUME NEW o \in Objects, store' = [store EXCEPT !.ingresses = PluckIngress(@, o)]
        PROVE  StoreUnique'
    <3>1. store'.ingresses = PluckIngress(store.ingresses, o)
      BY <1>1, <2>4
    <3> QED
      BY <1>1, <3>1, PluckIngressUnique DEF StoreUnique
  <2> QED
    BY <1>2, <2>1, <2>2, <2>3, <2>4, HandlersStore
<1>3. CASE Die
  <2>1. store'.ingresses = <<>>
    BY <1>3 DEF Die, ProcessState, NewStore
  <2> QED
    BY <2>1 DEF StoreUnique, UniqueUids
<1>4. CASE store' = store
  BY <1>4 DEF StoreUnique
<1>5. Environment \/ Informers \/ dispatchSync \/ GetItem \/ Start \/ UNCHANGED vars => store' = store
  BY DEF Environment, CreateObject, ModifyObject, DeleteObject, Informers, HandleSet,
         HandleDeleted, WatchBroken, Resync, dispatchSync, GetItem, Start, vars
<1>6. Reload \/ Crash => Die \/ store' = store
  BY DEF Reload, ReloadPanics, ReloadError, ReloadSkipped, ReloadCaddy, LoadFails, Crash
<1> QED
  BY <1>2, <1>3, <1>4, <1>5, <1>6 DEF Next

\* However ingresses are created, changed, deleted, replayed and forgotten, no
\* ingress has two entries in the store, and so no ingress is routed twice.
THEOREM StoreStaysUnique == Spec => []StoreUnique
<1>1. Init => StoreUnique
  BY DEF Init, ProcessState, NewStore, StoreUnique, UniqueUids
<1> QED
  BY <1>1, TypedInit, TypedStep, UniqueStep, PTL DEF Spec
=============================================================================
