----------------------------- MODULE Controller -----------------------------
(***************************************************************************)
(* The control loop of the Caddy ingress controller                        *)
(* (internal/controller, internal/k8s, pkg/store): Kubernetes objects reach *)
(* two informers over watches, the informers' handlers put actions on the  *)
(* work queue, one worker takes them one at a time, brings the resource    *)
(* store up to date, converts the store to a Caddy configuration and loads *)
(* it when it differs from the last one applied.                           *)
(***************************************************************************)
EXTENDS Naturals, FiniteSets, SequencesExt, IngressStore, WorkQueue

CONSTANTS
    IngressNames,       \* names of ingresses
    ConfigMapNames,     \* names of ConfigMaps in the config namespace
    ConfigMapName,      \* the one -config-map selects
    ClassName,          \* -class-name
    ClassNameRequired,  \* -class-name-required
    IngressBodies,      \* what an ingress can say: [ann, cls, content]
    ConfigMapTexts,     \* what the debug key of a ConfigMap can hold
    NilHTTP,            \* ingress contents with a rule that has no http part
    Conflict,           \* ingress contents an ingress plugin refuses
    MaxRev,             \* bound: number of changes made to the cluster
    WatchLoss,          \* may a watch break and the informer list again?
    Crashes             \* may the process be stopped or killed?

ASSUME BoundsAssumption ==
    /\ MaxRev \in Nat
    /\ {ClassNameRequired, WatchLoss, Crashes} \subseteq BOOLEAN
    /\ \A b \in IngressBodies : DOMAIN b = {"ann", "cls", "content"}

VARIABLES
    cluster,      \* the objects in the API server
    rev,          \* its revision counter
    watch,        \* per kind, the events on their way to the informer
    cache,        \* the informers' caches
    queue,        \* syncQueue
    store,        \* resourceStore: ingresses and the parsed ConfigMap
    worker,       \* where processNextItem is: "idle", "handle", "reload"
    action,       \* the item it works on
    lastApplied,  \* lastAppliedConfig
    running,      \* the configuration the Caddy server runs
    up            \* is the process running?

vars == <<cluster, rev, watch, cache, queue, store, worker, action,
          lastApplied, running, up>>

clusterVars == <<cluster, rev>>
informerVars == <<watch, cache>>
caddyVars == <<lastApplied, running>>
-----------------------------------------------------------------------------
(* Objects, events and queue items.                                        *)

Kinds == {"ingress", "configmap"}

ConfigMapBodies == {[ann |-> "", cls |-> "", content |-> t] : t \in ConfigMapTexts}

Names(k) == IF k = "ingress" THEN IngressNames ELSE ConfigMapNames

Bodies(k) == IF k = "ingress" THEN IngressBodies ELSE ConfigMapBodies

\* The API server gives an object a UID when it is created and a new
\* resourceVersion at each change.
Object(k, n, uid, rv, b) ==
    [kind |-> k, name |-> n, uid |-> uid, rv |-> rv,
     ann |-> b.ann, cls |-> b.cls, content |-> b.content]

AllBodies == UNION {Bodies(k) : k \in Kinds}

Contents == {b.content : b \in AllBodies}

Objects == [kind : Kinds, name : UNION {Names(k) : k \in Kinds},
            uid : 1 .. MaxRev, rv : 1 .. MaxRev,
            ann : {b.ann : b \in AllBodies}, cls : {b.cls : b \in AllBodies},
            content : Contents]

SameName(o, p) == o.kind = p.kind /\ o.name = p.name

\* "set": an added, modified or listed object; "deleted": a DELETED watch
\* event; "gone": a deletion the informer infers from a new list, which it
\* reports as a cache.DeletedFinalStateUnknown.
Events == [type : {"set", "deleted", "gone"}, obj : Objects]

Event(t, o) == [type |-> t, obj |-> o]

\* IngressAddedAction ... ConfigMapDeletedAction, and SyncStatusAction.
ObjectActions == [op : {"add", "update", "delete"}, obj : Objects, old : Objects]

SyncStatusAction == [op |-> "sync"]

Actions == ObjectActions \cup {SyncStatusAction}

NoAction == [op |-> "none"]
-----------------------------------------------------------------------------
(* Pure parts of the code.                                                 *)

\* isControllerIngress and isControllerConfigMap: is the object ours?
isControllerIngress(o) ==
    LET ingressClass == IF o.ann = "" THEN o.cls ELSE o.ann
    IN  \/ ~ClassNameRequired /\ ingressClass = ""
        \/ ingressClass = ClassName

\* Faulty variant: any ConfigMap of the namespace is taken for ours.
isControllerConfigMap_any_name(o) == TRUE

isControllerConfigMap(o) == o.name = ConfigMapName

Managed(o) == IF o.kind = "ingress" THEN isControllerIngress(o)
                                    ELSE isControllerConfigMap(o)

\* ParseConfigMap, for one Boolean option: weakly typed decoding takes the words
\* strconv.ParseBool knows, "" for false, and fails on any other.
ParseConfigMap(text) ==
    CASE text \in {"", "0", "f", "F", "false", "FALSE", "False"} -> "off"
      [] text \in {"1", "t", "T", "true", "TRUE", "True"}        -> "on"
      [] OTHER                                                  -> "error"

NewStore == [ingresses |-> <<>>, configMap |-> "off"]

Stores == [ingresses : Seq(Objects), configMap : {"nil", "off", "on"}]

\* What ConvertToCaddyConfig does with a store: the ConfigMap plugin comes
\* first and dereferences store.ConfigMap; then the first ingress that cannot
\* be converted decides, by a nil rule.HTTP or by a plugin's error.
Unconvertible(st) ==
    {i \in DOMAIN st.ingresses : st.ingresses[i].content \in NilHTTP \cup Conflict}

ConversionPanics(st) ==
    \/ st.configMap = "nil"
    \/ \E i \in Unconvertible(st) :
          /\ st.ingresses[i].content \in NilHTTP
          /\ \A j \in Unconvertible(st) : i <= j

ConversionFails(st) == ~ConversionPanics(st) /\ Unconvertible(st) # {}

ConversionSucceeds(st) == st.configMap # "nil" /\ Unconvertible(st) = {}

ConvertToCaddyConfig(st) ==
    [routes |-> [i \in DOMAIN st.ingresses |-> st.ingresses[i].content],
     debug  |-> st.configMap]

NoConfig == [routes |-> <<>>, debug |-> "none"]
-----------------------------------------------------------------------------
Listed(k) == {o \in cluster : o.kind = k}

\* What an informer with the given cache does with a fresh list: the objects
\* that are new to it or changed, then tombstones for those no longer there.
\* (A listed object it already has changes nothing and is left out.)
Changed(k, cached) == {Event("set", o) : o \in Listed(k) \ cached}

Vanished(k, cached) ==
    {Event("gone", o) : o \in {c \in cached : c.kind = k
                                    /\ \A l \in Listed(k) : ~SameName(l, c)}}

RelistEvents(k, cached) ==
    {s \o g : s \in SetToSeqs(Changed(k, cached)), g \in SetToSeqs(Vanished(k, cached))}

\* The state of the process before Run, and after it has died.
ProcessState ==
    [watch |-> [k \in Kinds |-> <<>>], cache |-> {}, queue |-> EmptyQueue,
     store |-> NewStore, worker |-> "idle", action |-> NoAction,
     lastApplied |-> NoConfig, running |-> NoConfig]

Init ==
    /\ cluster = {}
    /\ rev = 0
    /\ up = FALSE
    /\ watch = ProcessState.watch
    /\ cache = ProcessState.cache
    /\ queue = ProcessState.queue
    /\ store = ProcessState.store
    /\ worker = ProcessState.worker
    /\ action = ProcessState.action
    /\ lastApplied = ProcessState.lastApplied
    /\ running = ProcessState.running
-----------------------------------------------------------------------------
(* The users of the cluster.  The API server streams each change to the    *)
(* watch of a running informer.                                            *)

Publish(e) ==
    watch' = IF up THEN [watch EXCEPT ![e.obj.kind] = Append(@, e)] ELSE watch

CreateObject(k, n, b) ==
    LET o == Object(k, n, rev + 1, rev + 1, b)
    IN  /\ rev < MaxRev
        /\ \A c \in cluster : ~SameName(c, o)
        /\ rev' = rev + 1
        /\ cluster' = cluster \cup {o}
        /\ Publish(Event("set", o))
        /\ UNCHANGED <<cache, queue, store, worker, action, caddyVars, up>>

\* A new body, or the same one: a write to the status alone is also an update.
ModifyObject(o, b) ==
    LET new == Object(o.kind, o.name, o.uid, rev + 1, b)
    IN  /\ rev < MaxRev
        /\ rev' = rev + 1
        /\ cluster' = (cluster \ {o}) \cup {new}
        /\ Publish(Event("set", new))
        /\ UNCHANGED <<cache, queue, store, worker, action, caddyVars, up>>

DeleteObject(o) ==
    /\ rev < MaxRev
    /\ rev' = rev + 1
    /\ cluster' = cluster \ {o}
    /\ Publish(Event("deleted", o))
    /\ UNCHANGED <<cache, queue, store, worker, action, caddyVars, up>>
-----------------------------------------------------------------------------
(* The informers and their handlers.                                       *)

\* WatchIngresses and WatchConfigMaps: which calls of a handler reach the
\* queue.  Update looks at the new object only; a tombstone is not an object.
AddFunc(q, o) ==
    IF Managed(o) THEN Add(q, [op |-> "add", obj |-> o, old |-> o]) ELSE q

\* Faulty variant of UpdateFunc: the class of the old object decides.
UpdateFunc_filters_old(q, old, new) ==
    IF Managed(old) THEN Add(q, [op |-> "update", obj |-> new, old |-> old]) ELSE q

UpdateFunc(q, old, new) ==
    IF Managed(new) THEN Add(q, [op |-> "update", obj |-> new, old |-> old]) ELSE q

DeleteFunc(q, e) ==
    IF e.type = "deleted" /\ Managed(e.obj)
    THEN Add(q, [op |-> "delete", obj |-> e.obj, old |-> e.obj])
    ELSE q

Cached(o) == {c \in cache : SameName(c, o)}

\* The informer takes one event: it changes the cache and calls the handler.
HandleSet(k) ==
    LET new == Head(watch[k]).obj
    IN  /\ up
        /\ watch[k] # <<>>
        /\ Head(watch[k]).type = "set"
        /\ watch' = [watch EXCEPT ![k] = Tail(@)]
        /\ cache' = (cache \ Cached(new)) \cup {new}
        /\ \/ Cached(new) = {} /\ queue' = AddFunc(queue, new)
           \/ \E old \in Cached(new) : queue' = UpdateFunc(queue, old, new)
        /\ UNCHANGED <<clusterVars, store, worker, action, caddyVars, up>>

HandleDeleted(k) ==
    LET e == Head(watch[k])
    IN  /\ up
        /\ watch[k] # <<>>
        /\ e.type # "set"
        /\ watch' = [watch EXCEPT ![k] = Tail(@)]
        /\ cache' = cache \ Cached(e.obj)
        /\ queue' = DeleteFunc(queue, e)
        /\ UNCHANGED <<clusterVars, store, worker, action, caddyVars, up>>

\* The watch breaks: what it still had to deliver is lost, and the informer
\* compares a new list with its cache.
WatchBroken(k) ==
    /\ WatchLoss /\ up
    /\ watch[k] # <<>>
    /\ \E es \in RelistEvents(k, cache) : watch' = [watch EXCEPT ![k] = es]
    /\ UNCHANGED <<clusterVars, cache, queue, store, worker, action, caddyVars, up>>

\* resourcesSyncInterval: once an hour the informer replays an object of its
\* cache.  The previous replay of the same object has long been processed.
Resync(o) ==
    LET replay == [op |-> "update", obj |-> o, old |-> o]
    IN  /\ up
        /\ replay \notin queue.dirty \cup queue.processing
        /\ queue' = UpdateFunc(queue, o, o)
        /\ UNCHANGED <<clusterVars, informerVars, store, worker, action, caddyVars, up>>

\* wait.Until(dispatchSync, syncInterval)
dispatchSync ==
    /\ up
    /\ queue' = Add(queue, SyncStatusAction)
    /\ UNCHANGED <<clusterVars, informerVars, store, worker, action, caddyVars, up>>
-----------------------------------------------------------------------------
(* processNextItem: Get, handle, reloadCaddy, Done.                        *)

GetItem ==
    /\ up
    /\ worker = "idle"
    /\ queue.waiting # <<>>
    /\ worker' = "handle"
    /\ action' = Head(queue.waiting)
    /\ queue' = Get(queue)
    /\ UNCHANGED <<clusterVars, informerVars, store, caddyVars, up>>

Handling(ops, k) ==
    /\ up
    /\ worker = "handle"
    /\ action.op \in ops
    /\ action.obj.kind = k

\* handle has returned nil: on to reloadCaddy.
Handled ==
    /\ worker' = "reload"
    /\ UNCHANGED <<clusterVars, informerVars, queue, action, caddyVars, up>>

\* Faulty variant of handleErr: a failed item is queued again.
handleErr_requeues(q, a) == Add(q, a)

\* What handleErr does to the queue: nothing, an error is only logged.
handleErr(q, a) == q

\* Faulty variant of Return: Done is not called, and the item is processed for ever.
Return_without_done(q) ==
    /\ worker' = "idle"
    /\ action' = NoAction
    /\ queue' = q
    /\ UNCHANGED <<clusterVars, informerVars, up>>

\* processNextItem returns; the deferred Done runs.
Return(q) ==
    /\ worker' = "idle"
    /\ action' = NoAction
    /\ queue' = Done(q, action)
    /\ UNCHANGED <<clusterVars, informerVars, up>>

Finish == Return(queue)

HandleFailed == Return(handleErr(queue, action)) /\ UNCHANGED caddyVars

\* The store changes before watchTLSSecrets, which may return an error (when
\* it is the first to list the secrets, or writes their files).
HandleIngressSet ==
    /\ Handling({"add", "update"}, "ingress")
    /\ store' = [store EXCEPT !.ingresses = AddIngress(@, action.obj)]
    /\ Handled \/ HandleFailed

HandleIngressDeleted ==
    /\ Handling({"delete"}, "ingress")
    /\ store' = [store EXCEPT !.ingresses = PluckIngress(@, action.obj)]
    /\ Handled

HandleConfigMapSet ==
    /\ Handling({"add", "update"}, "configmap")
    /\ LET cfg == ParseConfigMap(action.obj.content)
       IN  \/ cfg # "error" /\ store' = [store EXCEPT !.configMap = cfg] /\ Handled
           \/ cfg = "error" /\ UNCHANGED store /\ HandleFailed

HandleConfigMapDeleted ==
    /\ Handling({"delete"}, "configmap")
    /\ store' = [store EXCEPT !.configMap = "nil"]
    /\ Handled

\* syncStatus writes addresses to the API server; it fails when GetAddresses does.
HandleSync ==
    /\ up
    /\ worker = "handle"
    /\ action = SyncStatusAction
    /\ Handled
    /\ UNCHANGED store

HandleSyncFails ==
    /\ up
    /\ worker = "handle"
    /\ action = SyncStatusAction
    /\ HandleFailed
    /\ UNCHANGED store

\* The process dies and takes everything but the cluster with it.
Die ==
    /\ up' = FALSE
    /\ watch' = ProcessState.watch
    /\ cache' = ProcessState.cache
    /\ queue' = ProcessState.queue
    /\ store' = ProcessState.store
    /\ worker' = ProcessState.worker
    /\ action' = ProcessState.action
    /\ lastApplied' = ProcessState.lastApplied
    /\ running' = ProcessState.running
    /\ UNCHANGED clusterVars

Reloading == up /\ worker = "reload"

\* A panic in the worker is reported by wait.Until's HandleCrash and raised again.
ReloadPanics ==
    /\ Reloading
    /\ ConversionPanics(store)
    /\ Die

ReloadError ==
    /\ Reloading
    /\ ConversionFails(store)
    /\ Finish
    /\ UNCHANGED <<store, caddyVars>>

ReloadSkipped ==
    /\ Reloading
    /\ ConversionSucceeds(store)
    /\ lastApplied = ConvertToCaddyConfig(store)
    /\ Finish
    /\ UNCHANGED <<store, caddyVars>>

ReloadCaddy ==
    /\ Reloading
    /\ ConversionSucceeds(store)
    /\ lastApplied # ConvertToCaddyConfig(store)
    /\ lastApplied' = ConvertToCaddyConfig(store)
    /\ running' = ConvertToCaddyConfig(store)
    /\ Finish
    /\ UNCHANGED store

\* Faulty variant of LoadFails: lastAppliedConfig is set before the load.
LoadFails_remembers_config ==
    /\ Reloading
    /\ ConversionSucceeds(store)
    /\ lastApplied # ConvertToCaddyConfig(store)
    /\ lastApplied' = ConvertToCaddyConfig(store)
    /\ Finish
    /\ UNCHANGED <<store, running>>

\* caddy.Load returns an error and leaves the old configuration running.
LoadFails ==
    /\ Reloading
    /\ ConversionSucceeds(store)
    /\ lastApplied # ConvertToCaddyConfig(store)
    /\ Finish
    /\ UNCHANGED <<store, caddyVars>>
-----------------------------------------------------------------------------
(* The process.                                                            *)

\* NewCaddyController and Run: an empty store, and informers that list.
\* WaitForCacheSync holds the worker back until the caches are filled, but not
\* until the handlers have run, which is what watch stands for here: the worker
\* may find the queue as far behind the first list as behind any later event.
Start ==
    /\ ~up
    /\ up' = TRUE
    /\ watch' \in {w \in [Kinds -> UNION {RelistEvents(k, {}) : k \in Kinds}] :
                      \A k \in Kinds : w[k] \in RelistEvents(k, {})}
    /\ UNCHANGED <<clusterVars, cache, queue, store, worker, action, caddyVars>>

\* SIGTERM and os.Exit, or a kill.
Crash == Crashes /\ up /\ Die

Environment ==
    \/ \E k \in Kinds : \E n \in Names(k), b \in Bodies(k) : CreateObject(k, n, b)
    \/ \E o \in cluster : \E b \in Bodies(o.kind) : ModifyObject(o, b)
    \/ \E o \in cluster : DeleteObject(o)

Informers ==
    \/ \E k \in Kinds : HandleSet(k) \/ HandleDeleted(k) \/ WatchBroken(k)
    \/ \E o \in cache : Resync(o)

Handlers ==
    \/ HandleIngressSet \/ HandleIngressDeleted
    \/ HandleConfigMapSet \/ HandleConfigMapDeleted
    \/ HandleSync \/ HandleSyncFails

Reload ==
    \/ ReloadPanics \/ ReloadError \/ ReloadSkipped \/ ReloadCaddy \/ LoadFails

Next ==
    \/ Environment
    \/ Informers
    \/ dispatchSync
    \/ GetItem
    \/ Handlers
    \/ Reload
    \/ Start
    \/ Crash

Spec == Init /\ [][Next]_vars

\* The goroutines run and a dead process is started again.  The calls the
\* worker makes to others (GetAddresses, caddy.Load) succeed now and then.
Fairness ==
    /\ \A k \in Kinds : WF_vars(HandleSet(k) \/ HandleDeleted(k))
    /\ WF_vars(dispatchSync)
    /\ WF_vars(GetItem)
    /\ WF_vars(Handlers)
    /\ SF_vars(HandleSync)
    /\ WF_vars(Reload)
    /\ SF_vars(ReloadCaddy)
    /\ WF_vars(Start)

FairSpec == Spec /\ Fairness
-----------------------------------------------------------------------------
(* Properties.                                                             *)

Configs == [routes : Seq(Contents), debug : {"none", "off", "on"}]

Queues == [waiting : Seq(Actions), dirty : SUBSET Actions, processing : SUBSET Actions]

\* The types of the variables; processNextItem holds an item when it is not waiting for one.
VarTypes ==
    /\ cluster \in SUBSET Objects
    /\ rev \in 0 .. MaxRev
    /\ watch \in [Kinds -> Seq(Events)]
    /\ cache \in SUBSET Objects
    /\ queue \in Queues
    /\ store \in Stores
    /\ worker \in {"idle", "handle", "reload"}
    /\ action \in Actions \cup {NoAction}
    /\ worker = "idle" <=> action = NoAction
    /\ lastApplied \in Configs
    /\ running \in Configs
    /\ up \in BOOLEAN

\* Every variable has its type, and the queue processes exactly the item in hand: each Get
\* has its Done on every way out of processNextItem, without which the queue would hold back
\* every later item that equals it.
TypeOK == VarTypes /\ queue.processing = (IF worker = "idle" THEN {} ELSE {action})

\* The objects of the cluster this controller is responsible for.
Ours(k) == {o \in Listed(k) : Managed(o)}

\* What an object decides: an ingress its own entry in the store, our ConfigMap the
\* options.
Topic(o) == <<o.kind, IF o.kind = "ingress" THEN o.uid ELSE 0>>

\* A ConfigMap that cannot be parsed changes nothing.
Silent(o) == o.kind = "configmap" /\ ParseConfigMap(o.content) = "error"

\* The events of the watch, then the items of the queue, then the item in hand, that
\* will still decide a topic.  (An item that waits for its own Done is not counted.)
EventDecides(e, t) ==
    /\ Managed(e.obj) /\ Topic(e.obj) = t
    /\ e.type = "deleted" \/ (e.type = "set" /\ ~Silent(e.obj))

ItemDecides(a, t) ==
    /\ a.op # "sync"
    /\ Topic(a.obj) = t
    /\ a.op = "delete" \/ ~Silent(a.obj)

WatchWords(t) == {i \in DOMAIN watch[t[1]] : EventDecides(watch[t[1]][i], t)}

QueueWords(t) == {i \in DOMAIN queue.waiting : ItemDecides(queue.waiting[i], t)}

InHand(t) == worker = "handle" /\ ItemDecides(action, t)

InStore(o) == IF o.kind = "ingress" THEN o \in ToSet(store.ingresses)
                                    ELSE store.configMap = ParseConfigMap(o.content)

\* The last word on its way to the store is o; if there is none, it has arrived.
WillBeStored(o) ==
    LET t == Topic(o)
    IN  \/ \E i \in WatchWords(t) : /\ watch[o.kind][i] = Event("set", o)
                                    /\ \A j \in WatchWords(t) : j <= i
        \/ /\ WatchWords(t) = {}
           /\ \E i \in QueueWords(t) : /\ queue.waiting[i].op # "delete"
                                       /\ queue.waiting[i].obj = o
                                       /\ \A j \in QueueWords(t) : j <= i
        \/ /\ WatchWords(t) = {} /\ QueueWords(t) = {} /\ InHand(t)
           /\ action.op # "delete" /\ action.obj = o
        \/ /\ WatchWords(t) = {} /\ QueueWords(t) = {} /\ ~InHand(t)
           /\ InStore(o)

\* The ingresses that are in the store or on their way to it, in any version.
Travelling ==
    UNION {ToSet(store.ingresses),
           {e.obj : e \in ToSet(watch["ingress"])},
           {a.obj : a \in {b \in ToSet(queue.waiting) \cup {action} :
                              b.op \notin {"sync", "none"} /\ b.obj.kind = "ingress"}}}

\* AddIngress and PluckIngress keep one element per UID in the store.
StoreUnique == UniqueUids(store.ingresses)

\* Whatever is lost, replayed, filtered, refused or restarted, every ingress
\* of ours is in the store in its present version, or is on its way there and nothing
\* behind it replaces it.
NothingLost == up => \A o \in Ours("ingress") : WillBeStored(o)

\* The options in the store are, or will be, those of the ConfigMap, unless
\* it is missing or cannot be parsed.
OptionsCurrent == up => \A o \in Ours("configmap") : ~Silent(o) => WillBeStored(o)

\* Where every ingress is ours and no watch breaks, nothing but the ingresses
\* of the cluster stays in the store or will stay there: no deletion is missed.
NoGhost == up => \A o \in Travelling : WillBeStored(o) => o \in Ours("ingress")

\* An older version of an ingress never replaces a newer one in the store.
StoreMonotone ==
    [][\A o \in ToSet(store.ingresses), p \in ToSet(store'.ingresses) :
           o.uid = p.uid => o.rv <= p.rv]_vars

\* Caddy runs one route for each of our ingresses, with the ConfigMap's options.
Served ==
    /\ up
    /\ \A c \in {b.content : b \in IngressBodies} :
           Cardinality({i \in DOMAIN running.routes : running.routes[i] = c})
             = Cardinality({o \in Ours("ingress") : o.content = c})
    /\ running.debug \in {"off", "on"}
    /\ \A o \in Ours("configmap") :
           ParseConfigMap(o.content) \in {"error", running.debug}

\* Once the cluster is no longer changed, Caddy comes to serve it and stays
\* so: a failed load is tried again, and a panic is made good by the restart.
Converges == <>[]Served

\* The pipeline is empty.
Settled == /\ up /\ worker = "idle" /\ queue.waiting = <<>>
           /\ \A k \in Kinds : watch[k] = <<>>

\* onIngressDeleted "is run when an ingress resource is deleted from the
\* cluster": once everything has been handled, a deleted ingress is gone.
DeletedIsRemoved ==
    Settled => \A p \in ToSet(store.ingresses) :
                  \E o \in Listed("ingress") : o.uid = p.uid

\* A controller without a ConfigMap resource converts its store with the
\* default options.
ConvertsWithoutConfigMap ==
    Reloading /\ Ours("configmap") = {} /\ Unconvertible(store) = {}
        => ConversionSucceeds(store)
=============================================================================
