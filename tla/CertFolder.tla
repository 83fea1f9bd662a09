----------------------------- MODULE CertFolder -----------------------------
(***************************************************************************)
(* Certificates the users bring (internal/controller/action_tls.go,        *)
(* internal/k8s/tls_secret.go, internal/caddy/global/tls.go).  The first   *)
(* ingress with a TLS section makes the worker start an informer of        *)
(* secrets; the informer's goroutine filters its events by the ingresses   *)
(* in the store, which the worker changes at the same time; the worker     *)
(* keeps the files of the certificate folder; Caddy reads the folder when  *)
(* a configuration is loaded.                                              *)
(*                                                                         *)
(* Ingresses enter where their informer queues them: Controller models how *)
(* they get there.  A secret is in the informer's cache some time after it *)
(* was created; later changes reach the cache at once and its handlers     *)
(* some time later, so the delay of the watch is that of the handlers.     *)
(***************************************************************************)
EXTENDS Naturals, SequencesExt, IngressStore, WorkQueue

CONSTANTS
    Uids,          \* ingresses
    IngressSpecs,  \* what an ingress can say: [ns, host, secrets]
    Namespaces, SecretNames,
    Types,         \* is a secret of type kubernetes.io/tls?
    MaxIngressRev, MaxSecretRev,  \* bounds: changes of ingresses and of secrets
    Removals,      \* may ingresses be removed, or name other secrets?
    WatchLoss,     \* may the watch of the secrets miss a deletion?
    DiskFails,     \* may the folder or a file not be written, or a file not be removed?
    Crashes        \* may the process be killed?

ASSUME CertFolderAssumption ==
    /\ MaxIngressRev \in Nat /\ MaxSecretRev \in Nat
    /\ {Removals, WatchLoss, DiskFails, Crashes} \subseteq BOOLEAN
    /\ Types \subseteq BOOLEAN
    /\ \A spec \in IngressSpecs : /\ DOMAIN spec = {"ns", "host", "secrets"}
                                  /\ spec.secrets \in Seq(SecretNames)

VARIABLES
    ingresses,    \* the ingresses of the cluster, as their informer knows them
    secrets,      \* the secrets of the cluster
    ingressRev, secretRev,  \* counters of the changes to each
    missed,       \* (history) names of secrets whose deletion the watch missed
    watching,     \* informers.TLSSecret # nil
    cache,        \* the secrets its lister knows
    events,       \* what its handlers have still to be told
    dropped,      \* (history) secrets whose event found no ingress that names them
    queue,        \* syncQueue
    store,        \* resourceStore.Ingresses
    worker,       \* "idle", "handle", "cut", "list" or "reload"
    action,       \* the item it works on
    folder,       \* file name -> the secret it was written from
    unwritten,    \* (history) files whose last write has failed
    unremoved,    \* (history) files that could not be removed, and were not written since
    lastApplied,  \* lastAppliedConfig
    certs,        \* the files Caddy read at the last load
    up            \* is the process running?

vars == <<ingresses, secrets, ingressRev, secretRev, missed, watching, cache, events, dropped,
          queue, store, worker, action, folder, unwritten, unremoved, lastApplied, certs, up>>

clusterVars == <<ingresses, secrets, ingressRev, secretRev, missed>>
informerVars == <<watching, cache, events, dropped>>
diskVars == <<folder, unwritten, unremoved>>
caddyVars == <<lastApplied, certs>>
-----------------------------------------------------------------------------
Ingresses == [uid : Uids, rv : 1 .. MaxIngressRev, spec : IngressSpecs]

Secrets == [ns : Namespaces, name : SecretNames, tls : Types, rv : 1 .. MaxSecretRev]

NoFile == [name |-> "none"]
Broken == [name |-> "broken"]

Folders == [SecretNames -> Secrets \cup {NoFile, Broken}]

EmptyFolder == [n \in SecretNames |-> NoFile]

\* "gone" is a deletion the watch missed: cache.DeletedFinalStateUnknown.
Events == [type : {"add", "update", "delete", "gone"}, obj : Secrets, old : Secrets]

Event(t, s, old) == [type |-> t, obj |-> s, old |-> old]

IngressActions == [kind : {"ingress"}, op : {"set", "delete"}, obj : Ingresses]

SecretActions == [kind : {"secret"}, op : {"add", "update", "delete"},
                  obj : Secrets, old : Secrets]

NoAction == [kind |-> "none"]

Actions == IngressActions \cup SecretActions

IngressAction(op, ing) == [kind |-> "ingress", op |-> op, obj |-> ing]
SecretAction(op, s, old) == [kind |-> "secret", op |-> op, obj |-> s, old |-> old]
-----------------------------------------------------------------------------
(* Pure parts of the code.                                                 *)

\* Does an ingress of the list name the secret, in the secret's namespace?
IsManagedTLSSecret(s, ings) ==
    \E i \in DOMAIN ings : /\ s.name \in ToSet(ings[i].spec.secrets)
                           /\ s.ns = ings[i].spec.ns

HasManagedTLS(ings) == \E i \in DOMAIN ings : ings[i].spec.secrets # <<>>

writeFile(f, s) == [f EXCEPT ![s.name] = s]

\* Place <<i, j>> is TLS section j of ingress i of the list.
NameAt(ings, p) == ings[p[1]].spec.secrets[p[2]]

SecretsAt(lister, ings, p) ==
    {s \in lister : s.ns = ings[p[1]].spec.ns /\ s.name = NameAt(ings, p)}

\* The places whose secret the lister has, in the order of the list; a secret that is
\* not there is skipped, and the type is not looked at.
ListTLSSecrets(lister, ings) ==
    {p \in UNION {{<<i, j>> : j \in DOMAIN ings[i].spec.secrets} : i \in DOMAIN ings} :
        SecretsAt(lister, ings, p) # {}}

Before(p, q) == p[1] < q[1] \/ (p[1] = q[1] /\ p[2] < q[2])

\* The secrets of the places are written in turn: the last one of a name stays.
writeFiles(f, lister, ings, places) ==
    [n \in SecretNames |->
        LET named == {p \in places : NameAt(ings, p) = n}
            last  == CHOOSE p \in named : \A q \in named : ~Before(p, q)
        IN  IF named = {} THEN f[n] ELSE CHOOSE s \in SecretsAt(lister, ings, last) : TRUE]

\* The configuration says which hosts Caddy must not get certificates for, and
\* whether it reads the folder; it does not say which secrets are in it.
ConvertToCaddyConfig(ings) ==
    [routes |-> [i \in DOMAIN ings |-> ings[i].spec.host],
     skip   |-> {ings[i].spec.host :
                    i \in {j \in DOMAIN ings : ings[j].spec.secrets # <<>>}}]

LoadsFolder(config) == config.skip # {}

NoConfig == [routes |-> <<>>, skip |-> {"none"}]

\* What another goroutine sees of the store.  PluckIngress swaps its element
\* with the last one in two writes, and between them the last one is nowhere.
HalfPlucked(ings, ing) ==
    LET first == CHOOSE i \in Matches(ings, ing) :
                     \A j \in Matches(ings, ing) : i <= j
    IN  IF Matches(ings, ing) = {} THEN ings
                                   ELSE [ings EXCEPT ![Len(ings)] = ings[first]]

SeenIngresses == IF worker = "cut" THEN HalfPlucked(store, action.obj) ELSE store
-----------------------------------------------------------------------------
Init ==
    /\ ingresses = {} /\ secrets = {}
    /\ ingressRev = 0 /\ secretRev = 0 /\ missed = {}
    /\ up = FALSE
    /\ watching = FALSE /\ cache = {} /\ events = <<>> /\ dropped = {}
    /\ queue = EmptyQueue /\ store = <<>>
    /\ worker = "idle" /\ action = NoAction
    /\ folder = EmptyFolder /\ unwritten = {} /\ unremoved = {}
    /\ lastApplied = NoConfig /\ certs = EmptyFolder

\* The ingress informer queues what it is told.
Enqueue(a) == queue' = IF up THEN Add(queue, a) ELSE queue

SetIngress(u, spec) ==
    LET old == {ing \in ingresses : ing.uid = u}
        new == [uid |-> u, rv |-> ingressRev + 1, spec |-> spec]
    IN  /\ ingressRev < MaxIngressRev
        /\ Removals \/ \A ing \in old : ing.spec = spec
        /\ ingressRev' = ingressRev + 1
        /\ ingresses' = (ingresses \ old) \cup {new}
        /\ Enqueue(IngressAction("set", new))
        /\ UNCHANGED <<secrets, secretRev, missed, informerVars, store, worker, action,
                       diskVars, caddyVars, up>>

RemoveIngress(ing) ==
    /\ Removals
    /\ ingressRev < MaxIngressRev
    /\ ingressRev' = ingressRev + 1
    /\ ingresses' = ingresses \ {ing}
    /\ Enqueue(IngressAction("delete", ing))
    /\ UNCHANGED <<secrets, secretRev, missed, informerVars, store, worker, action,
                   diskVars, caddyVars, up>>

SecretVars == <<ingresses, ingressRev, watching, dropped, queue, store, worker, action,
                diskVars, caddyVars, up>>

CreateSecret(ns, n, tls) ==
    /\ secretRev < MaxSecretRev
    /\ \A s \in secrets : <<s.ns, s.name>> # <<ns, n>>
    /\ secretRev' = secretRev + 1
    /\ secrets' = secrets \cup {[ns |-> ns, name |-> n, tls |-> tls, rv |-> secretRev + 1]}
    /\ UNCHANGED <<missed, cache, events, SecretVars>>

\* A cached secret is changed: the informer replaces it and tells its handlers.
Notify(s, replacement, e) ==
    IF s \in cache
    THEN /\ cache' = (cache \ {s}) \cup replacement
         /\ events' = Append(events, e)
    ELSE UNCHANGED <<cache, events>>

\* A renewed certificate.
UpdateSecret(s) ==
    LET new == [s EXCEPT !.rv = secretRev + 1]
    IN  /\ secretRev < MaxSecretRev
        /\ secretRev' = secretRev + 1
        /\ secrets' = (secrets \ {s}) \cup {new}
        /\ Notify(s, {new}, Event("update", new, s))
        /\ UNCHANGED <<missed, SecretVars>>

DeleteSecret(s, how) ==
    /\ secretRev < MaxSecretRev
    /\ how = "gone" => WatchLoss
    /\ secretRev' = secretRev + 1
    /\ secrets' = secrets \ {s}
    /\ missed' = IF how = "gone" THEN missed \cup {s.name} ELSE missed
    /\ Notify(s, {}, Event(how, s, s))
    /\ UNCHANGED SecretVars
-----------------------------------------------------------------------------
(* The informer of the secrets.                                            *)

\* The first list, or a watch event, brings a secret that is new to the cache.
Observe(s) ==
    /\ watching
    /\ s \notin cache
    /\ cache' = cache \cup {s}
    /\ events' = Append(events, Event("add", s, s))
    /\ UNCHANGED <<clusterVars, watching, dropped, queue, store, worker, action, diskVars,
                   caddyVars, up>>

\* resourcesSyncInterval: every cached secret is replayed, long after the last time.
Resync(s) ==
    /\ events = <<>>
    /\ SecretAction("update", s, s) \notin queue.dirty \cup queue.processing
    /\ events' = <<Event("update", s, s)>>
    /\ UNCHANGED <<clusterVars, watching, cache, dropped, queue, store, worker, action,
                   diskVars, caddyVars, up>>

\* The same replay by the informer of the ingresses.  It also ends in a reload, like
\* the periodic SyncStatusAction, which is left out here.
ResyncIngress(ing) ==
    /\ IngressAction("set", ing) \notin queue.dirty \cup queue.processing
    /\ up
    /\ queue' = Add(queue, IngressAction("set", ing))
    /\ UNCHANGED <<clusterVars, informerVars, store, worker, action, diskVars, caddyVars, up>>

\* Faulty variant of onSecretUpdated: the old secret is queued.
onSecretUpdated_queues_old(q, old, new) ==
    IF IsManagedTLSSecret(new, SeenIngresses)
    THEN Add(q, SecretAction("update", old, old))
    ELSE q

\* Faulty variant of onSecretUpdated: an update without a change is skipped.
onSecretUpdated_skips_resync(q, old, new) ==
    IF old # new /\ IsManagedTLSSecret(new, SeenIngresses)
    THEN Add(q, SecretAction("update", new, old))
    ELSE q

onSecretUpdated(q, old, new) ==
    IF IsManagedTLSSecret(new, SeenIngresses)
    THEN Add(q, SecretAction("update", new, old))
    ELSE q

onSecretAdded(q, s) ==
    IF IsManagedTLSSecret(s, SeenIngresses) THEN Add(q, SecretAction("add", s, s)) ELSE q

\* Faulty variant of onSecretDeleted: filtered like the other two.
onSecretDeleted_only_managed(q, s) ==
    IF IsManagedTLSSecret(s, SeenIngresses) THEN Add(q, SecretAction("delete", s, s)) ELSE q

\* A deletion is queued whether or not an ingress names the secret.
onSecretDeleted(q, s) == Add(q, SecretAction("delete", s, s))

\* WatchTLSSecrets: the handlers run in a goroutine of the informer, for secrets
\* of type TLS; a tombstone is no secret.
HandleEvent ==
    LET e == Head(events)
    IN  /\ events # <<>>
        /\ events' = Tail(events)
        /\ queue' = CASE ~e.obj.tls \/ e.type = "gone"        -> queue
                      [] e.obj.tls /\ e.type = "add"    -> onSecretAdded(queue, e.obj)
                      [] e.obj.tls /\ e.type = "update" -> onSecretUpdated(queue, e.old, e.obj)
                      [] e.obj.tls /\ e.type = "delete" -> onSecretDeleted(queue, e.obj)
        /\ dropped' = IF /\ e.obj.tls /\ e.type \in {"add", "update"}
                         /\ ~IsManagedTLSSecret(e.obj, SeenIngresses)
                      THEN dropped \cup {e.obj} ELSE dropped
        /\ UNCHANGED <<clusterVars, watching, cache, store, worker, action,
                       diskVars, caddyVars, up>>
-----------------------------------------------------------------------------
(* The worker.                                                             *)

GetItem ==
    /\ worker = "idle"
    /\ queue.waiting # <<>>
    /\ worker' = "handle"
    /\ action' = Head(queue.waiting)
    /\ queue' = Get(queue)
    /\ UNCHANGED <<clusterVars, informerVars, store, diskVars, caddyVars, up>>

Handling(kind, op) ==
    /\ worker = "handle"
    /\ action.kind = kind
    /\ action.op = op

Goto(w) == worker' = w /\ UNCHANGED <<clusterVars, queue, action, caddyVars, up>>

\* Faulty variant of Finish: Done is not called, and the item is processed for ever.
Finish_without_done ==
    /\ worker' = "idle"
    /\ action' = NoAction
    /\ UNCHANGED <<clusterVars, queue, up>>

\* processNextItem returns: an error is logged, and nothing is loaded.
Finish ==
    /\ worker' = "idle"
    /\ action' = NoAction
    /\ queue' = Done(queue, action)
    /\ UNCHANGED <<clusterVars, up>>

HandleFailed == Finish /\ UNCHANGED caddyVars

\* The store changes, and watchTLSSecrets starts the informer when it is the
\* first to need it.
HandleIngressSet ==
    LET ings == AddIngress(store, action.obj)
    IN  /\ Handling("ingress", "set")
        /\ store' = ings
        /\ UNCHANGED <<cache, events, dropped, diskVars>>
        /\ \/ /\ watching \/ ~HasManagedTLS(ings)
              /\ Goto("reload") /\ UNCHANGED watching
           \/ /\ ~watching /\ HasManagedTLS(ings)
              /\ Goto("list") /\ watching' = TRUE

\* The folder cannot be made: the store has changed, and nothing is watched.
MkdirFails ==
    /\ DiskFails
    /\ Handling("ingress", "set")
    /\ store' = AddIngress(store, action.obj)
    /\ ~watching /\ HasManagedTLS(store')
    /\ unwritten' = SecretNames
    /\ HandleFailed
    /\ UNCHANGED <<informerVars, folder, unremoved>>

\* The rest of watchTLSSecrets: the lister is read while the informer fills
\* it, and the files are written until one cannot be.
SyncSecrets ==
    LET listed == ListTLSSecrets(cache, store)
    IN  /\ worker = "list"
        /\ UNCHANGED <<informerVars, store, unremoved>>
        /\ \/ /\ Goto("reload")
              /\ folder' = writeFiles(folder, cache, store, listed)
              /\ unwritten' = {}
           \/ /\ DiskFails /\ HandleFailed
              /\ \E p \in listed :
                    LET before == {q \in listed : Before(q, p)}
                    IN  /\ folder' = [writeFiles(folder, cache, store, before)
                                         EXCEPT ![NameAt(store, p)] = Broken]
                        /\ unwritten' = {NameAt(store, q) : q \in listed \ before}

\* PluckIngress, in the two writes other goroutines can tell apart.
StartPluck ==
    /\ Handling("ingress", "delete")
    /\ Goto("cut")
    /\ UNCHANGED <<informerVars, store, diskVars>>

HandleIngressDeleted ==
    /\ worker = "cut"
    /\ store' = PluckIngress(store, action.obj)
    /\ Goto("reload")
    /\ UNCHANGED <<informerVars, diskVars>>

HandleSecretSet ==
    /\ Handling("secret", "add") \/ Handling("secret", "update")
    /\ folder' = writeFile(folder, action.obj)
    /\ unwritten' = unwritten \ {action.obj.name}
    /\ unremoved' = unremoved \ {action.obj.name}
    /\ dropped' = dropped \ {action.obj}
    /\ Goto("reload")
    /\ UNCHANGED <<watching, cache, events, store>>

\* os.WriteFile truncates the file before it writes it.
WriteFails ==
    /\ DiskFails
    /\ Handling("secret", "add") \/ Handling("secret", "update")
    /\ folder' \in {folder, [folder EXCEPT ![action.obj.name] = Broken]}
    /\ unwritten' = unwritten \cup {action.obj.name}
    /\ HandleFailed
    /\ UNCHANGED <<informerVars, store, unremoved>>

\* os.Remove: without a file it is an error, too.
HandleSecretDeleted ==
    /\ Handling("secret", "delete")
    /\ folder' = [folder EXCEPT ![action.obj.name] = NoFile]
    /\ unwritten' = unwritten \ {action.obj.name}
    /\ unremoved' = unremoved \ {action.obj.name}
    /\ \/ folder[action.obj.name] # NoFile /\ Goto("reload")
       \/ folder[action.obj.name] = NoFile /\ HandleFailed
    /\ UNCHANGED <<informerVars, store>>

\* os.Remove fails with the file in place: the error is logged, and nothing tries again.
RemoveFails ==
    /\ DiskFails
    /\ Handling("secret", "delete")
    /\ folder[action.obj.name] # NoFile
    /\ unremoved' = unremoved \cup {action.obj.name}
    /\ HandleFailed
    /\ UNCHANGED <<informerVars, store, folder, unwritten>>

\* reloadCaddy: Caddy reads the folder only when the configuration changed.
ReloadCaddy ==
    LET config == ConvertToCaddyConfig(store)
    IN  /\ worker = "reload"
        /\ lastApplied' = config
        /\ certs' = IF config = lastApplied THEN certs
                    ELSE IF LoadsFolder(config) THEN folder ELSE EmptyFolder
        /\ Finish
        /\ UNCHANGED <<informerVars, store, diskVars>>

\* caddy.Load fails, as it does when a file of the folder is no certificate.
LoadFails ==
    /\ worker = "reload"
    /\ lastApplied # ConvertToCaddyConfig(store)
    /\ Finish
    /\ UNCHANGED <<informerVars, store, diskVars, caddyVars>>
-----------------------------------------------------------------------------
(* The process.  The folder is in the container's own file system.         *)

Start ==
    /\ ~up
    /\ up' = TRUE
    /\ \E order \in SetToSeqs({IngressAction("set", ing) : ing \in ingresses}) :
           queue' = [EmptyQueue EXCEPT !.waiting = order, !.dirty = ToSet(order)]
    /\ UNCHANGED <<clusterVars, informerVars, store, worker, action, diskVars, caddyVars>>

Crash ==
    /\ Crashes /\ up
    /\ up' = FALSE
    /\ watching' = FALSE /\ cache' = {} /\ events' = <<>> /\ dropped' = {}
    /\ queue' = EmptyQueue /\ store' = <<>>
    /\ worker' = "idle" /\ action' = NoAction
    /\ folder' = EmptyFolder /\ unwritten' = {} /\ unremoved' = {}
    /\ lastApplied' = NoConfig /\ certs' = EmptyFolder
    /\ UNCHANGED clusterVars

Environment ==
    \/ \E u \in Uids, spec \in IngressSpecs : SetIngress(u, spec)
    \/ \E ing \in ingresses : RemoveIngress(ing)
    \/ \E ns \in Namespaces, n \in SecretNames, tls \in Types : CreateSecret(ns, n, tls)
    \/ \E s \in secrets : UpdateSecret(s) \/ \E how \in {"delete", "gone"} : DeleteSecret(s, how)

Handlers ==
    \/ HandleIngressSet \/ MkdirFails \/ StartPluck \/ HandleIngressDeleted
    \/ SyncSecrets \/ HandleSecretSet \/ WriteFails \/ HandleSecretDeleted \/ RemoveFails

Next ==
    \/ Environment
    \/ \E s \in secrets : Observe(s)
    \/ \E s \in cache : Resync(s)
    \/ \E ing \in ingresses : ResyncIngress(ing)
    \/ HandleEvent
    \/ GetItem
    \/ Handlers
    \/ ReloadCaddy \/ LoadFails
    \/ Start \/ Crash

Spec == Init /\ [][Next]_vars

\* The goroutines run, the hourly resync of each secret comes, and a dead
\* process is started again.
Fairness ==
    /\ WF_vars(\E s \in secrets : Observe(s))
    /\ \A ns \in Namespaces, n \in SecretNames :
           SF_vars(\E s \in cache : s.ns = ns /\ s.name = n /\ Resync(s))
    /\ WF_vars(HandleEvent)
    /\ WF_vars(GetItem)
    /\ WF_vars(Handlers)
    /\ WF_vars(ReloadCaddy \/ LoadFails)
    /\ WF_vars(Start)

FairSpec == Spec /\ Fairness
-----------------------------------------------------------------------------
(* Properties.                                                             *)

\* The types of the variables; the worker holds an item exactly while it is busy.
VarTypes ==
    /\ ingresses \in SUBSET Ingresses
    /\ secrets \in SUBSET Secrets
    /\ watching \in BOOLEAN
    /\ cache \in SUBSET secrets
    /\ events \in Seq(Events)
    /\ store \in Seq(Ingresses)
    /\ worker \in {"idle", "handle", "cut", "list", "reload"}
    /\ action \in Actions \cup {NoAction}
    /\ worker = "idle" <=> action = NoAction
    /\ folder \in Folders
    /\ unwritten \cup unremoved \cup missed \subseteq SecretNames
    /\ dropped \subseteq Secrets
    /\ certs \in Folders

\* Every variable has its type: the cache is never ahead of the cluster, and the queue
\* processes exactly the item in hand, so that no Get is left without its Done.
TypeOK == VarTypes /\ queue.processing = (IF worker = "idle" THEN {} ELSE {action})

\* Nothing is under way.
Settled == /\ up /\ worker = "idle" /\ queue.waiting = <<>> /\ events = <<>>
           /\ watching => cache = secrets

\* watchTLSSecrets "will sync the CertFolder with TLS secrets": once nothing is under
\* way, each TLS secret an ingress names is in its file as it is now, unless the last
\* write of that file has failed or the secret arrived while no ingress named it.
InSyncButFor(names, others) ==
    \A s \in secrets : s.tls /\ IsManagedTLSSecret(s, store)
                          => s.name \in names \/ s \in others \/ folder[s.name] = s

FolderInSync == Settled => InSyncButFor(unwritten, dropped)

\* A file does not outlive its TLS secret, also when no ingress names it any more
\* or when it was written while the deletion was on its way; but for the files the code gives
\* up: the watch missed a deletion (a tombstone is not recognised), or os.Remove failed and
\* nothing was written to the file since.
NoOrphanFile ==
    Settled => \A n \in SecretNames \ (missed \cup unremoved) :
                  folder[n] \in Secrets /\ folder[n].tls
                    => \E s \in secrets : s.tls /\ s.name = n /\ s.ns = folder[n].ns

\* Once the cluster rests, the resync brings every named TLS secret to its file, whatever
\* the filters or a torn read of the store have lost.
EventuallyOnDisk == <>[](up /\ InSyncButFor({}, {}))
=============================================================================
