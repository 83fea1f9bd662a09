----------------------------- MODULE Lifecycle -----------------------------
(***************************************************************************)
(* The life of the process: main and createApiserverClient of              *)
(* cmd/caddy/main.go, NewCaddyController, Run and Shutdown of              *)
(* internal/controller/controller.go.  main connects, starts Run in a      *)
(* goroutine and waits for a signal; Run waits for the caches, starts the  *)
(* worker and, after the signal, shuts down and ends the process, while    *)
(* the worker, which nothing stops, may be anywhere in an item.  Shutdown  *)
(* waits twice: for the API server, and for the lock that a worker in      *)
(* caddy.Load holds.                                                       *)
(***************************************************************************)
EXTENDS Integers

CONSTANTS
    Steps,       \* attempts of the backoff in createApiserverClient
    PodEnvs,     \* POD_NAME and POD_NAMESPACE: "both", "one" or "none"
    ConfigMaps   \* does -config-map name a namespace?

ASSUME LifecycleAssumption ==
    /\ Steps \in Nat \ {0}
    /\ PodEnvs \subseteq {"both", "one", "none"}
    /\ ConfigMaps \subseteq BOOLEAN

VARIABLES
    podEnv, namespaced,  \* how the process was started
    main,      \* where main is
    attempts,  \* failed attempts to reach the API server
    notified,  \* has signal.Notify been called?
    stopCh,    \* is stopChan closed?
    run,       \* where Run is
    synced,    \* informers whose HasSynced is true
    worker,    \* "off", "idle", "busy" with an item, or in a "load" with Caddy's lock
    caddy,     \* is a configuration of Caddy running?
    exit       \* how the process ended: Running, 0, 1 or Killed

vars == <<podEnv, namespaced, main, attempts, notified, stopCh, run, synced, worker, caddy, exit>>

Running == -1
Killed == 2

Informers == {"configmap", "ingress"}

config == <<podEnv, namespaced>>

\* Every variable has its type, and Run shuts down only after main has closed the channel.
TypeOK ==
    /\ main \in {"connect", "new", "go", "notify", "wait"}
    /\ attempts \in 0 .. Steps
    /\ run \in {"off", "sync", "serve", "status", "stop", "clean"}
    /\ synced \subseteq Informers
    /\ worker \in {"off", "idle", "busy", "load"}
    /\ exit \in {Running, 0, 1, Killed}
    /\ stopCh => notified
    /\ run \in {"status", "stop", "clean"} => stopCh

Init ==
    /\ podEnv \in PodEnvs /\ namespaced \in ConfigMaps
    /\ main = "connect" /\ attempts = 0 /\ notified = FALSE /\ stopCh = FALSE
    /\ run = "off" /\ synced = {} /\ worker = "off" /\ caddy = FALSE
    /\ exit = Running

Alive == exit = Running
-----------------------------------------------------------------------------
(* main.                                                                   *)

Fatal ==
    /\ exit' = 1
    /\ UNCHANGED <<config, main, attempts, notified, stopCh, run, synced, worker, caddy>>

\* The configuration of the client cannot be built.
ClientInvalid == Alive /\ main = "connect" /\ attempts = 0 /\ Fatal

\* An attempt of ExponentialBackoff fails; there are Steps of them.
Retry ==
    /\ Alive /\ main = "connect"
    /\ attempts < Steps
    /\ attempts' = attempts + 1
    /\ UNCHANGED <<config, main, notified, stopCh, run, synced, worker, caddy, exit>>

\* Faulty variant of GiveUp: the backoff starts again.
GiveUp_starts_over ==
    /\ Alive /\ main = "connect" /\ attempts = Steps
    /\ attempts' = 0
    /\ UNCHANGED <<config, main, notified, stopCh, run, synced, worker, caddy, exit>>

GiveUp == Alive /\ main = "connect" /\ attempts = Steps /\ Fatal

Connected ==
    /\ Alive /\ main = "connect"
    /\ attempts < Steps
    /\ main' = "new"
    /\ UNCHANGED <<config, attempts, notified, stopCh, run, synced, worker, caddy, exit>>

\* GetPodDetails has an error, or there is neither a pod nor a namespace for the
\* ConfigMap.  A pod that cannot be read is no error (StatusSync!Start).
NewFails ==
    /\ Alive /\ main = "new"
    /\ podEnv = "one" \/ (podEnv = "none" /\ ~namespaced)
    /\ Fatal

NewCaddyController ==
    /\ Alive /\ main = "new"
    /\ podEnv = "both" \/ (podEnv = "none" /\ namespaced)
    /\ main' = "go"
    /\ UNCHANGED <<config, attempts, notified, stopCh, run, synced, worker, caddy, exit>>

GoRun ==
    /\ Alive /\ main = "go"
    /\ main' = "notify"
    /\ run' = "sync"
    /\ UNCHANGED <<config, attempts, notified, stopCh, synced, worker, caddy, exit>>

Notify ==
    /\ Alive /\ main = "notify"
    /\ main' = "wait"
    /\ notified' = TRUE
    /\ UNCHANGED <<config, attempts, stopCh, run, synced, worker, caddy, exit>>

\* SIGINT or SIGTERM: before Notify it ends the process; main closes the channel
\* at the first one and then does nothing more.
Signal ==
    /\ Alive
    /\ \/ /\ ~notified /\ exit' = Killed /\ UNCHANGED stopCh
       \/ /\ notified /\ ~stopCh /\ stopCh' = TRUE /\ UNCHANGED exit
    /\ UNCHANGED <<config, main, attempts, notified, run, synced, worker, caddy>>
-----------------------------------------------------------------------------
(* Run and the worker.                                                     *)

\* The informer's goroutine has its first list; it ends with stopChan.
CacheSyncs(i) ==
    /\ Alive /\ run # "off" /\ ~stopCh
    /\ i \notin synced
    /\ synced' = synced \cup {i}
    /\ UNCHANGED <<config, main, attempts, notified, stopCh, run, worker, caddy, exit>>

\* Faulty variant of WaitForCacheSync: the ConfigMap is waited for alone.
WaitForCacheSync_configmap_only ==
    /\ Alive /\ run = "sync"
    /\ "configmap" \in synced \/ stopCh
    /\ run' = "serve"
    /\ worker' = IF stopCh THEN "off" ELSE "idle"
    /\ UNCHANGED <<config, main, attempts, notified, stopCh, synced, caddy, exit>>

\* Faulty variant of WaitForCacheSync: the wait does not end with the channel.
WaitForCacheSync_ignores_stop ==
    /\ Alive /\ run = "sync"
    /\ synced = Informers
    /\ run' = "serve"
    /\ worker' = IF stopCh THEN "off" ELSE "idle"
    /\ UNCHANGED <<config, main, attempts, notified, stopCh, synced, caddy, exit>>

\* The wait ends with the caches, or with the channel, which wait.Until then
\* finds closed before it calls runWorker.
WaitForCacheSync ==
    /\ Alive /\ run = "sync"
    /\ synced = Informers \/ stopCh
    /\ run' = "serve"
    /\ worker' = IF stopCh THEN "off" ELSE "idle"
    /\ UNCHANGED <<config, main, attempts, notified, stopCh, synced, caddy, exit>>

\* An item: an event of an informer, or the ticker's.
GetItem ==
    /\ Alive /\ worker = "idle"
    /\ worker' = "busy"
    /\ UNCHANGED <<config, main, attempts, notified, stopCh, run, synced, caddy, exit>>

\* The item is done without a load: an error, or nothing has changed.  runWorker goes on
\* also after stopChan is closed: the queue is only shut down when Run returns.
FinishItem ==
    /\ Alive /\ worker = "busy"
    /\ worker' = "idle"
    /\ UNCHANGED <<config, main, attempts, notified, stopCh, run, synced, caddy, exit>>

\* caddy.Load has Caddy's configuration lock.
BeginLoad ==
    /\ Alive /\ worker = "busy"
    /\ worker' = "load"
    /\ UNCHANGED <<config, main, attempts, notified, stopCh, run, synced, caddy, exit>>

\* The load ends, with a new configuration or with an error, and releases the lock.
LoadEnds ==
    /\ Alive /\ worker = "load"
    /\ worker' = "idle"
    /\ caddy' \in {caddy, TRUE}
    /\ UNCHANGED <<config, main, attempts, notified, stopCh, run, synced, exit>>

\* A panic of the worker ends the process.
Panic ==
    /\ Alive /\ worker \in {"busy", "load"}
    /\ exit' = Killed
    /\ UNCHANGED <<config, main, attempts, notified, stopCh, run, synced, worker, caddy>>

\* Faulty variant of StopSeen: Run does not wait for the channel.
StopSeen_at_once ==
    /\ Alive /\ run = "serve"
    /\ run' = "status"
    /\ UNCHANGED <<config, main, attempts, notified, stopCh, synced, worker, caddy, exit>>

StopSeen ==
    /\ Alive /\ run = "serve" /\ stopCh
    /\ run' = "status"
    /\ UNCHANGED <<config, main, attempts, notified, stopCh, synced, worker, caddy, exit>>

\* Shutdown, first step: WaitAll returns, every update of a status (StatusSync) has its
\* answer.  The requests have no timeout, so this may never happen.
StatusesUpdated ==
    /\ Alive /\ run = "status"
    /\ run' = "stop"
    /\ UNCHANGED <<config, main, attempts, notified, stopCh, synced, worker, caddy, exit>>

\* caddy.Stop takes the lock, which no load may hold, and stops the servers.
CaddyStops ==
    /\ Alive /\ run = "stop" /\ worker # "load"
    /\ caddy' = FALSE
    /\ run' = "clean"
    /\ UNCHANGED <<config, main, attempts, notified, stopCh, synced, worker, exit>>

\* An error of caddy.Stop: the locks are not cleaned up, and the process ends with 1.
StopFails ==
    /\ Alive /\ run = "stop" /\ worker # "load"
    /\ exit' = 1
    /\ UNCHANGED <<config, main, attempts, notified, stopCh, run, synced, worker, caddy>>

\* CleanUpOwnLocks and os.Exit, which does not wait for the worker.
Exit ==
    /\ Alive /\ run = "clean"
    /\ exit' = 0
    /\ UNCHANGED <<config, main, attempts, notified, stopCh, run, synced, worker, caddy>>

Main == ClientInvalid \/ Retry \/ GiveUp \/ Connected \/ NewFails \/ NewCaddyController \/ GoRun \/ Notify

Shutdown == StopSeen \/ StatusesUpdated \/ CaddyStops \/ StopFails \/ Exit

Next ==
    \/ Main \/ Signal
    \/ \E i \in Informers : CacheSyncs(i)
    \/ WaitForCacheSync
    \/ GetItem \/ FinishItem \/ BeginLoad \/ LoadEnds \/ Panic
    \/ Shutdown

Spec == Init /\ [][Next]_vars

\* The process's own steps: main, the wait for the caches or the channel, and Shutdown.
\* A Go mutex is handed to who has waited for a millisecond, so caddy.Stop gets the lock if
\* it is free again and again.  Nothing is assumed of the API server, of a load that holds
\* the lock, of the informers or of the worker.
Fairness ==
    /\ WF_vars(Main) /\ WF_vars(WaitForCacheSync)
    /\ WF_vars(StopSeen) /\ SF_vars(CaddyStops \/ StopFails) /\ WF_vars(Exit)

FairSpec == Spec /\ Fairness
-----------------------------------------------------------------------------
(* Properties.                                                             *)

\* Run: "wait for all involved caches to be synced before processing items from the
\* queue".  Whatever the order of lists and signals, no item is handled and nothing is
\* loaded before both informers have their lists.
SyncedBeforeWork == worker \in {"busy", "load"} \/ caddy => synced = Informers

\* The API server answers the requests of Shutdown's batch, and a load ends.
Answered == WF_vars(StatusesUpdated) /\ WF_vars(LoadEnds)

\* main: "Let controller exit the process".  A signal that closed the channel ends the
\* process, also if the caches never fill and if the worker loads again and again and so
\* competes with caddy.Stop for the lock; provided the API server answers the requests of
\* WaitAll and no load holds the lock for ever, which the code cannot enforce.
StopEnds == Answered => (stopCh ~> exit # Running)

\* The connection is made or the process ends: an API server that fails every request does
\* not leave a process that looks alive and does nothing.
ConnectEnds == main = "connect" ~> (main # "connect" \/ exit # Running)
=============================================================================
