# A TLA+ specification of the Caddy ingress controller

This directory holds TLA+ models of the program under `src/`, the TLC
configurations that check them on small instances, and TLAPS proofs of the
properties that matter most for instances of any size. `PROJECT.json` maps every
definition to the lines it models.

## 1. The system

The program watches Kubernetes ingresses and one ConfigMap, turns them into a
configuration of the Caddy web server that runs in the same process, and stores
Caddy's certificates in Kubernetes secrets under a lock kept in a Lease.

| Component | State | Operations | Talks to |
|---|---|---|---|
| watch filters (`internal/k8s/ingress.go`, `configmap.go`) | the informers' caches (client-go) | AddFunc, UpdateFunc, DeleteFunc | API server (watch), work queue |
| control loop (`internal/controller`) | `syncQueue`, `lastAppliedConfig` | on*, `handle` of each action, `processNextItem`, `reloadCaddy`, `Run`, `Shutdown` | informers, store, converter, Caddy |
| resource store (`pkg/store`) | list of ingresses, parsed ConfigMap | `AddIngress`, `PluckIngress`, `ParseConfigMap` | written by the worker, read by everyone |
| converter and plugins (`pkg/converter`, `internal/caddy`) | none | `ConvertToCaddyConfig`, the plugins' handlers, the order of plugins, route sorting | store |
| TLS secrets (`action_tls.go`, `tls_secret.go`) | files in the certificate folder, a third informer | on*, `handle`, `watchTLSSecrets` | store (read in another goroutine), file system |
| ingress status (`action_status.go`, `pod.go`) | the status of each ingress in the cluster | `syncStatus`, `updateIngStatuses`, `Shutdown` | API server; other replicas |
| certificate storage (`pkg/storage`) | secrets and leases in the cluster | `Store`, `Load`, `Delete`, `List`, `Stat`, `Lock`, `TryLock`, `Unlock`, `keepLockUpdated` | certmagic; other instances |
| process (`cmd/caddy/main.go`, `NewCaddyController`, `Run`, `Shutdown`) | where `main`, `Run` and the worker are, `stopChan` | connect with retries, signal, start, stop | everything |
| command line, PROXY wrapper, Helm chart | none of interest | | |

What is hard about it:

* *The pipeline.* An object passes an API watch, a cache, a filter, a
  de-duplicating queue, the store, a conversion and a load. Events may be lost
  with a broken watch, repeated by the hourly resync, refused by a handler, and
  the process may die at any point. The store must follow the cluster, never
  step back to an older version, and Caddy must end up with the right
  configuration although nothing is ever retried explicitly.
* *The lock.* Several replicas (and, across configuration reloads, several
  storage instances of one process) compete for a lease that is read and written
  in separate requests, renewed by a goroutine of its own, judged by the clocks of
  different machines, and deleted by name. Requests are slow, fail, or succeed
  without an answer; contexts are cancelled; processes die.
* *Shared data without locks*: the TLS informer reads the store the worker writes,
  `Shutdown` writes the statuses the worker writes, and all replicas write the same
  statuses.
* *Calls of several requests*: a value is stored by Create and then Update, a status
  is read and then written; requests fail, lose their answer or are carried out late.
* *Texts that are keys*: paths, secret names and plugin names are cut, cleaned, compared
  and sorted, and what falls together or comes first decides what is served or found.

The full list, line by line, is in `PROJECT.json` under `hazards`.

## 2. Modules

| Module | Models |
|---|---|
| `IngressStore` | `pkg/store/store.go`: `AddIngress`, `PluckIngress` as operators on sequences |
| `WorkQueue` | client-go's work queue (external) as operators on a record |
| `Controller` | cluster, watches, informers, handlers, queue, worker, reload, process |
| `CertFolder` | TLS secrets: their informer, its filters, the certificate folder; uses `IngressStore` and `WorkQueue` |
| `StatusSync` | the statuses of the ingresses, written by several replicas and at shutdown |
| `Lifecycle` | `main`, `createApiserverClient`, `Run`, `Shutdown` |
| `PluginOrder` | `pkg/converter/converter.go`: the registered plugins and their order |
| `Converter` | all plugins, matchers, `sortRoutes`, and which route answers a request; uses `PluginOrder` |
| `CleanKey` | `cleanKey` of `pkg/storage/storage.go` on sequences of characters |
| `KeyValue` | abstract: the map a certificate storage promises |
| `SecretStorage` | `Store`, `Load`, `Delete`, `Exists`, `Stat`, `List` on secrets; uses `CleanKey`, implements `KeyValue` |
| `StorageLock` | the lock of `pkg/storage/storage.go`, and the parts of its inductive invariant |
| `MCController`, `MCCertFolder`, `MCStatusSync`, `MCConverter`, `MCSecretStorage`, `MCStorageLock` | values of the constants for TLC; the last assumes `PromptEnough` |
| `Controller_proofs` | the types of the variables and uniqueness of the store |
| `StorageLock_proofs` | exclusion, lease ownership, expiry, return of `Lock`, no takeover by a refresher, type correctness |
| `SecretStorage_proofs` | type correctness, that the storage implements `KeyValue`, and what `cleanKey` makes of keys of any length; uses `MCSecretStorage` for the properties of names |
| `Pipeline_proofs` | type correctness with the item in hand, no ingress of ours is lost on its way to the store, nor the options; no version is replaced by an older one, and no deletion is missed; uses `Controller_proofs` |
| `Converter_proofs` | the order of the plugins and of the routes, the conversion is a function of the store, it has a route for each rule or fails, what the routes accept and which of them answers |
| `CertFolder_proofs` | type correctness, no file outlives its secret, and the folder follows the secrets |
| `StatusSync_proofs` | type correctness, what the sort of the addresses returns, and only addresses of selecting services |
| `Lifecycle_proofs` | type correctness, and no work before the caches are filled |

How they fit together: `Controller` is the worker with its two informers. `CertFolder` is
the same worker and queue seen from the third informer; ingresses enter it where
`Controller` queues them. `Converter` opens the step `Controller` calls a conversion,
`StatusSync` the item `Controller` calls a status sync, `Lifecycle` the start and the end
that are single steps elsewhere. `StorageLock` and `SecretStorage` are the two halves of the
storage Caddy calls.

### Controller

One variable per piece of state. `cluster` and `rev` are the API server: an object
is a record with kind, name, uid, resource version, class annotation, class field
and one word of content. `watch[k]` is what is on its way to the handlers of the
informer of kind `k`, in order: the network, the informer's FIFO and the buffer of
its listener. `cache`, `queue`, `store`, `lastApplied` are the fields of the same
name of the program, `running` is what Caddy runs, and `worker` and `action` are
the place of `processNextItem` and the item it holds.

* `CreateObject`, `ModifyObject`, `DeleteObject` are the users of the cluster; a
  modification may leave the body as it is, as a write of the status does.
* `HandleSet`, `HandleDeleted`: the informer takes one event, changes its cache and
  calls AddFunc, UpdateFunc or DeleteFunc. `WatchBroken`: the events not yet
  delivered are lost and the informer compares a new list with its cache; a
  deletion it missed becomes an event of type `gone`
  (`cache.DeletedFinalStateUnknown`). `Resync`: the hourly replay of a cached object.
* `GetItem`, one action for each `handle`, and five outcomes of `reloadCaddy`:
  a panic, an error of the conversion, an unchanged configuration, a load, and a load that
  fails. The deferred `Done` belongs to the step in which `processNextItem`
  returns.
* `Start` and `Crash`/`Die`: everything but the cluster is rebuilt.

Abstractions. The text of an ingress is one word, which is also its route; `NilHTTP` and
`Conflict` say which words make the conversion panic (a rule without `http`,
`ingress.go:37`) or fail (`redirect.go:34`). The parsed ConfigMap is one Boolean
option with a third value for the nil pointer. The plugins have their default order. An ingress
action may always fail in `watchTLSSecrets`; in the code it can only while the
secrets have not been listed. `WaitForCacheSync` is not a guard of the worker: it
waits for the caches, not for the handlers that fill the queue. A relist replays only objects that are new or changed; an
unchanged one would be one more resync. A resync item waits for the previous one
of the same object (an hour apart in the code), which bounds the queue.

### StorageLock

One lock name, sessions (one call of `Lock` or `TryLock`, the operation, `Unlock`)
and two agents per session that call `tryAcquireOrRenew`: the caller and the
goroutine `keepLockUpdated`. Time is discrete: `Tick` advances the clock unless
somebody is at the end of a delay. `time[a]` is when an attempt began (the `now`
of `tryAcquireOrRenew`, to which the instance's `Skew` is added) or when a pause
ends. Get and the write that follows are separate steps; `fresh[a]` says whether
the resource version that was read is still the current one. `ApiError`,
`AnswerLost`, `Conflict`, `Rejected`, `Cancel`, `UnlockFails` and `Crash` are the
failures.

Assumptions that are not in `pkg/storage`: certmagic runs one job per name in a
process, so an instance has one caller at a time; an attempt takes at most
`ApiDelay` and its write takes effect before the caller stops waiting or not at
all; once its context is done, an operation ends and calls `Unlock` within
`AbortDelay`; at most `MaxFails` refreshes fail in a row. The last three bound what
Kubernetes and certmagic do and are constants, so the proofs quantify over them.

### CertFolder

`secrets` and `ingresses` are the cluster; `cache` and `events` the third informer, which
runs once `watching` is true; `queue`, `store`, `worker`, `action` the worker; `folder` the
files, by name; `certs` what Caddy read of them at the last load.

* `SetIngress`, `RemoveIngress`: the ingress informer queues an item. `CreateSecret`,
  `UpdateSecret`, `DeleteSecret`: a change reaches the cache at once if the secret is
  cached, and the handlers later; `Observe` fills the cache. `Resync`, `ResyncIngress`:
  the hourly replays.
* `HandleEvent` is a handler in the informer's goroutine. It filters by
  `SeenIngresses`: the worker is in place `cut` in the middle of `PluckIngress`, where
  the last element is in neither of its places (`HalfPlucked`).
* `HandleIngressSet`, `MkdirFails`, `SyncSecrets`: an ingress item with the parts of
  `watchTLSSecrets`, whose list reads the lister while it is being filled;
  `StartPluck`, `HandleIngressDeleted`; `HandleSecretSet`, `WriteFails`,
  `HandleSecretDeleted`, `RemoveFails`; `ReloadCaddy`, `LoadFails`.

The first list reads the places `<<i, j>>` (TLS section `j` of ingress `i`) in order and
writes what the lister has; the last secret of a name stays. `unwritten`, `unremoved`, `missed` and
`dropped` only record which writes and which removals failed, which deletions the watch missed, and which
versions of secrets were filtered out because no ingress named them, for the
properties. Abstractions: the items of the ticker are left out (an ingress
resync ends in the same reload); a slice header that is read half written would make the
informer panic, which is `Crash`; the folder goes with the container at a crash; the contents of
a secret is its version.

### StatusSync

`cluster` has the version and status of each ingress; each replica has a `life`, the
`labels` of its pod, a `store` (filled by `Deliver`, which stands for the pipeline of
`Controller`) and one `job` per agent and ingress, where the agents are the worker and
`Shutdown`. `syncStatus` and `Shutdown` start a batch in `updateIngStatuses`; each unit
is `GetIngress` and `UpdateStatus`, or `UpdateRefused` (not found, conflict) or `ApiError`;
`Exit` waits for the batch of `Shutdown`, not for the worker. `GetAddresses` reads the
services in the order of the list; the pod is always there: a process outside a cluster, which reports no
addresses (`pod.go:23`), is left out. Hostnames and IPs are numbers, labels are pairs.

### Lifecycle

`main` (connect with `Steps` attempts, `NewCaddyController`, `go Run`, `signal.Notify`,
wait), `run` (caches, serving, and the steps of `Shutdown`) and `worker`. A signal before
`Notify` kills the process. `stopChan` ends the wait for the caches, also when they are not
filled; nothing stops the worker, which may load a configuration before and after Caddy is stopped, until
`os.Exit`. `Shutdown` waits twice: `StatusesUpdated` is the return of `WaitAll`, which needs the API server's
answers, and `CaddyStops` needs Caddy's configuration lock, which the worker has between
`BeginLoad` and `LoadEnds`.

### PluginOrder and Converter

Each plugin is an operator on the configuration or on the routes of one path, with the
results "ok", "error" and "panic". `ConvertToCaddyConfig(iteration, store)` runs them in the order of
`Plugins(iteration, order)`, where `iteration` is the order in which Go happens to
iterate over the map of plugins, one of the constant `Iterations`. `StableSort` is
`sort.SliceStable`, for the plugins and for the routes: an element's place is the number of elements
that go before it. The state machine only builds stores: `AddIngress` and
`PluckIngress` in any sequence, and the conversion after each. The loops over plugins
(`RouteOf`, `RunPlugins`) and over the elements of a path (`ElemsLength`) are recursive functions
over the places of a list.

A text of a path is the sequence of its elements, whether it ends in a slash or a star, and
`Width` gives the length of an element, because the sort compares lengths, and `Lower` its text in lower case,
because Caddy's path matcher compares in lower case. An element has none of the signs that mean
something to Caddy (`*`, `%`, braces) and lower case keeps its length, as it does for ASCII. Hosts are compared as
they are, and wildcard hosts are left out. An annotation is a
field of a record; an IP list is valid or not. The matching of requests (`Accepts`) is
Caddy's, marked external: exact text or prefix with `*`. Kubernetes' rule for paths, element by
element, is the reference it is compared with.

### CleanKey, KeyValue and SecretStorage

`cleanKey` works on sequences of characters in the passes of the code. A call of the storage is a record with its
operation, key, value and the request it waits for. `Serve` has one action per request and
answer; `RequestLost`, `AnswerLost`, `TimedOut`, `LateRequest` and `Crash` are the
failures: a request that timed out stays in `limbo` and may be carried out at any later
time. `KeyValue` has no requests: a call takes effect at one moment, or fails and may
take effect then or later. Its answers are those of the code: `Delete` and `Stat` of a key that is not there are an
error, which only for `Load` is `fs.ErrNotExist`. Times and sizes of `Stat` are left out.

## 3. What TLC checks

| Run | Instance | Properties |
|---|---|---|
| `controller_full` | 2 ingress names, ours and refused or of another class, 2 ConfigMap names with valid and invalid texts, 3 changes, watch loss, crashes | `TypeOK`, `StoreUnique`, `NothingLost`, `OptionsCurrent`, `StoreMonotone` |
| `controller_live` | 2 ingress names without a class, `ClassNameRequired` off, 1 ConfigMap, 3 changes, fairness | `NoGhost`, `Converges` |
| `lock_sessions` | 2 instances, 3 sessions, clocks 1 apart, one failed refresh in a row (lease 6, renewal 2, poll 6) | `TypeOK`, `MutualExclusion`, `OwnerHoldsLease`, `LockReturns`, `RefresherRenewsOwnLease`, `NoTakeoverOfLiveLease` |
| `certs_follow` | 1 ingress with and without a TLS section, 1 secret name of both types, 3 changes of each, all failures | `TypeOK`, `FolderInSync`, `NoOrphanFile` |
| `certs_resync` | 2 ingresses, 1 secret, 3 and 1 changes, fairness | `EventuallyOnDisk` |
| `status_replicas` | 2 replicas, 1 ingress, services of each type that change, 2 changes, 1 stop or crash, fairness | `TypeOK`, `OnlySelectingServices`, `StatusConverges` |
| `routes_all` | 2 ingresses of 15 kinds, 3 sets of options, 3 orders of plugins, 13 request paths on 2 hosts, elements that differ in case only, with and without HTTPS | `CoversRules`, `LongestPathWins`, `AllOrNothing`, `ProxyLast`, `Deterministic` |
| `storage_map` | 2 clients, 3 keys of which 2 share a secret, 2 folders, 2 values, 1 late request; keys of up to 6 characters | `TypeOK`, `ImplementsKeyValue`, `WellFormedName`, `ListedKeysLoad`, `FolderFindsKeys` |
| `life_cycle` | 10 attempts, every environment, fairness | `TypeOK`, `SyncedBeforeWork`, `StopEnds`, `ConnectEnds` |
| `controller_tombstone`, `controller_noconfigmap`, `status_exit` | disagreements, see below | `DeletedIsRemoved`, `ConvertsWithoutConfigMap`, `ShutdownRemovesAddresses` |

*Controller.* `WillBeStored(o)`: when the watch, the queue and the item in hand have been
worked off, the store has the version `o`. It is so if `o` is the last word about its
name in the first of these places that has a word about it. `NothingLost`: in every state
every ingress of ours will be stored in its present version. `NoGhost` is the converse
and holds only when no watch breaks and every ingress is ours; Known differences
below say why. `OptionsCurrent` is the same for the ConfigMap. `TypeOK` includes that the queue has an item in
processing exactly while the worker holds it: an item that is not given back with `Done` blocks its object for ever. `StoreMonotone`: no
step puts an older version of an ingress in the place of a newer one, which is why
`handleErr` may not simply re-queue. `Converges`: Caddy ends up with one route per
ingress and the right options.

*Lock.* The first invariants and the action property are those of the theorems below;
`RefresherRenewsOwnLease` says that the goroutine of one session never takes a lease
over from another instance.

*Certificates.* `FolderInSync`: whenever nothing is under way, the file of every TLS
secret that an ingress in the store names has the secret as it is, unless its last
write failed or its last event was filtered out before an ingress named it. It is remarkable that the first list may read an empty lister: what it misses is
reported to handlers that find the ingress in the store. `NoOrphanFile`: a file goes with its
secret even when no ingress names the secret any more, which holds because
deletions are not filtered. It excepts the deletions the watch has missed and the files that `os.Remove` failed to
remove and that were not written since. `EventuallyOnDisk`: what a filter or a torn read of the store has lost
comes with the resync.

*Statuses.* `StatusConverges`: replicas that overwrite each other, one of which may empty the
status as it stops, come to agree for good, if requests are answered.
`OnlySelectingServices`: only addresses of services that select the pod are written.

*Routes.* `CoversRules`: some route accepts a request exactly if some rule covers it, by
Kubernetes' rules but for the case of letters in paths, which Caddy ignores. `LongestPathWins`: with smart sorting and the default order of plugins, the route that answers has
the longest path of those that cover the request. `AllOrNothing`: a conversion has routes for
every ingress, or fails. `ProxyLast` and `Deterministic`: see the comments.

*Storage.* `ImplementsKeyValue` is the refinement. `WellFormedName`: a key with a letter or a digit becomes a
name whose labels have the form Kubernetes asks for; how long it is is not part of it. `ListedKeysLoad`: `cleanKey` is idempotent, which is what makes the
cleaned keys `List` returns usable. `FolderFindsKeys`: the cleaned name of a folder is a
beginning of the cleaned names of its keys.

*Process.* `SyncedBeforeWork`, and that connecting ends (`ConnectEnds`, where each attempt is assumed to end) and a signal ends the
process (`StopEnds`). The latter is an implication: `Answered`, that the API server answers the
requests of `WaitAll` and that no load holds Caddy's lock for ever, is its premise and not part of the
specification, since the code enforces neither. Under it the process ends even if the worker loads again and again and
so competes with `caddy.Stop` for the lock, and if the caches never fill.

### Known differences

Runs that show a disagreement between the code and what the repository says of it
(`findings` in `PROJECT.json`):

* `controller_tombstone`: an ingress deleted while the watch is down stays in the store.
* `controller_noconfigmap`: deleting the ConfigMap makes the worker panic. The
  process dies and the next one starts with default options, which is why
  `Converges` holds all the same.
* `status_exit`: the worker writes the addresses again after `Shutdown` has removed them.

Others met while modelling. The models have the behaviour, and the instances or the
statements of the properties stay clear of it:

* An ingress edited to another class stays in the store: `UpdateFunc` and `DeleteFunc` ask
  only whether the new object is ours (`internal/k8s/ingress.go:41`).
* With requests slower than the lease, which `kubeAPITimeout` allows, a refresher takes
  over the expired lease of another instance (`pkg/storage/storage.go:401`).
  `PromptEnough` excludes it.
* A secret only a later ingress names is not listed: if its event was dropped before
  that ingress was in the store, the file is missing until the resync
  (`internal/controller/action_tls.go:103`). `FolderInSync` excepts these versions (`dropped`), and
  `EventuallyOnDisk` shows that the resync brings them.
* A file that `os.Remove` fails to remove stays: the error is logged and the deletion is never reported again
  (`action_tls.go:97`). `NoOrphanFile` excepts it (`unremoved`).
* Secrets of the same name in two namespaces share a file (`action_tls.go:77`, `:97`).
* A renewed certificate is written but not loaded, because the configuration is the same
  (`internal/controller/controller.go:270`).
* `GetPodDetails` drops the error of its request; the pod has then no labels and every service
  of the namespace counts (`internal/k8s/pod.go:100`; constant `LookupFails`). A service without a selector
  counts too (`pod.go:51`).
* An exact and a prefix rule for the same path tie in the sort
  (`internal/caddy/global/ingress_sort.go:41`); `LongestPathWins` counts elements and does not tell them apart.
* Caddy's path matcher ignores the case of letters, Kubernetes' `Exact` and `Prefix` do not: a rule for `/a` also
  answers `/A` (`internal/caddy/ingress/matcher.go:46`). `CoversRules` compares with Kubernetes' rule in
  lower case (`MatchesIgnoringCase`).
* A shutdown whose requests are never answered, or that meets a load that never ends, hangs until the process is killed:
  `WaitAll` (`action_status.go:65`) waits for requests with `context.TODO()` of a client without a timeout, of
  which `pkg/storage/storage.go:52` says that they can "block forever". `StopEnds` and `StatusConverges` assume that they are answered.
* A key whose name would be longer than 253 characters is not shortened, and Kubernetes refuses it: `Store` fails
  (`storage.go:84`). The names of `WellFormedName` may be that long.
* Plugins named in `-plugins-order` run in the reverse of that order
  (`pkg/converter/converter.go:78`).
* `onDemandTLS` has no effect unless an ACME CA or an email is set
  (`internal/caddy/global/configmap.go:37`).

### Bounds

`MaxRev`, `MaxIngressRev` and `MaxSecretRev` bound the changes others make to the cluster, not the steps
of the controller: resyncs, status syncs, failures, broken watches and restarts are unbounded. Three changes
are enough for create, modify, delete and for delete and create again under one name.
`MaxStops` bounds shutdowns and crashes of replicas: the last ones would otherwise
never end. `MaxLimbo` bounds the requests carried out late at one time, and `MaxLength` the keys that
are spelled: six characters are enough for two runs of separators with a dot among them.

The clock of the lock is bounded by `MaxClock = 1000`,
which no explored state comes near: the view `RelativeView` identifies states that differ by a
shift in time, by the leftovers of a goroutine that has ended, or by how long ago a
lease expired once nobody can tell. No guard and no property sees these
differences, so every reachable state is represented. The instance has about the proportions
of the code's durations (5 s, 2 s, 5 s), with a lease one unit longer to have room for a
failed refresh and the difference of the clocks; `lockAcquireTimeout` is scaled down, from 5 minutes to less than one poll
interval, so that both of its branches are taken. Requests that take time are left to the proofs.

`SYMMETRY` permutes the names of ingresses, and the clients and values of the storage, in runs
without liveness. Deadlock is checked, except in `certs_resync`, where the cluster may come to rest with no ingress
and nothing to resync, and in `life_cycle`, where the process ends.

### Fairness

`Controller!FairSpec` asks for weak fairness of each goroutine: the informers' event loops, the
ticker, the worker's Get, handle and reload, and the restart of a dead process, which is
Kubernetes' job. Two actions get strong fairness: `HandleSync` and `ReloadCaddy`,
because `GetAddresses` and `caddy.Load` call others and are only assumed not to fail
every time. Ingresses that can never be converted are left out of that run: with one of them the code
never loads again.

`CertFolder!FairSpec`: weak fairness of the goroutines, and strong fairness of the resync of each secret,
which comes every hour whatever else happens. `StatusSync!FairSpec`: weak fairness of
requests, exit and restart; strong fairness of the ticker's `syncStatus`, of `Deliver`,
and of the worker's two requests, which are assumed to be answered and not to fail every time. `Lifecycle!FairSpec`:
`main`, the wait for the caches and `Shutdown`'s own steps go on; `caddy.Stop` gets the lock if it is free again
and again (strong fairness), because a Go mutex is handed over to who has waited for a millisecond. Nothing is
assumed of the API server, of a load that holds the lock, of the informers or of the worker; what `StopEnds` needs of
the first two is in its premise.

## 4. What is proved

All proofs are checked by TLAPS, without any unproved step. The constants are
arbitrary except for the named assumptions `BoundsAssumption` (Controller),
`TimingAssumption` (StorageLock: durations are natural numbers, clock differences
integers, an identity is not the empty string), `StorageAssumption` (SecretStorage: the
absence of a value is not a value), `CertFolderAssumption` (CertFolder), `StatusAssumption` (StatusSync:
the type of a list of services), `ConverterAssumption` (Converter: the elements of a path
are not empty, their lower case is an element of the same length, an order is a list of names, an iteration of the map has every plugin once, an ingress has a list
of rules, each with a host and a list of paths, and the path of a request begins with a slash) and `LifecycleAssumption`, which TLC evaluates on the instances. Some theorems
have a hypothesis of their own, given below.

**`StorageLock_proofs`.** `PromptEnough` relates the durations:

    ApiDelay + (MaxFails + 1) * (leaseRenewInterval + ApiDelay)
      + ApiDelay + AbortDelay + (clock difference)  <  leaseDuration

With the code's 5 s and 2 s: without failed refreshes, clocks half a second apart,
attempts of half a second and half a second to abort are fine; one failed refresh
leaves less than a second for all of these. A request of a few seconds breaks it.

* `LockExcludes`, `OwnersHoldTheLease`: `PromptEnough` implies that two instances
  never hold the lock together and that the lease names the holder.
* `NoTakeover`: without it, a lease still changes hands only after it has
  expired by the clock of the new holder.
* `LockCallReturns`: without it, `Lock` returns within
  `lockAcquireTimeout + leasePollInterval + ApiDelay`.
* `RefreshersTakeNothing`: `PromptEnough` implies that a refresher that runs on after its
  lock is lost or released never takes over the lease of the next holder.
* `TypeCorrect`.

Exclusion is not inductive. `LockInv` adds four parts. `Timers`: nobody is past
the end of a delay. `Snapshots`: a lease about to be updated that
nobody has changed since it was read is ours or has expired. `OneCaller`: one caller
per instance. `OwnersCovered`: the lease of an owner names it, and its refresher begins its next attempt at most
`Slack(fails)` after the last renewal began, or the context was done by then. The argument: a
foreign write needs a lease that has expired by a clock that is ahead by at most
the difference of the skews, and by `Timers` and `OwnersCovered` no owner's lease is
ever that old. `NoForeignWrite` is that step; `OwnWrite` and `RefreshFails` keep the schedule;
`CoveredStep` goes through the actions. `LockReturns` rests on `WaitBounded` in
the same way, and `RefresherRenewsOwnLease` on `DeposedAreTold`: a refresher whose lease another
instance holds begins its next attempt at most `Slack(fails)` after that instance's last
renewal began, so it reads the new lease before that can expire, and stops.

**`Controller_proofs`.** `StoreStaysUnique`, and the types of the variables (`VarTypes`); `TypeOK` as a whole is in
`Pipeline_proofs`, because that the queue and the worker agree on the item in hand is a part of the
invariant there. The typing of the watch needs finiteness of
cluster and caches (`Finite`): a relist reports a finite set in some order. Uniqueness
rests on lemmas about `AddIngress` and `PluckIngress` for lists of anything with a
uid, and on `HandlersStore`, which says what any handler may do to the store.

**`SecretStorage_proofs`.** `TypeCorrect` and `Refinement`. For these `cleanKey` stays unexpanded: the
storage implements a map over names, whatever function from keys to names it is. The inductive invariant is the typing with a
finite set of late requests. Each request is matched with one step of `KeyValue`: it takes
effect, it fails, or, when `Create` finds a secret and `Store` goes on to `Update`, nothing
happens that a caller could see. A request whose caller has gone and that takes effect
later is the step `Late` of the map.

`NamesAreWellFormed`, `NamesStay` and `FoldersFindKeys` are about `cleanKey`, for keys of any length: the
specification `MCSpec` of the theorems spells keys up to `MaxLength`, which is arbitrary, and the lemmas they
follow from (`NameOfLetters`, `CleanIsName`, `FolderBeginsKey`) hold for every sequence of characters. The two loops are read as
functions of the number of characters taken (`SpecialsUpTo`, `RunsUpTo`), and each fact about them is an induction over that number
(`AllPlaces`). `ReplaceSpecial` never takes back what it has written (`SpecialsGrow`). `ReplaceDotDashRuns` may: a dot
replaces the dashes before it; but it keeps everything up to the last letter or digit (`RunsKeep`), and its text never has a dot
next to a dot or a dash (`NoRuns`). So trimming takes at most one dot at the left, and at the right everything after the last letter
or digit (`TrimmedIs`, with the places `Bounds`). From this: a letter of the key is left; what is
left has the form of a name (`Clean`); both loops leave a clean text as it is; and a folder's name ends with a letter or digit that the
longer key keeps in its place.

**`Lifecycle_proofs`.** `TypeCorrect` and `WorkAfterSync`. The invariant: a worker exists, or
a configuration runs, only when both informers have their lists. It needs no
assumption on signals: a signal during `WaitForCacheSync` starts no worker.

**`Pipeline_proofs`.** `TypeCorrect`, `NothingIsLost` and `OptionsStayCurrent`, without any hypothesis: watches break,
handlers fail, items are merged, the process dies. `NothingLost` speaks of the last word about
an object in three places at once, so that it is not inductive: a step could bring
an older word behind a newer one. `PipelineInv` excludes this. `Versions`: of all
versions of an object anywhere in the system the cluster has the newest, and a UID has
one name. `Informed`: an object of the cluster is cached as it is, or an event with it is under way;
its deletion is not queued. `WatchInOrder`: nothing follows the event with the present version
of a name, and nothing but a tombstone follows a deletion. `WatchIsNews`: an event is newer
than what is cached, queued and stored of its object. `OneInHand`: an object's item is not queued again while
it is processed. Then `Fate` puts the four cases of
`WillBeStored` in terms of two sets of words, and there is a lemma per kind of step: a change in the cluster appends a last word
(`ChangeFate`), an event becomes an item (`TakeFate`), an item is taken (`GetFate`) and handled
(`HandlersFate`), a resync repeats the last word (`ResyncFate`), and a relist
has a word for every object whose cached version is not the present one
(`RelistFate`); the words lost with the watch were no others. The invariant was checked by TLC
on 1.35 million states before it was proved.

The last part of the module is about what is in the store. `StoreIsMonotone` needs the order of the queue (`InLineInv`): from the store
over the item in hand and along the queue to the cache the versions of an object do not
become older. `NothingIsLeftBehind` has the hypothesis that no watch breaks
(`WatchLoss` is off) and that all ingress texts are ours, without which the code does leave ingresses behind
(Known differences). It adds `Succeeded`: what is cached or on the watch is in the cluster, or a
newer event or a deletion is behind it.

**`CertFolder_proofs`.** `TypeCorrect`, `FilesDoNotOutlive` and `FolderFollowsSecrets`. All rest on
`OrderInv`, which is about the line of items from the events of the third informer to the worker:
an item that is behind another about the same secret has a newer version, or says
something else of the same version (`Line`); each waits or is processed once (`EachOnce`); none is newer than the cluster
(`Versions`), a deletion is of what is gone and what exists is cached (`Heard`).
`NoOrphanFile` is not inductive because a write may be queued, or in hand,
when the secret is deleted: `Doomed` says that a deletion is then behind it in the line,
`Passing` the same of what is written already. `FolderInSync` needs `Follows`: each cached secret is in
its file, in hand, behind the item in hand, could not be written or was dropped, and as long as an
older version is in line, or the worker is about to list, it is still behind them. `Unwatched`: without the
informer nothing is said of secrets. The hypothesis of `FolderFollowsSecrets` is that there is one
namespace: file names lack it, and with two, secrets of one name overwrite each other
(Known differences). `FilesDoNotOutlive` has no hypothesis; the property it states excepts missed deletions and failed
removals.

**`StatusSync_proofs`.** `TypeCorrect` and `OnlyOurAddresses`. The sort puts an entry in the place that
the number of entries before it says; `EachRankOnce` shows that for a total order every place is
taken, because ranks are an injection into as many places (`FS_Injection`), and `SortKeepsEntries`
that the sorted list has entries of the argument only. `AddressInv`: what is written, and what a batch is about to write, has entries of
selecting services or the empty one, and a replica that runs has the labels of its pod. The hypothesis
`PodIsKnown` (the pod was found and has labels, and every service has a selector) excludes the
two cases in which `isSubset` accepts every service or every pod (Known differences).

**`Converter_proofs`.** `TotalOrder`: `lessPlugins` is a strict total order of the names, whatever
`-plugins-order` is, because names tell plugins apart. So as many plugins are less than a given one
in each iteration of the map (`SameCount`, a bijection), each plugin's place is the same
(`PlacesOfPlugins`), and `ConversionIsDeterministic` follows: the invariant is that the configuration
is a conversion of the present store. `PluginsAreSorted` is that a list by such places is sorted and has
every plugin; `DefaultOrderOfPlugins` draws from it the order of handlers that `ProxyIsLast` and
`LongestPathAnswers` depend on. `RoutesAreSorted` is the same for routes, which may tie: `ComparesByClass` shows
that the three cases of the comparison in `sortRoutes` amount to comparing a class and a length, which with
the place in the list is a total order (`BeforeOrders`). Its hypothesis `RouteList` says that paths have
lengths and that only the empty one has length 0, which `TextsHaveLength` proves of the texts of paths.
`PatternsCoverPaths` is the part of `CoversRules` about one path. It supposes that the path of an
ingress has no star and that a request's path begins with a slash, and compares with Kubernetes' rule for path and
request in lower case.

The other theorems are about the conversion as a whole, whatever the ingresses. The invariant `Inv` is that the store is a list
of ingresses and the configuration a conversion of it; what a conversion has is then shown by
inductions over the places of lists: of the plugins of a route, of the paths and rules of all ingresses, of the global plugins, each taking
what the one before it has left. A set of places that has 0 and with each place the next one has all of
them (`AllPlaces`, from the least number of a set); a loop is a function on places that exists by the same
argument.

* `ConversionIsAllOrNothing`: if no plugin has failed, the routes are those of the rules, none missing and none more, and
  sorting keeps them. For any `-plugins-order`: a plugin that comes too early or too late adds
  handlers in another order but no route.
* `ProxyIsLast`: with the default order, also for the routes of a configuration that fails.
* `RoutesCoverRules`: `ConversionIsAllOrNothing` and `PatternsCoverPaths`, and the same for hosts.
* `LongestPathAnswers`: among the routes that accept a request, one with a longer text goes before the others
  (`RoutesAreSorted`), and of two paths that begin the same request the one with more elements has the longer text
  (`LongerThanPrefix`), whatever the lengths of the elements, because lower case changes no length.

The last two have the hypothesis `PlainPaths`: no path of an ingress ends in a star. Kubernetes does not know such
paths, so there is no rule to compare with; what they match is left to Caddy.

Only model-checked: liveness (`Converges`, `EventuallyOnDisk`, `StatusConverges`, `StopEnds`, `ConnectEnds`), because the prover has
neither fairness nor `ENABLED`. `DeletedIsRemoved`, `ConvertsWithoutConfigMap` and `ShutdownRemovesAddresses` do not hold.

## 5. Plan

Done: the pipeline from the cluster to Caddy, the storage lock, the certificate folder, the statuses, the
conversion, the storage's values with their abstract specification, and the process.

Every invariant and action property that a run checks, and the refinement, are proved for all values of the
constants. Left, should the code change: weaker hypotheses where a Known difference is repaired.

Not modelled, because they hold no state or logic of their own: parsing of the command line
(its results are constants), the `mapstructure` decoder of the ConfigMap's texts, the
deprecated PROXY wrapper, the Helm chart, the samples and the end-to-end tests.
