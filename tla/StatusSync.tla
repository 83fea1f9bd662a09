----------------------------- MODULE StatusSync -----------------------------
(***************************************************************************)
(* The status of the ingresses (internal/controller/action_status.go,      *)
(* internal/k8s/pod.go, UpdateIngressStatus of internal/k8s/ingress.go and *)
(* Shutdown of internal/controller/controller.go).  Every replica of the   *)
(* controller writes the addresses of its services to the status of every  *)
(* ingress, again and again; a replica that is stopped writes an empty     *)
(* address while its worker is still running.                              *)
(*                                                                         *)
(* Deliver stands for the way of a changed ingress from the API server to  *)
(* the store of a replica, which Controller models in detail.              *)
(***************************************************************************)
EXTENDS Naturals, FiniteSets, SequencesExt

CONSTANTS
    Replicas,
    Ingresses,     \* names of ingresses
    ServiceLists,  \* what Services.List can return: sequences of services
    PodLabels,     \* the labels of the controller's pods: a set of pairs
    LookupFails,   \* may GetPodDetails not get the pod?
    MaxRev,        \* bound: changes of ingresses and services by others
    MaxStops       \* bound: replicas that are stopped or killed

ASSUME StatusAssumption ==
    /\ MaxRev \in Nat /\ MaxStops \in Nat
    /\ LookupFails \in BOOLEAN
    /\ \A l \in ServiceLists : l \in Seq([type : {"NodePort", "ClusterIP", "ExternalName", "LoadBalancer"},
                                          selector : SUBSET (Nat \X Nat), addr : Nat, isIP : BOOLEAN])

VARIABLES
    cluster,   \* per ingress, its version and status, or NoIngress
    version,   \* the versions the API server has given out
    rev,       \* how many changes others have made
    services,  \* the services of the pods' namespace
    life,      \* per replica: "off", "up" or "stopping"
    labels,    \* resourceStore.CurrentPod.Labels
    store,     \* per replica, the ingresses in its store
    job,       \* per replica, agent and ingress: the update under way
    stops,     \* how many replicas have ended
    clean      \* replicas whose last end was a Shutdown

vars == <<cluster, version, rev, services, life, labels, store, job, stops, clean>>

apiVars == <<cluster, version>>
replicaVars == <<life, labels, stops, clean>>
-----------------------------------------------------------------------------
(* Addresses.  Hostnames and IP addresses are numbers, 0 is the empty      *)
(* string; a status is a sequence of pairs of the two.                     *)

NoAddr == 0

\* Faulty variant of isSubset: the values of the labels are not compared.
isSubset_keys_only(subSet, superSet) ==
    superSet = {} \/ {l[1] : l \in subSet} \subseteq {l[1] : l \in superSet}

\* Copied from Kubernetes, the code says: a pod without labels matches.
isSubset(subSet, superSet) == superSet = {} \/ subSet \subseteq superSet

\* A NodePort service has no address of its own: the case does not fall
\* through.  A headless service, and a load balancer not yet provisioned,
\* have none either (addr = NoAddr).
GetAddressFromService(svc) == IF svc.type = "NodePort" THEN NoAddr ELSE svc.addr

\* The places of the services that count, in the list of all services.
GetAddresses(podLabels, svcs) ==
    {i \in DOMAIN svcs : /\ isSubset(svcs[i].selector, podLabels)
                         /\ GetAddressFromService(svcs[i]) # NoAddr}

LoadBalancerIngress(svc) ==
    IF svc.isIP THEN [hostname |-> NoAddr, ip |-> svc.addr]
                ELSE [hostname |-> svc.addr, ip |-> NoAddr]

lessLoadBalancerIngress(a, b) ==
    a.hostname < b.hostname \/ (a.hostname = b.hostname /\ a.ip < b.ip)

\* sort.SliceStable on the entries of list at the places: an entry goes after those
\* that are less, and after the equal ones at earlier places.
GoesFirst(list, i, j) ==
    \/ lessLoadBalancerIngress(list[i], list[j])
    \/ list[i] = list[j] /\ i < j

SliceStable(list, places) ==
    [k \in 1 .. Cardinality(places) |->
        list[CHOOSE i \in places : Cardinality({j \in places : GoesFirst(list, j, i)}) = k - 1]]

\* sliceToLoadBalancerIngress, and the sort at the start of updateIngStatuses.
sliceToLoadBalancerIngress(svcs, places) ==
    SliceStable([i \in DOMAIN svcs |-> LoadBalancerIngress(svcs[i])], places)

\* What Shutdown writes: one entry that is empty.
EmptyAddress == <<[hostname |-> NoAddr, ip |-> NoAddr]>>

Addresses(podLabels) == sliceToLoadBalancerIngress(services, GetAddresses(podLabels, services))
-----------------------------------------------------------------------------
Agents == {"worker", "shutdown"}

NoIngress == [rv |-> 0, status |-> <<>>]

Idle == [at |-> "off", rv |-> 0, addrs |-> <<>>]

Job(addrs) == [at |-> "get", rv |-> 0, addrs |-> addrs]

NoJobs == [a \in Agents |-> [i \in Ingresses |-> Idle]]

Init ==
    /\ cluster = [i \in Ingresses |-> NoIngress]
    /\ version = 0
    /\ rev = 0
    /\ services \in ServiceLists
    /\ life = [r \in Replicas |-> "off"]
    /\ labels = [r \in Replicas |-> {}]
    /\ store = [r \in Replicas |-> [i \in Ingresses |-> NoIngress]]
    /\ job = [r \in Replicas |-> NoJobs]
    /\ stops = 0
    /\ clean = {}
-----------------------------------------------------------------------------
(* The API server and its other users.                                     *)

\* A write that changes nothing keeps the version.
SetStatus(i, status) ==
    IF cluster[i].status = status
    THEN UNCHANGED apiVars
    ELSE /\ cluster' = [cluster EXCEPT ![i] = [rv |-> version + 1, status |-> status]]
         /\ version' = version + 1

\* An ingress is created or, by its users, changed.
ChangeIngress(i) ==
    /\ rev < MaxRev
    /\ rev' = rev + 1
    /\ cluster' = [cluster EXCEPT ![i] = [rv |-> version + 1, status |-> @.status]]
    /\ version' = version + 1
    /\ UNCHANGED <<services, replicaVars, store, job>>

DeleteIngress(i) ==
    /\ rev < MaxRev
    /\ rev' = rev + 1
    /\ cluster[i] # NoIngress
    /\ cluster' = [cluster EXCEPT ![i] = NoIngress]
    /\ UNCHANGED <<version, services, replicaVars, store, job>>

\* A service gets or loses its address.
ChangeServices(l) ==
    /\ rev < MaxRev
    /\ services # l
    /\ rev' = rev + 1
    /\ services' = l
    /\ UNCHANGED <<apiVars, replicaVars, store, job>>
-----------------------------------------------------------------------------
(* updateIngStatuses, by the worker in syncStatus or by Shutdown.          *)

Busy(r, a) == \E i \in Ingresses : job[r][a][i] # Idle

\* The worker is between two items: it handles one item after the other, and
\* updateIngStatuses waits for its whole batch.
WorkerFree(r) == life[r] # "off" /\ ~Busy(r, "worker")

\* The worker handles what has become of an ingress.
Deliver(r, i) ==
    /\ WorkerFree(r)
    /\ store[r][i] # cluster[i]
    /\ store' = [store EXCEPT ![r][i] = cluster[i]]
    /\ UNCHANGED <<apiVars, rev, services, replicaVars, job>>

\* ingressSliceEqual, on the status as the store has it.
Differs(r, i, addrs) ==
    /\ store[r][i] # NoIngress
    /\ SliceStable(store[r][i].status, DOMAIN store[r][i].status) # addrs

\* Faulty variant of updateIngStatuses: an ingress that has addresses is skipped.
updateIngStatuses_only_empty(r, a, addrs) ==
    /\ job' = [job EXCEPT ![r][a] = [i \in Ingresses |->
                  IF Differs(r, i, addrs) /\ store[r][i].status = <<>>
                  THEN Job(addrs) ELSE Idle]]

updateIngStatuses(r, a, addrs) ==
    /\ job' = [job EXCEPT ![r][a] = [i \in Ingresses |->
                  IF Differs(r, i, addrs) THEN Job(addrs) ELSE Idle]]

syncStatus(r) ==
    /\ WorkerFree(r)
    /\ updateIngStatuses(r, "worker", Addresses(labels[r]))
    /\ UNCHANGED <<apiVars, rev, services, replicaVars, store>>

\* UpdateIngressStatus reads the ingress by its name ...
GetIngress(r, a, i) ==
    /\ job[r][a][i].at = "get"
    /\ cluster[i] # NoIngress
    /\ job' = [job EXCEPT ![r][a][i] = [at |-> "put", rv |-> cluster[i].rv, addrs |-> @.addrs]]
    /\ UNCHANGED <<apiVars, rev, services, replicaVars, store>>

\* runUpdate logs an error and ends the unit of work all the same.
JobDone(r, a, i) == job' = [job EXCEPT ![r][a][i] = Idle]

\* ... and writes it with the version it has read.
UpdateStatus(r, a, i) ==
    /\ job[r][a][i].at = "put"
    /\ cluster[i].rv = job[r][a][i].rv
    /\ SetStatus(i, job[r][a][i].addrs)
    /\ job' = [job EXCEPT ![r][a][i] = Idle]
    /\ UNCHANGED <<rev, services, replicaVars, store>>

\* Not found, or the conflict with another write.
UpdateRefused(r, a, i) ==
    /\ \/ job[r][a][i].at = "get" /\ cluster[i] = NoIngress
       \/ job[r][a][i].at = "put" /\ cluster[i].rv # job[r][a][i].rv
    /\ JobDone(r, a, i)
    /\ UNCHANGED <<apiVars, rev, services, replicaVars, store>>

\* Any other failure of a request.
ApiError(r, a, i) ==
    /\ job[r][a][i].at # "off"
    /\ JobDone(r, a, i)
    /\ UNCHANGED <<apiVars, rev, services, replicaVars, store>>
-----------------------------------------------------------------------------
(* The process.                                                            *)

\* GetPodDetails drops the error of its request, and has then a pod without labels.
Start(r) ==
    /\ life[r] = "off"
    /\ life' = [life EXCEPT ![r] = "up"]
    /\ \E pod \in {PodLabels} \cup (IF LookupFails THEN {{}} ELSE {}) :
           labels' = [labels EXCEPT ![r] = pod]
    /\ clean' = clean \ {r}
    /\ UNCHANGED <<apiVars, rev, services, store, job, stops>>

\* Faulty variant of Shutdown: it runs before the controller is told to stop.
Shutdown_too_early(r) ==
    /\ stops < MaxStops
    /\ life[r] = "up"
    /\ stops' = stops + 1
    /\ updateIngStatuses(r, "shutdown", EmptyAddress)
    /\ UNCHANGED <<apiVars, rev, services, life, labels, store, clean>>

\* SIGTERM: Run calls Shutdown.  The worker goes on.
Shutdown(r) ==
    /\ stops < MaxStops
    /\ life[r] = "up"
    /\ life' = [life EXCEPT ![r] = "stopping"]
    /\ stops' = stops + 1
    /\ updateIngStatuses(r, "shutdown", EmptyAddress)
    /\ UNCHANGED <<apiVars, rev, services, labels, store, clean>>

End(r) ==
    /\ life' = [life EXCEPT ![r] = "off"]
    /\ labels' = [labels EXCEPT ![r] = {}]
    /\ store' = [store EXCEPT ![r] = [i \in Ingresses |-> NoIngress]]
    /\ job' = [job EXCEPT ![r] = NoJobs]
    /\ UNCHANGED <<apiVars, rev, services>>

\* caddy.Stop and os.Exit, which ends the worker wherever it is.
Exit(r) ==
    /\ life[r] = "stopping"
    /\ ~Busy(r, "shutdown")
    /\ End(r)
    /\ clean' = clean \cup {r}
    /\ UNCHANGED stops

Crash(r) ==
    /\ stops < MaxStops
    /\ life[r] # "off"
    /\ End(r)
    /\ stops' = stops + 1
    /\ UNCHANGED clean

Update(r, a, i) ==
    GetIngress(r, a, i) \/ UpdateStatus(r, a, i) \/ UpdateRefused(r, a, i)

Next ==
    \/ \E i \in Ingresses : ChangeIngress(i) \/ DeleteIngress(i)
    \/ \E l \in ServiceLists : ChangeServices(l)
    \/ \E r \in Replicas, i \in Ingresses : Deliver(r, i)
    \/ \E r \in Replicas : syncStatus(r)
    \/ \E r \in Replicas, a \in Agents, i \in Ingresses : Update(r, a, i) \/ ApiError(r, a, i)
    \/ \E r \in Replicas : Start(r) \/ Shutdown(r) \/ Exit(r) \/ Crash(r)

Spec == Init /\ [][Next]_vars

\* The informers, the ticker and the requests go on, a request does not fail
\* every time, and Kubernetes starts a replica again.
Fairness ==
    /\ \A r \in Replicas :
        /\ WF_vars(Start(r))
        /\ WF_vars(Exit(r))
        /\ SF_vars(syncStatus(r))
    /\ \A r \in Replicas, i \in Ingresses :
        /\ SF_vars(Deliver(r, i))
        /\ \A a \in Agents : WF_vars(Update(r, a, i))
        /\ SF_vars(GetIngress(r, "worker", i))
        /\ SF_vars(UpdateStatus(r, "worker", i))

FairSpec == Spec /\ Fairness
-----------------------------------------------------------------------------
(* Properties.                                                             *)

\* Every variable has its type, and only a replica that is stopping has a shutdown's update
\* under way.
TypeOK ==
    /\ life \in [Replicas -> {"off", "up", "stopping"}]
    /\ services \in ServiceLists
    /\ rev \in 0 .. MaxRev
    /\ \A i \in Ingresses : cluster[i].rv \in 0 .. version
    /\ \A r \in Replicas :
        /\ \A i \in Ingresses : store[r][i].rv \in 0 .. version
        /\ Busy(r, "worker") => life[r] # "off"
        /\ Busy(r, "shutdown") => life[r] = "stopping"

\* syncStatus "ensures that the ingress source address points to this ingress controller's
\* IP address".  With several replicas that write, one that empties the status as it
\* stops, conflicts and stale copies, every ingress comes to have the addresses for good,
\* and no replica stays in its shutdown, which waits for a batch of updates.
Reported ==
    \A i \in Ingresses :
        cluster[i] # NoIngress => cluster[i].status = Addresses(PodLabels)

StatusConverges == <>[](Reported /\ \A r \in Replicas : life[r] = "up")

\* Shutdown is there to "remove this ingress controller's ip from ingress
\* resources": when every replica has shut down, no ingress has an address.
ShutdownRemovesAddresses ==
    clean = Replicas => \A i \in Ingresses : cluster[i].status \in {<<>>, EmptyAddress}

\* GetAddresses asks for the "services that may select this pod": no other
\* service's address is written.
Selects(svc) == svc.selector # {} /\ svc.selector \subseteq PodLabels

OnlySelectingServices ==
    \A i \in Ingresses : \A a \in ToSet(cluster[i].status) \ ToSet(EmptyAddress) :
        \E l \in ServiceLists : \E s \in ToSet(l) : Selects(s) /\ LoadBalancerIngress(s) = a
=============================================================================
